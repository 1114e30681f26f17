# TLA+ project for kiwi-provider

`kiwi-provider` is a pull-based configuration manager. A *provider* (an Express
server) holds an inventory of hosts and an archive of recipes; an *agent* on every
host asks it which release it offers, fetches the part of the archive meant for the
host, runs the recipes and reports what became of them. The same components serve
a command line tool that runs recipes and tests locally. Paths below are relative
to the `src/` directory of the repository, those that begin with `cmd/` to its root.

Contents: 1 inventory of the system, 2 plan, 3 the modules, 4 the runs,
5 the proofs, 6 where code and documentation differ, 7 what is left out.

## 1. Inventory

| part | state it keeps | operations | interacts with |
|---|---|---|---|
| **agent** `app/kiwiAgent`, `cmd/kiwiAgent.ts` | the queue of recipes (memory), the recorded release (a file) | `bootstrap`, `GET /reload`, `GET /current` | provider (`/release`, `/config`, `/report`, logs storage, assets), recipes |
| **provider** `app/kiwiProvider` | inventory and archive loaded at start; `HostReport` rows | `/release`, `/config/:release`, `/report`, hooks, admin UI | archive, inventory, logs storage, hooks |
| **logs storage** `logsStorage` | `HostLogs` rows, files | `/uploadUrl`, `PUT /upload/:hash`, `/downloadUrl`, `/download/:hash` | agent, admin UI, `HostReport` (foreign key) |
| **assets distribution** `assetsDistribution` | files or S3 objects | `uploadFile`, `/downloadUrl`, `/download` | archive creation, agent |
| **archive** `components/archive.ts` | its configuration, a cache of compiled recipe sources | create, give a host its part, instantiate recipes | inventory, recipe sources |
| **inventory** `components/inventory*.ts`, `util/hostPattern.ts` | hosts, groups, members of groups (cache), groups of a host (cache) | load hosts, add a host, resolve patterns, groups of a host, aggregate variables, sub-inventory | host sources, archive, recipes |
| **recipes and tasks** `components/{recipe,task}.ts`, `modules` | variables, statistics and shutdown hooks of a run | `Recipe.run`, `Task.run`, the modules `try`, `loop`, `switch`, `recipe`, `exit`, `fail` and the others | inventory (variables), templates |
| **recipe sources** `recipeSources` | directory and git caches | find a recipe by its id | archive, recipes |
| **test suites and runners** `components/testSuite.ts`, `runners` | a container, test mocks | run a recipe in a runner and check it | recipes |
| **infrastructure** `util`, `dataSources`, `hostSources` | none that outlives a call | templates, YAML, shorthand syntax, HTTP and file access | everything |

How they interact: the agent calls the provider over HTTP only, and each call may
fail or be lost on its own. In the provider, requests share the inventory with its
caches, the archive, the database and the directory of logs; they interleave at
every `await`. In the agent, reloads share the queue and the release file in the
same way. A running recipe is one chain of calls: modules call the task runner,
which calls modules.

What makes each part correct:

* *agent*: a release counts as processed only after its recipes ran; none is run
  twice, lost or left behind; the provider shows what really happened; every
  reload ends.
* *provider and logs storage*: a log offered for download is whole and belongs to
  the run it is shown under; what was acknowledged stays; reports and hooks do not
  go back in time.
* *recipes and tasks*: errors are handled where the recipe says so and nowhere
  else; an exit ends what it must; nothing of a failed attempt gets out; servers
  started by a recipe are shut down with it; a run ends.
* *inventory and archive*: a host gets the recipes that target it and no others;
  the answer does not depend on who asked before; the agent can resolve every
  relation of its hosts.
* *recipe sources, archive creation, assets*: every dependency is resolved from a
  source that is trusted to provide it, and is shipped with its own assets.
* *test suites and runners*: a container is removed whatever fails.

What is hard to test in this code, and therefore modelled:

* **A shared queue without a lock.** Every `await` of `KiwiAgent.reloadRelease`
  lets another reload of the same process run.
* **Failure in the middle.** A recipe that fails must not let its release be
  recorded; what is behind it in the queue stays there.
* **Best-effort reports.** A failed call is logged and forgotten, and may still
  have its effect at the provider.
* **Crash and restart.** The queue is volatile, the release file is written in
  place, uploads are files and rows that are written one after the other.
* **Bootstrap and server** use the same file with different recipes.
* **Control flow through promises and exceptions**: retries, `catch`, `finally`,
  conditions and exits in lists nested in each other.
* **Lookups that remember.** Resolving a pattern fills caches that the next
  lookup, of another recipe or another request, reads.

The hazards are listed at their lines in `PROJECT.json`, each with the properties
that would catch it going wrong, or a note why none does yet.

## 2. Plan

What decides whether a host ends up configured came first.

| step | modules | state |
|---|---|---|
| 1 | `KiwiAgent`, `MCKiwiAgent`, `KiwiAgentProofs` | done |
| 2 | `KiwiProvider`, `MCKiwiProvider`, `KiwiProviderProofs` | done |
| 3 | `TaskRunner`, `MCTaskRunner`, `TaskRunnerProofs` | done |
| 4 | `Inventory`, `HostArchive`, `MCHostArchive`: which recipes and hosts an answer has | done |
| 5 | `RecipeSources`, `ArchiveBuild`: creation of an archive with its dependencies, their trust and their assets, the part a host gets, its instantiation; `ArchiveBuildProofs` | done |
| 6 | `VarsSources`, `Variables`: which source of a variable wins, on the provider, on the agent and on the command line; `VariablesProofs` | done |
| 7 | `Templates`, `VarScopes`: when templates are rendered, and against which variables; `VariablesProofs` | done |
| 8 | `Runners`, `SuiteRun`, `SuiteReport`: set-up, run and tear-down of containers, and an abstract specification of the reports that `SuiteRun` implements; `SuiteRunProofs` | done |
| 9 | `FileTasks`: modules that change the files of a host, run again after they failed half way; `RerunProofs` (with `SchemaGen`, which is also killed and run again) | done |
| 10 | `Delivery`: archive, provider, installer, assets and agent over several releases; `DeliveryProofs` | done |
| 11 | `Shortie`, `Yaml`, `Registry`, `SchemaGen`, `Configuration`: from the text of a configuration to the object made of it; `RerunProofs` | done |
| 12 | abstract specification of what a reload promises (`HostSync`: the recorded release moves only after its recipes ran), implemented by `KiwiAgent` for sequential reloads | |

Theorems still worth proving: `OnlyTargeted` and `RelationsClosed` of `HostArchive`,
which would need a form of `Inventory` without recursive operators.

## 3. The modules

In every module an action is the code between two `await`s (or, where nothing is
awaited, one call), its guard the conditions that lead there. Definitions whose
comment begins with "Mutant of" are the same step with a plausible mistake in it;
no run uses them, they exist so that each property can be shown to notice one.

### KiwiAgent: `app/kiwiAgent/kiwiAgent.ts`, `releaseDatabase.ts`, `cmd/kiwiAgent.ts`

A reload is a process; `pc` says at which `await` it is.

| action | code |
|---|---|
| `Request`, `StartServe` | `GET /reload` with or without `force`; `commandBootstrap` makes one forced reload of phase `bootstrap` in a process of its own, the server is started after it |
| `ReadDb`, `AskRelease` | `reloadRelease`: the recorded release, `GET /release`, the early return `changed: false` |
| `ReportInit`, `FetchConfig`, `QueueRecipe`, `ReportInitEnd`, `UploadInitLogs` | `#processNewRelease` and `#queueRecipe` with its `try`/`catch`/`finally` |
| `Take`, `StartItem`, `RunItem`, `ReportItemEnd`, `UploadItemLogs` | the loop of `#processQueue`: `shift`, log file, status reports, `runRecipeFromQueueItem`, upload in `finally` |
| `OpenDb`, `WriteDb` | `ReleaseDatabase.set`: `writeFile` truncates, then writes; the file between the two is `Torn` |
| `Crash`, `ProviderRelease` | the process dies; the provider offers another release |

`queue`, `db` are the shared `#queue` and file; `throwing` is an exception that
waits for a `finally` block; `reports` is what the provider shows; `fate` and
`uploads` record what happened and are read by properties only. `Faults` says which
calls may fail: reaching the provider, a report (with or without effect), opening a
log file, a recipe, the disk, the process. Abstracted: downloads of assets and the
instantiation of recipes are one step with `GET /config`, since no other reload's
state is touched between them (`Delivery` has the downloads); `GET /current` only
reads; a queue item is known by who queued it and its recipe. A bootstrap that overlaps a running server is not
modelled: nothing in the code starts them together.

### KiwiProvider: `app/kiwiProvider/kiwiProvider.ts`, `logsStorage`

The rows and files behind `/report`, `/uploadUrl` and `PUT /upload/:hash`. A run of
a recipe makes four calls one after the other (report running, report the outcome,
ask for an upload URL, send the log); `stage` says how far the provider is with each
of them, `at` what the agent waits for. The two go apart when the connection breaks
(`Abandon`): the agent goes on, and so does the provider, or the rest of the request
is lost.

| action | code |
|---|---|
| `StoreReport`, `NotifyHooks` | `POST /report`: upsert, then the hooks, then the answer |
| `NameUpload`, `CreateLog` | `uploadUrl`: storage key from the report's path and the clock, its hash, the `HostLogs` row with its unique hash and foreign key |
| `FindLog`, `OpenFile`, `StoreFile`, `CompleteLog` | `PUT /upload/:hash`: the row must exist and not be complete, the file, `markUploadAsCompleted` |
| `Crash`, `Tick` | the provider is restarted; its clock moves on a millisecond |

Several hooks are one, success and failure of a report are both "ended" (no code
here tells them apart), and the contents of a log are whose they are and whether
they are whole.

### TaskRunner: `components/task.ts`, `components/recipe.ts`, `modules/{try,loop,switch,recipe,exit,fail}`

A program is a tree of tasks and lists, given by the constants. The call stack of
the JavaScript is the path from the list `at` up to the top, so no stack is needed:
a list that is over (`list[l].res`) hands its result to its owner, whose module
decides what is next.

| action | code |
|---|---|
| `Skip`, `FailEarly`, `RunAction`, `Settle` | `Task.run`: the condition, resolution of templates, the module, `failedIf` and `exitIf` |
| `StartModule`, `StartEmptyLoop` | a module that runs tasks is instantiated, its first list begun |
| `Switched`, `LoopNext`, `LoopEnd` | `ModuleSwitch`, `ModuleLoop` |
| `TryDone`, `Retry`, `TryFailed`, `Caught`, `CatchFailed`, `FinallyDone`, `FinallyFailed` | `ModuleTry` |
| `ShutDown`, `RecipeEnd`, `Run` | `Recipe.run` with its shutdown hooks, `ModuleRecipe` |

An action (any module without tasks) may succeed, exit or throw, so the modules
replaced by mocks in tests, `exit` and `fail` are actions. `list[l].out` is the set
of tasks whose variables the list returns, on the assumption that each task
registers its result; the values of variables and `previousTaskResult` are in
`VarScopes`, `changed` flags and statistics are left out. That `failedIf` may turn a failed result into a
success is covered by the free choice of results. A recipe called from two places is
two tasks.

### Inventory and HostArchive: `components/inventory*.ts`, `util/hostPattern.ts`, `components/archive.ts`, `commands/compileArchiveForHost.ts`

`Inventory` holds the methods as operators that take an inventory record and return
the one they leave behind, because a lookup writes: `cache` is
`#inventoryCache.hostsByGroup`, `names` the group names of each `InventoryHost`, and
`seen` the `visitedCache` a caller passes along.

| operator | code |
|---|---|
| `SortPatterns`, `Combine`, `HostsByElement`, `HostsByPattern` | `sortPatterns`, `getHostsByPattern` |
| `HostsByGroup` | `getHostsByGroup` with its cache |
| `Matching`, `VisitGroups`, `HostsNamed` | `#getHostsByMatchingHostPatternWithoutForceInclusion` |
| `GroupNamesForHost`, `LoadGroupNames`, `ProcessHosts`, `SetHost`, `LoadInventory` | `getGroupNamesForHost`, `loadGroupNamesFromInventory`, `#processHostsRecords`, `setHost`, `loadHostStubsAndGroups` |
| `RelationsOf`, `Populate`, `SubInventory`, `Configuration` | `createRawSubInventoryConfig` |

`HostArchive` is `GET /config` over it: `Arrive` (a host the inventory does not know
is added), `SelectRecipes`, `LoadOthers` (one `await` for each pattern of
`otherHosts`), `SendConfig`, and `LoadLocal` on the agent. All requests share `inv`.
The reference is `Members`, `Named` and `Denoted`: what patterns and groups mean,
without caches, visited groups and order.

Abstracted: names are strings, what a glob or regular expression matches is a
constant, subscripts are globs like any other; hosts come in natural order where the
code uses the order of keys; `createRawSubInventoryConfig` is one step although it
awaits the variables of each host (`Variables` takes it apart). The relations of a host
are those in its variable `__relations`: what is written as `relations` of a host is
dropped when it is loaded, and on the agent no host has any. Left out: groups that have the name of
a special group, a host named `localhost` and `throwOnHostNotMatched`; variables
are in `Variables`, the dependencies of recipes in `ArchiveBuild`. Groups that name themselves in a circle are not
among the inputs: by their exact names they overflow the stack of the program.

### RecipeSources and ArchiveBuild: `components/archive.ts`, `components/recipe.ts`, `recipeSources`, `modules/recipe`

A recipe file is a directory and an id. `RecipeSources` has what a list of sources
does: `MergePrepend`, `Search` (by name or in order, a git source throws where a
directory lets the next be tried), the git cache `clones`, and `Combined`, the
sources a recipe sees. `ArchiveBuild` follows the recipes from the command line to
the host:

| action | code |
|---|---|
| `LoadRoot`, `BeginBuild` | `Recipe.fromPath` of all roots at once, `validateDependencies` |
| `BeginRoot`, `Depend`, `Store`, `Exhaust`, `Write` | `Archive.create`, `generateRecipeForArchiveEntry` and its recursion (`stack`), `archiveRecipeAssets`; a circle of dependencies uses up the memory at `MaxDepth` |
| `Target`, `Collect`, `Collapse`, `Send` | `GET /config`: `#getRecipeDependenciesChain` |
| `Instantiate`, `RunDependency` | `getInstantiatedRootRecipes`, the module `recipe`, which names a recipe by its id alone |

`met` records which directories a unique id has stood for, `path` the trust each
step to a recipe was given; only properties read them. What the code does in a loop
over a list is a function of the position in it (`Filtered`, `Validated`), which the
proofs can reason about where they could not about a recursive operator. Abstracted: file patterns of
ids, permissions, the layout of directories of recipes.

### VarsSources and Variables: `components/varsContainer.ts`, `varsSource.ts`, `inventory*.ts`, `recipe.ts`, `dataSources`, `hostSources`

`Objects` has the objects and arrays of JavaScript, for these modules and the next
two. `VarsSources` says what each kind of source may load, as the set of its possible
results (empty when it must fail; several when entries arrive in any order and are
flattened). `Assigned(f, objects)` is `Object.assign` of a list of objects, written as
what it leaves in each variable. A host source that cannot list its hosts (`CanList`)
stops the program. `Variables` has the containers (inventory, groups, hosts, recipe, module
`load`) with the object each fills (`held`) and `#varsCache` (`cached`).

| action | code |
|---|---|
| `LoadStubsAndGroups` | `loadHostStubsAndGroups`, `loadGroupStubs` |
| `Request`, `Run`, `Enter`, `LoadVars`, `LoadFails` | `GET /config` or `runRecipe`, then `loadVars` container by container and source by source: the cache is looked at once, every source is awaited and then assigned into the one object |
| `Answer` | `createRawSubInventoryConfig`, `filterHostVarsBlockForHost` |
| `RunTasks` | `aggregateBaseVarsForHost`, `aggregateHostVars`, module `load` |

`Layers` lists what `aggregateBaseVarsForHost`, `aggregateHostVars` and `load` put over
each other, each layer as the set of objects it may be; `StartsLayered` compares it
with what the functions make, and has its own definition of what wins (`Decides`).
`Layers` is the order of the code; `DocumentedLayers` is the one the comments above
these functions give. `StartsLayered` compares the start of a run with both, with the
second but where the code is known to depart from it (`OverruledByAll`, `AllComesFirst`).
Members of groups are given here (they are the subject of `Inventory`), relations are
a list of hosts. Paths, loaders by file type and options of requests are abstracted.

### Templates and VarScopes: `util/tpl`, `util/runContext.ts`, `components/task.ts`, `components/recipe.ts`

`Templates` is one render: parts that put out text or variables, filters that wait,
markers for nested templates, and `Template.#renderContext`, the variable all
renders of the process share. `VarScopes` has the objects of variables (`heap`) and
the lists of tasks on the call stack (`frames`), so that it can be told which lists
share an object and which have a copy.

| action | code |
|---|---|
| `Prepare`, `Prepared`, `BeginList`, `BeginRecipe` | `getResolvedTasksFromSingleOrArraySchema`, the variables and inputs of a recipe |
| `StartTask`, `RunModule`, `Store` | `Task.run`, `out` and `global` in `runTasksInContext` |
| `RunTry`, `RunLoop`, `RunSwitch`, `RunRecipe`, `LoopOn`, `LoopOverNothing`, `GoToFinally`, `Leave`, `Unwind` | the modules, and `withVars` |
| `RenderStep`, `RenderFails` | `Template.render`, `resolveTemplates` |
| `OutOfMemory` | templates that name each other have filled the memory: the process dies, and the recipes of all renderers with it |

`Programs` and `Tasks` are the recipes and all tasks in them; `TasksAssumption` says
that what is written in them has no marker and that their tasks come in lists. A task
of a nested list is rendered with the list, its variables too, and its text looked
through for templates again (`Confs`, `Conf`, `Extracted`). `late` records the variables that a `finally` list
without an error puts into the object of the list around it; only a property reads
it. Lists of tasks nest through recipes only: the tasks of `try`, `loop` and `switch`
are plain, for the code would render lists within them together with them.
`MaxRenders` is how many renders nested in each other the memory holds: templates that
name each other go on until it is full (`HeapIsFull`), whatever the number is. Errors, conditions and exits are in `TaskRunner`.

### Runners, SuiteRun and SuiteReport: `components/testSuite.ts`, `runners`, `cmd/kiwiCLI.ts`

`Runners` has a container with its set-up (`BuildImage`, `DockerRun`, `WaitReady`,
`UploadNode`, `CheckVersion`, `UploadBundle`) and `TearDown`; every command may
succeed, fail, or be killed, which `util/exec.ts` takes for success, and a container
may die at any time. `SuiteRun` is what uses them: `TestSuite.run` and the commands
`test` and `run`, with the process in the runner (`RunRecipe`, `FinishRun`) and the
log and statistics that are fetched from it. When the command that waits for it is
killed (`RunLost`), a process on the machine is gone, one in a container runs on
(`OnItsOwn`) beside the fetching; it is followed until its statistics are fetched. `SuiteReport` is the abstract
specification: reports are filled in order, a suite that is over stays as it is, all
suites get over. `ReportSpec` in `SuiteRun` is its instance under the mapping that
forgets runners and statistics, checked as a property, fairness included.

### FileTasks: `modules/{write,copy,rm,mkdir,stat,temp,download}`, `util/downloadNodeDist.ts`, `util/esbuild`

What a module does between two `await`s is an operation in `todo`, worked off by
`Perform` on `tree`, the files of a host. `Refuse` is the answer of the operating
system, `Fail`, `Hang` and `Crash` are faults. A recipe is run again and again
(`Run`). What the tasks are for (`Wants`) is written from their descriptions, apart
from the operations. Contents are names, templates a function of contents. `CanBe`
and `RecipesAssumption` say which recipes and hosts there are: tasks name paths of the
host, a file in the cache of Node.js is named by its version and put there by no
other task, every file lies in a directory.

### Delivery: `cmd/kiwiCreateArchive.ts`, `assetsDistribution`, `app/kiwiProvider`, `app/kiwiAgent`

The composition over releases: a builder that empties and refills a directory or
uploads to S3, a provider that loads its archive at start, an installer, an agent.

| action | code |
|---|---|
| `StartBuild`, `PackAsset`, `WriteArchive`, `Upload`, `EndUpload`, `BuildFails`, `Deploy`, `BundleAgent` | `createArchiveFile`, `Archive.create`, `uploadDirToS3`, `createNodeJSBundle` |
| `ProviderStarts`, `ProviderStops` | `KiwiProvider.initialize` and `listen` |
| `Install`, `Bootstrap` | `install.sh`, the download routes, `agentBootstrapConfig` |
| `Poll`, `AskRelease`, `FetchConfig`, `AskUrl`, `Download`, `Run`, `Record`, `ReloadFails` | a reload with `#downloadAllAssetsArchives` |

The content of an asset is the release it was packed for, so a mixture shows. The
recipes of a release are one step (they are `KiwiAgent`'s). One builder, provider and
reload at a time; archives are deployed in the order they were made.

### Shortie, Yaml, Registry, SchemaGen and Configuration: `util/{shortie,yaml,registry,joi}.ts`, `util/tpl`, `cmd/ci/ciSchemaGen.ts`

`SchemaGen` is the generator of schema files, loaders and docs (`GenStep`), step by
step on the files it writes and reads again, with changes of the sources and kills in between.
`Configuration` puts it under a program: `StartProgram`, `LoadFolder` and `Loaded`
follow the generated imports and fill the registries; `Configure` finds the class of
a configuration, renders the templates that are not marked as delayed, and makes the
object; a text goes through the shortie parser, one action per character
(`ReadCharacter`); `ReadRecipe` is what a recipe holds besides tasks. `Yaml` says
what the tags of a file load as and what is left of them after a round trip through
an archive. `Registry` has `findEntryIndexFromObject` and the paths of delayed
templates. A Joi schema is its type and what is below it; documentation and layout of
the generated files are abstracted.

## 4. The runs

The eight `...Proofs` modules are checked by TLAPS; the runs are TLC's.

| run | properties | bounds |
|---|---|---|
| `AgentFaults` | `RecordedMeansRan`, `ItemInOnePlace`, `NothingLeftBehind`, `LogsFollowOutcome`, `ReportedOutcome` | 2 reloads that may overlap, every fault; 7.8 million states |
| `AgentEnds` | `StatusSettles`; `ReloadsEnd`, `PollConverges` (liveness) | 2 reloads, failing calls and recipes |
| `ProviderFaults` | `CompletedIsWhole`, `AcknowledgedIsStored`, `ReportsInOrder` (of steps) | 2 runs whose keys share a path, 2 milliseconds, every fault |
| `TasksRun` | `ErrorsHandled`, `VarsOfSuccess`, `ExitHalts`, `HooksScoped` | one program with three branches, 63 thousand states |
| `HostsConfigured` | `RelationsClosed`, `OnlyTargeted`, `AnswerIsOwn`, `RecipesReached` | 72 inventories, 24 archives, 2 requests; 747 thousand states |
| `ArchiveBuilt` | `FoundAsValidated`, `RunsAsFound`, `VarsByTrust`, `AssetsAreOwn`; `EndsUnlessCyclic` (liveness) | 3072 projects, recursion of depth 4 |
| `VariablesLoaded` | `AnswersWhole`, `StartsLayered`, `RecipeVarsAreOwn` | 438 inventories (a host with up to two of eight sources, six lists of host sources, one of which cannot be read), 2 jobs, one load that fails; 438 thousand states |
| `RecipesRendered` | `NestedResolved`, `ReturnsWhatWasSeen`; `RecipesEnd` (liveness) | 2 recipes of eight at a time, 4 nested renders; 94 thousand states |
| `SuitesRun` | `ContainersGone`, `ReportsTrue`; `ReportSpec` (refinement) | 16 command lines, 2 faults; 569 thousand states |
| `FilesRepaired` | `RepairedBySuccess`, `RetryWorks` | 8 recipes, 2 hosts, 3 faults, 4 runs of the recipe |
| `ConfigurationRead` | `GeneratedAfresh`, `ThrowsForCause`, `ConfigAsWritten` | 2 changes of the sources, one kill, 319 configurations; 270 thousand states |
| `AssetsDelivered` | `OwnAssets`; `HostConverges` (liveness) | 2 releases that share an asset name, 2 versions of the program, one fault; 2.5 million states |

Why the bounds are enough to be interesting:

* *Agent.* Two releases, one with two runtime recipes and a bootstrap recipe, the
  other with one that the first also has: a queue with items of two releases, an
  item of a recipe both know, an empty list of recipes and a change of release in
  mid-reload all occur. Two reloads are what a race on the queue needs. Reloads are
  symmetric: nothing compares them. A release can be recorded although another reload
  that overlaps it failed on one of its recipes; `RecordedMeansRan` says that nothing
  else gets a release recorded whose recipes did not run.
* *Provider.* Two runs whose keys differ only in characters that the path replaces,
  in the same or different milliseconds: the only way two uploads can meet on one
  hash. The symmetry swaps the runs together with their keys.
* *Tasks.* The program is a switch between three parts: a `try` with a retry,
  `catch` and `finally` around another `try`; a `switch` in a `try` in a `loop`, with
  a loop over nothing; and a recipe with servers in a `try` that retries. Every task
  may be skipped, fail before or in its module, or exit wherever it can.
* *Hosts.* Two groups, three known hosts and one that arrives unknown, globs that
  match a group or hosts only; groups may be flat, named by a group, by a glob or by
  exclusion, in either order; relations lead through hosts and groups and in
  circles. Properties that the code keeps for a kind of inventory only say so
  (`Flat`, `NestsByName`, `LooksUpAlone`).
* *Archives.* Two directories with recipes of the same ids, a shared directory reached
  by a relative path from everywhere, one repository at two revisions: all ways in
  which two sources get one unique id, one id or one cached clone. `SourcesApart`,
  `OneSourceEach` and `ClonesApart` name them where a property needs them not to.
* *Variables.* Every pair of kinds of source, which may or may not give the same
  variable, fail, or give one value of several; two requests for hosts that are
  related to each other, one after a load that failed. The written variables tell every
  layer of the documented order from the next, but for the two the code exchanges.
* *Templates.* Variables that name each other before and after a filter that waits,
  in a circle, on several lines; a `try` with a retry, `catch` and `finally`, loops,
  one of them over nothing, a switch, nested tasks with variables, recipes with inputs.
  Two recipes are what the shared variable needs, and what it takes to see that one of
  them ends with the process when the other's templates go in a circle.
* *Suites.* Two tests, so that one follows a failure, with a plain suite after them
  to show that suites do not disturb each other. Two faults: one that starts an
  error path and one on it.
* *Files.* Two to four tasks per recipe, each undoing or using what others do; a run that fails, one that dies, one that is
  cut off and one that repairs.
* *Delivery.* The second release has one asset fewer, under a name the first has too.
  One fault of the agent beside an arbitrary number of restarts of the provider.
* *Configurations.* All texts of up to two characters of the eight the parser treats
  in different ways, alone, in arrays and in objects; every tag, in tasks, in
  variables and in inputs, from a file and from an archive.

Runs say `CHECK_DEADLOCK FALSE` where the system really ends: all reports made, the
program over, all requests answered. The agent is never out of steps, since the
provider may always offer another release; nor are developers.

*Fairness.* `AgentEnds`: weak fairness of each reload's next step. Node runs every
continuation that is ready, and every call that is awaited (HTTP, file, recipe) is
assumed to be answered or to fail. Nothing is owed by the requests, by crashes or by
the provider's releases. `ReloadsEnd` is not obvious under it: a reload drains what
others put into the queue. `ArchiveBuilt`: weak fairness of the next step; three
programs run one after the other and none waits. `SuitesRun`: weak fairness of the
program's work; commands end, containers need not die. `RecipesRendered`: weak
fairness of each recipe's next step; a filter ends or fails. The event loop does not
share time between recipes: a render that waits for nothing keeps the process to
itself. It does so for a finite time, to its next filter, to its end or, if templates
name each other, to the end of the process; hence every recipe gets on until the
process has ended, and `RecipesEnd` says no more: a recipe ends, or the process dies,
and that only if one of its recipes has templates that name each other. `AssetsDelivered`: the provider is a
supervised service that is started again, the installer is repeated, something calls
`GET /reload` again and again, and the steps of a reload are fair; builds, deploys
and upgrades owe nothing, and `HostConverges` assumes that they come to rest.

## 5. The proofs

TLAPS proves the following for every value of the constants that meets the
assumptions of the module; a property of section 4 is named in brackets where the
theorem has another name.

* **Agent** (`KiwiAgentProofs`), for any number of reloads,
  releases and recipes, any `MaxInFlight` and any faults: `TypeCorrect`,
  `ItemsInOnePlace` (`ItemInOnePlace`), `NoneLeftBehind` (`NothingLeftBehind`),
  `OutcomesAreTrue` (`ReportedOutcome`), `LogsAreSent` (`LogsFollowOutcome`),
  `RecordingIsAnsweredFor` (`RecordedMeansRan`), and, where no report is lost as in
  run AgentEnds, `StatusesSettle` (`StatusSettles`). Assumed: no recipe occurs twice
  in a list (they are keys of an object), and the special values are none of the
  ordinary ones.
* **Provider** (`KiwiProviderProofs`), for any runs, keys and paths and any time
  bound: `ProviderTypeCorrect`, `DownloadsAreWhole` (`CompletedIsWhole`),
  `AcknowledgedAreStored` (`AcknowledgedIsStored`), and the action property
  `OutcomesStay` (`ReportsInOrder`).
* **Tasks** (`TaskRunnerProofs`), for every program: `TasksTypeCorrect`,
  `HooksAreScoped` (`HooksScoped`), `FailuresAreHandled` (`ErrorsHandled`),
  `ExitsHalt` (`ExitHalts`), `VarsAreOfSuccess` (`VarsOfSuccess`). Assumed: the
  program is a tree (`TreeAssumption`), and only `try` has more than one list at a
  time (`ModuleAssumption`).
* **Delivery** (`DeliveryProofs`), for any releases, assets, versions and faults:
  `DeliveryTypeCorrect`, `ReleasesWereFinished` (provider and reload hold only releases
  built to their end, the provider none older than the reload), `AssetsAreOwn`
  (`OwnAssets`).
* **Test suites** (`SuiteRunProofs`), for every command line: `RunnersAreTerminated`
  (`ContainersGone`), `ReportsAreTrue` (`ReportsTrue`), and `ReportsInTheirOrder`, the
  safety part of `SuiteRun` implementing `SuiteReport`: initial states map to initial
  states and every step to a step of `SuiteReport` or a stutter. Assumed: a suite
  has a test, and `run` is alone on its command line (`ProgramsAssumption`).
* **Archives** (`ArchiveBuildProofs`), for every set of projects: `ArchiveTypeCorrect`,
  `AssetsBelong` (`AssetsAreOwn`), `VarsKeptByTrust` (`VarsByTrust`),
  `FoundIsValidated` (`FoundAsValidated`), `RunIsFound` (`RunsAsFound`). Assumed: the
  shape of a project and of a directory (`ProjectsAssumption`, `PlaceAssumption`); the
  conditions under which three of them hold (no two cached sources of one repository,
  ids that tell sources apart) are part of the properties.
* **Variables** (`VariablesProofs`), for any inventories, sources, jobs and failing
  loads: `VariablesInvariant`, `AnswersAreWhole` (`AnswersWhole`), `StartsAreLayered`
  (`StartsLayered`), `RecipeVarsStayOwn` (`RecipeVarsAreOwn`). Assumed: lists are
  finite, a host is related to itself, variables are objects (`ListsAssumption`,
  `InventoriesAssumption`).
* **Templates and nested lists** (`VariablesProofs`), for any recipes, any number of
  renderers and every interleaving: `ScopesInvariant`, `NestedAreResolved`
  (`NestedResolved`), `ReturnsSeen` (`ReturnsWhatWasSeen`). Assumed:
  `TasksAssumption`, see section 3.
* **Files of a host** (`RerunProofs`), for any recipes of the modules above, any host,
  archive, faults and number of runs: `FilesRepaired` (`RepairedBySuccess`). Assumed:
  `PathsAssumption` and `RecipesAssumption`, see `FileTasks` in section 3.
* **Generated sources** (`RerunProofs`), for any repository, any changes of it and
  any number of kills: `RunsKeepInvariant`, `GenerationIsFresh` (`GeneratedAfresh`),
  `ThrowsHaveCause` (`ThrowsForCause`). `GenSpec` is the part of the specification of
  run ConfigurationRead that generates; programs change nothing it reads. Assumed:
  folders and files come in an order, and every schema file, at the start or added,
  is among them (`RepoAssumption`).

The arguments:

* *Types of the agent.* `TypeOK` is not inductive: it does not know that a reload
  past `AskRelease` has a release, or that one between `Take` and `UploadItemLogs`
  has an item. `TypeInv` adds that (`Located`).
* *Items of the agent.* `ItemInOnePlace` says where an item is by the fate it has
  met; that a push does not duplicate one needs `QueuedSoFar`: a reload that is
  queueing has queued exactly the recipes before `next`. That a settled item is
  never held again needs `RunIsOver`. `ItemInv` is the conjunction.
  `NothingLeftBehind` follows: a reload that records found the queue empty, and
  that nothing of it is in the queue afterwards is the last part of `QueuedSoFar`.
* *Outcomes of the agent.* All four rest on `ItemInv`, since the reload that settles
  an item need not be the one that queued it. For the logs, `LogsInv` says that they
  are sent by the time the holder lets go, on the way out of a throw included
  (`ThrowingAt`). For statuses, `OwedInv` says that behind a status that is not
  final stands a reload that still has to report, or a throw. For recording,
  `BlameInv` gives every item that failed or was dropped a reload that ended on it,
  no reload to two items: the injection `Blames` makes the comparison of cardinals.
* *Uploads.* The danger is a second upload that opens the file of a finished row.
  `UploadInvAt` says that a run whose URL was answered owns the row of its hash, and
  `CompletedOnce` that a completed row's run is done, so that nobody is left who could
  write the file.
* *Reports.* `OrderInv` says of every caller what row and hooks have been told when
  it waits at a step (`WaitsAt`, `Told`); a report that would take an outcome back is
  then one the caller has given up or one of a later run.
* *Hooks.* `StackInv` ties the path above `at` to the lists: a task on the stack is
  the one its list is at. A recipe therefore leaves the stack only by its own
  `RecipeEnd`, whose guard is that it has no hook left (`HooksInv`).
* *Errors, exits and variables of tasks.* `ModuleInv` says what each phase of `try`
  and `loop` finds left behind by the phases before it: a failed list has had its
  catch list (`FailuresCaught`), an exit has stopped the others (`ExitPassed`), and
  the variables at hand are those of lists that ended (`VarsAt`). The three theorems
  read it off where a task has passed.
* *Delivery.* A chain, each link about one party and resting on the one before:
  `DirectoryInv` (what the builder has copied and served), `BucketInv` (what is in
  the store), `ReleaseInv` (what the provider knows was finished), `HostInv` (the
  release of a reload), `DownloadInv` (what it asks for, and where), `GotInv` (what it
  has got while its release is still to be had).
* *Suites.* `ContainerInv` says which containers may run by the step the loop is at,
  so that every way out of it passes a `terminate`; `TestsInOrder`, `CallsTold` and
  `StatsTold` relate the reports to the one loop that fills them. The refinement
  takes one lemma per action: it fills the report at hand, or leaves all as it is.
* *Archives.* The directories that are searched grow while the search goes on. The
  key is that the list a recipe is validated with is its own, and that its callers'
  are only appended (`Visible`): the first match stays the first (`FoundBeforeMore`),
  and a cached clone adds no match as no other source shares it (`ClonesApart`).
  `StackInv` says this of every recipe that is being archived, `ArchivesInv` of what
  has been, `RunInv` of the chain on the host. On the host the file is found by the
  id of source and recipe, so `RunsAsFound` needs that one id means one file
  (`OneSourceEach`, `SourcesApart`). Induction over positions is by the least
  counterexample: the library's induction theorems cannot be instantiated.
* *Variables.* A container of variables is filled in place, while other requests
  read it. `FillInv` says that one being filled agrees with its sources as far as
  they were read, whatever a failed load has left there; `FrameInv` that what no
  source gives is as written; `EnteredInv` remembers that two requests filled one at
  once. All results of a source give the same variables (`SourceGives`), so the last
  fill decides and `CachedInv` follows: what is cached is whole, but where two filled
  it and two of its sources share a variable (`Mixed`). `PlanInv`, `RunInv` and
  `GroupsInv` carry that to the answers. `StartsAreLayered` composes the layers of the
  three functions and the module one by one (`Layered`, `ListLayers`, `OneLayer`).
* *Templates.* `GoodToken` says of every piece of text in every render, list and
  object that it is no source of a template, unless the template it was put out by
  has a variable after a filter that waits (`Tame`). It is kept by a render because
  the shared variable is set in the same step that puts out the parts up to the first
  such filter: what other renders do to it matters only after one (`GoodAdvance`, and
  `GoodRender`, by which a render that `awaits` is at a filter). That a marker is
  replaced in a text that is done needs that only the innermost render is not
  (`GoodRenders`).
* *The end of the process.* `ScopesInvariant` says `ScopesInv` or `DiedInv`: once
  templates without end have filled the memory (`OutOfMemory`, `DeathGood`) no recipe
  has a list or a render any more, so no step is left (`DeadStays`), and what was
  rendered until then is as good as it was.
* *Nested lists.* That a list returns what was seen (`Seen`) is not inductive: a list
  inside it could change its object. `Apart` says of any two lists on the call stack
  that they have different objects, or that the inner one is not running, or is a
  `finally` list that shares the object, and then what it puts becomes `late`. A list
  that is to get variables of its own has some (`GoodFrame`), so `withVars` copies; a
  new object is none an outer list could have (`Fresh`). `StackSet` and `StackPush`
  carry this through every way in which the call stack changes.
* *Files of a host.* The operations a module has still to do are read from their end:
  the last one that touches a path decides what is there (`Will`, `Gets`). `Planned`
  says of the list a module starts with that it gives every path its task is about
  what the task wants, or throws; it is shown piece by piece (`Piece`, `PieceConcat`,
  `PieceFlatten`), one lemma for each module. `NextOperation` says that an operation
  that succeeds leaves a shorter list which still does. For that a file must be
  filled only after it was opened and left alone (`OpensFirst`), and what is tested be
  what was written, or be in a cache that holds nothing else (`TestsKnown`,
  `CacheKept`). `TasksSettled` adds up the tasks: what one of them did is there, or a
  later one is about the same path.
* *Generated sources.* The disk may hold anything an earlier run left, so nothing is
  known of it but through the run under way. `FoldersInv`, `CentralInv`, `ConvertInv`
  and `FixInv` say which folders, groups and files it is done with, and that what is
  done is that of the sources as they are: they change between runs only. A file left
  behind by a schema that is gone may be taken for the one that makes an interface;
  `Served` says so (an import is right if its file has a schema), and that every file
  has one shows when `FixExternals` gets through.

The proofs about nested lists changed the model in three places: the arms of
`PutPart` overlapped, so that a variable that is there could have come out as
nothing; `global` wins over `out` when a task puts both under one name, as in
`runTasksInContext`; and what a `finally` list puts is excluded from
`ReturnsWhatWasSeen` by what it did (`late`), which covers `global`, no longer by the
names in its `out`.

The proofs about variables changed the model twice: the layer of `assetsDir`, which a
recipe with assets puts over the variables of its context, was missing, and an HTTP
list that is not answered did not fail its source. Both now follow the code. Those
about generated sources showed that `GeneratedAfresh` promised too much, which the
instances were too small to show: an interface that several schemas of one directory
make is imported from each of them, and only one that a single schema makes is
imported once.

Each proof is an initial-state lemma, one lemma or step for every action, and a
temporal step by PTL.

Only model-checked:

* Liveness, and the fairness of the refinement: `ReloadsEnd`, `PollConverges`,
  `EndsUnlessCyclic`, `RecipesEnd`, `HostConverges`, and the fairness `ReportSpec`
  adds to `ReportsInTheirOrder`. Fairness is stated with `ENABLED`, which is out of
  this prover's reach.
* What rests on recursive operators: `RelationsClosed`, `OnlyTargeted`,
  `AnswerIsOwn` and `RecipesReached` (patterns and relations of `Inventory`), and
  `ConfigAsWritten` (`Yaml`, `Shortie`, `Registry`, `Configuration`). Induction over
  such data is not available to this prover.
* `RetryWorks` of `FileTasks`: it holds of recipes whose tasks fit each other and the
  host, as those of the run do. A `write` where a directory is, or below a directory
  that nobody makes, fails again and again without a fault; which recipes fit is
  itself a question of what their tasks do one after the other.

## 6. Where the code and its documentation differ

No run looks for these; they were met while modelling. Where one of them touches a
property, the property names the condition under which it holds.

*Agent and delivery*

* "Interrupt the whole processing" (`kiwiAgent.ts:372`), but what a failed reload
  leaves in the queue is run by the next one, of whatever release. Of two reloads at
  the same time, one may take the other's recipe from the queue and fail on it, while
  the other records its release.
* After `bootstrap` has recorded a release, a server that is asked for it answers
  `unchanged` and never runs its runtime recipes (`cmd/kiwiAgent.ts:91`).
* `/assetsDistribution` is not bound to a release, and names of assets come from a
  counter of the building process (`archive.ts:525`, `556`): with a served directory, or
  a provider that restarts in mid-download, a release can run with another's assets
  and be recorded. A download that breaks off never ends (`util/download.ts:17`). A
  failed bootstrap leaves `config.yaml`, so that the installer needs `--force`.

*Inventory and archive*

* The targets of all root recipes are looked up with one `visitedCache`
  (`archive.ts:289`), and a group in it matches nothing: the second recipe for a group
  is not sent to the hosts of that group.
* A sub-inventory is to contain "the specified hosts and any groups they belong to"
  (`inventory.ts:472`). Groups are sent without their patterns, so on the agent no host
  is in them, and neither their variables nor those a recipe sets for a group apply;
  the variables of hosts arrive below `vars`, their relations are taken for variables
  (`inventory.ts:504`).
* The name of a host in a list of patterns drops the hosts before it
  (`inventory.ts:218`); of two groups one of which names the other, a host may get only
  one (`inventory.ts:378`); a host that arrives after the members of a group were cached
  is missing from it for `getHostsByGroup` (`inventory.ts:121`, `158`); every host under
  `hosts:` of the configuration is sent to every agent (`inventory.ts:521`).
* The unique id of a directory source does not contain the directory it is relative to,
  the git cache is keyed by repository and recipe only, the check for duplicates looks
  into the wrong map (`archive.ts:457`), a circle of dependencies never ends, and a task
  names a recipe by id alone: which is why `RunsAsFound` has its conditions.
* "Defines which other hosts/groups shall be included" (`inventoryEntry.schema.ts:17`):
  what is written there for a host is dropped by the constructor of `InventoryHost`
  (`inventoryHost.ts:24`), only its variable `__relations` counts.

*Variables*

* The comments that give the order of layers, lowest first, mark as implemented that a
  recipe's variables for `all` hosts ("playbook group_vars/all", `recipe.ts:421`,
  `inventory.ts:539`) come before those of the inventory's groups ("inventory
  group_vars/*", `recipe.ts:422`, `inventory.ts:540`). The code assigns all the recipe's
  groups over all the inventory's (`recipe.ts:456`, `inventory.ts:569`), so that the
  recipe's `all` wins over every group of the inventory. It is so in the run
  `VariablesLoaded`: `b` is the recipe's "ra" where the comments have the group's "g".
  `StartsLayered` holds the code to its own order for every variable, and to that of the
  comments for the variables that are not such (`OverruledByAll`).
* `all` is layered with the other groups, by name (`naturalSortCompareFn`,
  `inventory.ts:405`): a group whose name sorts before it lies below it, where the
  comments have `all` below every group (`AllComesFirst`).
* Two requests that load a host with two sources of one variable at once may answer
  with the value of the earlier source (`AnswersWhole`).

*Recipes, templates and modules*

* `finally` is "executed independently on the result of the main task"
  (`modules/try/schema.ts:100`), but not when `catch` fails.
* Tasks nested in `try` or `loop` are rendered before the list's own variables exist
  (`task.ts:400`): `${{ __retry }}`, `${{ __lastError }}` and `${{ __loop.item }}` come
  out empty. A variable after a filter that waits may come out as its source text.
* Templates that name each other (`util/tpl/tpl.ts:245`) are rendered until the memory is
  full. Nothing in between gives the event loop back, so that whatever else the process
  does, such as another reload of the agent, waits, and ends with it.
* `mkdir` without `recursive` reports `changed: false`; `copy` to an existing folder
  needs the final slash; `rmGlob` never removes directories; a zip cannot be extracted
  twice; an empty Node.js left by a failed download is taken for a whole one. These are
  the exceptions in `Repeatable`.

*Configurations*

* `!eval` is archived as `[object Object]`, functions as `!fn`, which no file can be read
  with, a `!shortie` among variables as JSON; `!date`, `!fn` and `!error` never load; dates,
  schemas and regular expressions within tasks become empty objects (`Lost` and
  `NeverRead` in `MCConfiguration`).
* A shortie ends a nested value at the first closer, even a quoted one, and adds an
  undefined item to an array that ends in a nested value.

*Test suites*

* The mocks of a test (`testSuite.schema.ts:30`) are not part of what the archive keeps
  of its recipe (`archive.ts:207`); `afterEach` is not run after a test that failed
  (`testSuite.schema.ts:63`).

## 7. Not modelled

| part | why |
|---|---|
| template language, JavaScript sandbox, conditions | a template is the variables and filters it uses, a condition holds or not |
| types and validation by Joi beyond the kind of a value; types generated for TypeScript | the library's, and text |
| authentication, pages of the admin UI, health notification | they keep no state that other parts depend on |
| task modules that are one call to the operating system or the network (`exec`, `shell`, `http`, `info`, ...) | actions with any result |
| temporary directories, single `gz` files and formats in `FileTasks` | like what is modelled, or layout |
| overlapping reloads in `Delivery`, rollback to an earlier archive | `KiwiAgent` is about the first; after the second, which of two releases of one name the assets are of cannot be told |
| logging, processes, build and CI scripts but the schema generator | no state after a call; to their callers, any value or a failure |
