# Mellivor Kernel: a TLA+ model

TLA+ specifications of the Mellivor Kernel (`src/src/mellivor_kernel/`), the TLC
configurations that check them on small instances, and proofs of their main safety
properties for every value of the constants. Paths below are relative to
`src/src/mellivor_kernel/` unless they begin with `src/`. `PROJECT.json` is the index:
components, runs, the source lines of every definition, hazards, findings, theorems.

Every module also holds operators named `MutX`: a plausible wrong version of the `X`
that follows. No definition uses them; each shows that some property notices the bug.

## 1. Inventory

The kernel is a library: an application assembles a runtime and builds engines by
dependency injection, and calls them. It has no process of its own. Threads come from
one place in it, the thread pool of a parallel workflow unit; other threads, and other
processes on a memory file, belong to the application. Nothing but the SQLite memory
store is persistent.

| Component | State it keeps | Operations | Talks to | What is hard |
|---|---|---|---|---|
| Workflow engine (`workflow/`) | per call: `step_results`, futures, `completed`, `raised`, `stopped` | `run` | ExecutionEngine per step, event bus, memory | parallel groups on a pool, cancellation that races with workers, steps that raise |
| Agents (`agents/`) | none beyond a call | `execute` | WorkflowEngine, the same event bus and memory | a workflow that raises between two events |
| Execution core (`execution/engine.py`, `dispatch.py`) | none beyond a call | `execute` | authorizer, dispatcher, registries, event bus, audit, observability, memory | the tool is looked up twice while the registry changes; records must tell one outcome |
| Authorization (`authorization/`) | none | `check`, `authorize` | ToolRegistry, event bus, audit sink | fail closed on malformed claims |
| Tools (`tools/`) | `ToolRegistry._tools` | `register`, `unregister`, `lookup`, pipeline `run` | tool bodies | stages in order; every exception a result |
| Tool-calling loop (`execution/tool_loop.py`) | per call: history, records, blocks | `run` | ExecutionEngine for the provider and for each tool, `before_tool_call` hook, event bus | each call answered exactly once whatever fails; exceptions in the middle of a round |
| Providers (`providers/`) | configuration | construction, `invoke`, `check_health`, `embed` | HTTP endpoints, SDKs | timeouts and retries, replies of any shape, errors of one kind |
| Plugin runtime and discovery (`plugins/`, `plugin_discovery/`) | `PluginRegistry._plugins`, `PluginLifecycle` state | `register`, `unregister`, lifecycle transitions, `discover_and_register` | plugin hooks, manifests, entry points | partial failure, replacement under the same id |
| AI engine facade (`ai_engine/`) | `_plugin_lifecycles`, the weak `_registry_owners` | `build`, `start_plugins`, `stop_plugins`, `dispose_plugins`, forwarding calls | all engines, PluginRegistry | ownership that ends with garbage collection, sweeps over a changing registry |
| Memory (`memory/`) | a dict, or a SQLite file | `add`, `get`, `search`, `delete`, `clear` | file system | several processes on one file, crashes, what JSON does to values |
| Event bus (`events/`) | handlers per event type | `publish`, `subscribe`, `unsubscribe` | handlers | handlers that subscribe, unsubscribe and publish while an event is delivered, several threads, no lock |
| Kernel and container (`core/`) | `KernelState` and failure detail; factories, kinds, instances | `start`, `shutdown`, `health`; `register`, `register_instance`, `resolve` | logging, factories of the application | no lock anywhere, although every tool and plugin context hands out both objects |
| Bootstrap (`bootstrap/`) | what is registered so far | `BootstrapBuilder.build`, `KernelBootstrap.run` | container, tool registry, kernel | a boot that fails half-way, a container shared by two runtimes |
| Built-in plugins and tools | none | `SystemInfoPlugin.collect`, `HealthCheckTool` | kernel, container | reports put together from several reads |
| Config, logging, observability, security, plugin SDK | frozen records, handlers of the standard library | construction, lookup | environment | little: parsing and validation |

What makes each correct, in one line:

- workflow: the declared order decides, never the schedule; nothing executed is unreported;
- agents: an agent's events enclose its workflow's and tell the same outcome;
- execution: no tool runs without the permissions that very object needs; events, audit,
  memory and result agree;
- tool loop: every history handed out or sent can be sent again, and only grows;
- providers: retries are used up and not exceeded, answers are usable by the loop,
  embeddings stay in order, errors are of the adapter's own kind;
- plugins: each instance sees its calls in the order of the `Plugin` contract;
- memory: one ordered map, whoever writes and whoever dies;
- event bus: a handler subscribed when an event is published hears it once, in
  subscription order, whatever others raise, add or remove;
- kernel: a kernel left alone is in no transient state; a singleton is one instance and
  stays what it is as far as unlocked registrations and resolutions that overlap allow; a
  runtime keeps what it was assembled with, and reports about it are of one moment.

The hazards, each at its line and with the properties aimed at it, are in `PROJECT.json`.
The three with no property say why.

## 2. Modules

Abstract specifications come before those that implement them.

| Module | Models | How state and actions correspond |
|---|---|---|
| `WorkflowOptions` | `parallel_groups`, their validation, `_group_into_units` | a step is its declared position; operators only |
| `WorkflowRun` | what `WorkflowEngine.run` promises: units settled one at a time, each in one step | abstract |
| `WorkflowEngine` | `workflow/engine.py` | the calling thread walks through `Start`, `BeginUnit`, `Collect` (one turn of the `as_completed` loop), `CancelNext` (one `cancel()`), `FoldUnit` or `UnitRaises`, `Complete`, `Remember`; workers do `Dequeue` and `StepEnds`; `fut` holds the states of `concurrent.futures.Future` |
| `AgentRun` | `AgentEngine.execute` around a run, or a direct `run_workflow`, on one bus and one store | extends `WorkflowEngine`: `AgentStarts`, then the engine's own steps, whose events also reach `trace`, then `AgentEnds`, `AgentRemembers` |
| `ExecutionEngine` | `execute()` with authorizer, resolver, dispatcher, pipeline and `_finish`; registry changes | one `pc` per request; `Begin`, `Authorize`, `LookUp`, `Validate`, `RunTool`, `InvokeProvider`, `Finish` are what happens between two points where another thread could matter; `RegisterTool`, `UnregisterTool`, `RegisterProvider` are the other threads |
| `ToolMessages` | provider-neutral messages and what the two wire formats accept | operators only |
| `ToolConversation` | what the loop promises a consumer: rounds appended whole | abstract |
| `ToolLoop` | `ToolCallLoop.run`, called turn after turn | a provider round is `Reply`, `ProviderFails` or `ProviderRaises`; a call is `Request`, then `Reject` or `Approve` or `HookRaises`, then `Execute` or `ToolRaises`; the budget is `Exhaust` |
| `ToolLoopWire` | `messages_to_chat` on a history, and the run's records against it | operators over `ToolLoop`'s state |
| `PluginFleet` | `PluginRegistry`, discovery, the owner check of `AIEngine.__init__`, `PluginLifecycle`, the three sweeps | `Build`, `Discover`, `DiscoveryFails`, `Claim` or `Refuse`; `Begin` and `Step` for one call of a plugin, `OutOfOrder` for one that the lifecycle refuses; `Collect` is the garbage collector |
| `MemoryContract` | `MemoryStore`, and `InMemoryStore` which is exactly that | abstract; one step per call |
| `SQLiteMemoryStore` | the SQLite store in several processes | `Add`, `Delete`, `Clear` execute the statement, `Commit` ends the `with` block, `Get` and `Search` read what is committed; `Fail` and `Crash` at any point |
| `ProviderCalls` | construction and one call of each of the five adapters | `Construct` (factory and constructor), `Refuse`, `Send`, `TransportFails` (with `GiveUp` or `TryAgain`), `Receive`, `Translate`; the checks of each adapter in the order of its code |
| `EventBus` | `InMemoryEventBus` used by several threads and from inside handlers | each thread has a `stack` of `publish()` calls with what is left of their snapshots: `Publish`, `Deliver`, `HandlerReturns` or `HandlerRaises`, `PublishReturns`; `Subscribe`; `UnsubscribeChecks` and `UnsubscribeDeletes` are the two unlocked halves of `unsubscribe()` |
| `ServiceContainer` | `core/container.py` | every method in the steps another thread can see, on any thread: `register()` and `register_instance()` are `RegisterBegins` (the check), `RegisterWrites` and `RegisterEnds` (the kind); `resolve()` is `LookUp` (is there an instance?), then `FactoryMissing`, or the factory's `FactoryResolves` (it resolves in turn), `FactoryReturns` (with kind and write) or `FactoryRaises`. `calls` holds the `resolve()`s of a thread that found no instance, innermost last |
| `KernelRuntime` | `Kernel`, `KernelBootstrap.run`, `RuntimeContext`, `SystemInfoPlugin.collect`, `HealthCheckTool`, over the containers | `BootBegins`, `BootRegistersTool`, `BootChecksService`, `BootWritesService`, `BootStarts` on the main thread; `Register` and `Resolve`, with `GoOnRegistering` and `GoOnResolving`, on every thread that holds the container; `CallStart`, `StartClaims`, `StartClears`, `StartConfigures`, `StartExplains`, `CallShutdown`, `ShutdownStops`, `ShutdownEnds` and the reads of `health()` one by one on every thread that got hold of a runtime |

`MCx` modules give the constants of a run. `xProofs` modules hold theorems:
`WorkflowEngineProofs` (with `AgentRun`), `ExecutionEngineProofs`, `ToolLoopProofs` (with
`ToolLoopWire`), `PluginFleetProofs`, `ProviderCallsProofs`, `EventBusProofs`,
`KernelRuntimeProofs`, `SQLiteMemoryStoreProofs`.

How they compose. `AgentRun` extends `WorkflowEngine` and runs it under the agent;
`KernelRuntime` extends `ServiceContainer` and uses its actions for every registration
and resolution. A workflow step and a tool call of the loop both go through
`ExecutionEngine.execute`: `WorkflowEngine` and `ToolLoop` let it answer freely, a raised
exception included, and `ExecutionEngine` shows where such an exception comes from
(`NothingPropagates` is violated), so the outcome "raise" is not an exaggeration.
`ToolLoop` assumes in `Usable` that a provider's answer has text or a call; that this
holds is `AnswersAreUsable` of `ProviderCalls`. Requests in `ExecutionEngine` are
concurrent because `WorkflowEngine` runs them on workers, and for the same reason several
threads publish on the bus of `EventBus`; to the engines a `publish()` is one step that
does not fail, which `EventBus` shows for handlers that raise. A `stored` flag stands for
an `add` on a store that may fail, which is what `MemoryContract` allows.

Data is abstracted to what the properties tell apart: a message is its role and its
blocks, a memory value is a model value with its image under JSON, a query is the set of
values it matches, a reply is what decides its fate, an instance is who made it and which
it is. Formatting, logging, timestamps and generated ids are left out.

## 3. Runs

| Run | What it checks | Instance |
|---|---|---|
| `workflow` | `TypeOK`, `UnitBarrier`, `SiblingsShareContext`, `NothingExecutedIsLost`, `OutcomeIsFirstDeclaredFailure`, `CancelledOnlyForAReason`, `EventsMatchOutcome`, `AgentTellsItsWorkflow`, `CallEnds`; implements `WorkflowRun` (`RefinesRun`) | 3 steps, alone or under an agent, 9 shapes of `parallel_groups` (2 refused by the options record, 3 by the engine), 1, 2 or as many workers as steps |
| `execution` | `TypeOK`, `NoRunWithoutPermission`, `ChecksDisagreeOnlyAfterReplacement`, `RecordsAgree` | 2 requests, one tool id that two tools hold in turn, one guarded; one provider; one permission and a malformed claim |
| `execution_raises` | violated: nothing propagates | 1 request |
| `tool_loop` | `TypeOK`, `HistoryIsPaired`, `ProvidersAcceptHistory`, `EventsTellRecords`, `WireIsPaired`, `RecordsTellHistory`, `RunEnds`; implements `ToolConversation` (`RefinesConversation`) | 2 runs of up to 2 rounds on one conversation; a turn asks for two tools under one call id |
| `plugin_fleet` | `TypeOK`, `LifecycleTellsPlugin`, `SweepIsComplete`, `CallsAreOrderly` | 2 engines, 3 plugins of which two share an id, a discovery that finds two or nothing |
| `plugin_initialize_once`, `plugin_replaced` | violated: initialised once; every registered plugin starts | the same, with a registry that changes only between sweeps |
| `memory` | implements `MemoryContract` (`RefinesContract`) | 2 processes, 3 ids, 4 values (one JSON changes, one it refuses), 3 rowids |
| `provider` | `RetriesAreUsedUp`, `AnswersAreUsable`, `VectorsMatchTexts`, `CallEnds` | 5 adapters, every kind of configuration, up to 2 retries, batches of 2 texts, up to 3 items in a reply |
| `provider_health` | violated: `check_health` never raises | the same |
| `events` | `HeardOnceInOrder`, `UnsubscribeFindsIt`, `PublishEnds` | 2 threads, 2 event types, 3 registrations, 2 events, nesting of 2 |
| `kernel` | `TypeOK`, `SingletonUnlessDisturbed`, `RuntimeServicesStay`, `ReportsTellOneRuntime`, `QuietKernel`, `ServicesStaySettled` | 2 runtimes assembled in turn, 2 threads that both register and resolve, 2 containers, 4 service types of which one factory resolves another, 6 ways to assemble and use a runtime, 2 factory-made instances |

Why the bounds are enough to be of interest:

- three steps are the fewest for a group with a failing step, a sibling that runs and one
  that waits, and for a unit before and behind a group; two workers for three steps leave
  a future in the queue when the cancel loop comes;
- two requests and two tools under one id are enough for a tool to be replaced between
  the authorizer's lookup and the dispatcher's. Requests do not touch one another, so
  more of them add nothing but product states;
- two rounds of two calls are the fewest in which a call is refused, another one run and
  the results sent back; two runs let a failed run be repeated on what it left. One call
  id for both is the harder case, in which only the order tells them apart; that the
  order is right for distinct ids as well is proved (`AlwaysPaired`,
  `AlwaysPairedOnTheWire`);
- two engines let one die and the other take over; two plugins under one id let one
  replace the other; a second id gives a sweep something left to do when it fails;
- two processes race for the lock. `MaxRowid = 3` bounds the rowids a table may use: an
  `Add` of a new id is not taken when the largest rowid is 3. Deleting the last row frees
  its rowid, as in SQLite without AUTOINCREMENT, so deletion, reuse and overwriting all
  occur within it;
- two retries give a first, a middle and a last attempt; replies with one item too few,
  one too many, a repeated and an excessive index all occur for two texts;
- three registrations leave one to add and one to remove while a walk over two is under
  way; two events and a nesting of two let a handler publish, to its own type as well;
- two runtimes can share a container, so that the second boot fails on what the first
  registered, or meets a factory or an instance of the application; two threads race in
  `register()` and `resolve()`, also with a boot, in `start()` and `shutdown()`, and
  between two reads of a report. `MCInit` leaves out pairs of runtimes that have nothing
  to do with one another: a kernel made without bootstrap comes with a bootstrapped
  runtime on its container.

Numeric bounds that are no parameters of the code: `MaxRuns` (tool loop), `MaxRowid`,
`MaxRegs`, `MaxEvents`, `MaxDepth` (event bus), `MaxBoots`, `MaxMade` (kernel). Of the
others, `MaxIterations` and `MaxRetries` are options of the code and `Texts` is the size of
a batch. Deadlock is checked except in `tool_loop`, `events` and `kernel`, where the
application stops when it has used up the calls it may make.

### Findings

The violation runs are places where the source promises one thing and does another:

1. **`execute()` can raise** (`execution_raises`). `execution/dispatch.py:79` and
   `tools/pipeline.py:45` say that exceptions become failed results. An exception whose
   text is blank cannot be put into one, since a failed result refuses a blank error; and
   `validate()` is guarded against `ToolValidationError` only.
2. **A plugin can be initialised twice** (`plugin_initialize_once`, `plugins/base.py:32`):
   the next engine on a registry whose engine was collected starts from fresh lifecycles.
   The trace is of a plugin that was initialised and started before; one that was only
   disposed of would not violate the property.
3. **A replaced plugin is never started** (`plugin_replaced`, `ai_engine/engine.py:186`):
   the lifecycle is cached per id and goes on driving the instance that was unregistered.
4. **`LocalProvider.check_health` can raise** (`provider_health`, `providers/local.py:115`):
   a tool call with an id of white space passes `tool_calls_from_chat` and is refused by
   `ToolCall`, with an error that is not one of the adapter's own.

Other divergences were seen while modelling. The models follow the code in each of them,
and no run is spent on them:

- a workflow whose step raises publishes no terminal event, although
  `src/docs/specs/workflow.md:150` promises exactly one; and one whose record is refused
  (a blank `workflow_id`, which `MemoryEntry` refuses outside the `try` of `_remember`)
  raises behind its terminal event. `EventsMatchOutcome` says exactly what was published:
  the start alone if a step raised, in every other case the start and the one event of its
  outcome, also when the record raised;
- the factory of a singleton is "invoked at most once" (`core/container.py:18` and `:40`)
  only while nobody else is at the key. It is called twice when two threads resolve it and
  both find no instance, when the first call raised, and when the first call returned
  before `register()` had written the kind: that `resolve()` raises `KeyError` where
  `container.py:83` promises `ServiceRegistrationError` only for a type that is not
  registered, and drops the instance. `SingletonUnlessDisturbed` counts what factories
  returned and exempts the keys this happened to (`raced`, `lost`), and says that a kind
  is missing only while its registration is unfinished;
- `register()` and `register_instance()` promise an error for a key that is registered
  (`core/container.py:46` and `:64`), but check and write without a lock: of two threads
  that both found the key free neither is refused, and the later one replaces an instance
  that was handed out, or that a boot just registered. Such keys are `contested`; before
  the race is over nothing about them is `Settled`, and `RuntimeServicesStay` and
  `ReportsTellOneRuntime` let them hold another instance;
- the SQLite store gives back a list where a tuple was stored, although
  `memory/store.py:20` makes every store a drop-in replacement; what a backend keeps of a value is
  therefore a parameter of `MemoryContract`;
- `bootstrap/context.py:25` says that nothing the bootstrap returns can stop the kernel,
  yet the tool, workflow and plugin contexts a `RuntimeContext` makes carry the kernel
  itself; so `KernelRuntime` lets their holders call `start()` and `shutdown()`;
- a handler unsubscribed while an event is delivered still gets that event, and a second
  thread that unsubscribes the same registration can meet a `KeyError` instead of
  `EventDispatchError`; both are in `EventBus`;
- `providers/openai.py:227` raises `IndexError` on a response without choices, where
  every other unusable reply becomes an error of the adapter.

### Fairness

Liveness is checked under weak fairness only.

- `workflow`: on the agent, on the calling thread as a whole and on each worker. The
  operating system schedules threads, and a worker that has a job runs it; step bodies
  return or raise.
- `tool_loop`: on the calling thread inside `run()`; hook, tools and provider return or
  raise. None on the consumer.
- `provider`: on the call as a whole, because an attempt that is not answered ends with
  `timeout_seconds`, which the configuration requires to be positive. `httpx` counts it
  anew for each read, so an endpoint that for ever sends another byte in time is left out.
- `events`: on what each thread does inside a `publish()` or `unsubscribe()`; handlers
  return or raise. None on new calls, also not on those handlers make.

A body that never returns hangs the code as well; no property claims otherwise. The other
runs have no liveness property and no fairness.

## 4. Proofs

The theorems hold for every value of the constants that satisfies the named assumptions:
any number of steps, groups and workers; any requests, tools and permissions; any
batches, rounds and runs; any plugins, engines and discoveries; any processes, ids, values
and rows; any retry limit and batch size; any threads, registrations, containers and
runtimes. Each module has an inductive
invariant, a lemma that `Init` gives it, a lemma per action that keeps it, and theorems
that read the properties off it. TLC checked the properties on the instances above before
they were proved.

Where a definition of the library is recursive (`FlattenSeq`, `SelectSeq`) and a fact is
needed for sequences of every length, the proofs take a least counterexample: the natural
numbers are well founded (`NatLessThanWellFounded` and `WFMin` of the library), so a set
of lengths for which a fact fails has a least member, and unfolding the definition once at
that length leads to a contradiction.

- **`WorkflowEngineProofs`** (assumes `N` is a natural number, `Limits` are, and group
  options are sequences of sequences of names). `IInv` adds to the types: the shape of a
  run (`past` is a prefix `1..k` made of whole units, and the current unit opens it), what
  each future's state says about `out` and `seen`, and what has been collected. The lemma
  the rest leans on is `OpenedUnit`: accepted groups are intervals, so the unit that opens
  behind `past` is the set of steps that share a unit with its first one. Proved:
  `TypeCorrect`, `UnitsAreBarriers`, `ContextIsDeterministic`, `CancellationIsJustified`,
  `StoppedAtIsFirstDeclared`, `NoExecutedStepIsLost`, and the refinement
  `EngineImplementsRun`, in which `FoldUnit` maps to `SettleUnit` and the pool's steps to
  stuttering. `AgentRunsTheEngine` (`AgentSpec => Spec`) carries all of it over to runs
  under an agent. The event theorems need two more invariants: what `events` holds at each
  `pc` of the engine, and that `trace` is those events between the agent's. Proved:
  `EventsAreItsOutcome`, `AgentsTellTheirWorkflow`.
  Two theorems say what termination rests on. `NeverStuck`: until a run has ended, the
  calling thread can go on, a step body can end, or a job waits and a worker is free. For
  that a unit must have a worker (`Workers > 0`, also when `max_concurrency` is `None`)
  and a future that `as_completed` still waits for must be in the queue or running.
  `RunsAreBounded`: every step leaves less to do (`NothingComesBack`, `SomethingIsDone`:
  seven sets, none of which grows while one shrinks), so a run of `N` steps takes at most
  `6 N + 3`.
- **`ExecutionEngineProofs`** (assumes that tools have an id and a set of valid
  permissions). `IInv` says, per request, what is known at each `pc`: above all that
  `pc = "execute"` implies `Permitted`, which speaks of the tool object held and not of
  the registry, so registry steps cannot break it. Proved: `TypeCorrect`,
  `NoUnpermittedRun`, `DenialsAreFinal`, `ChecksAgreeOnOneTool`, `RecordsAlwaysAgree`.
- **`ToolLoopProofs`** (assumes that batches are sequences of calls and the budget is
  positive). The paired history is not inductive, since in the middle of a round its last
  turn is unanswered. `Inv` speaks of `Settled`, the history up to the last complete
  round: it is `Sound` (paired and accepted by both wire formats) and extends what the
  consumer holds; during a round the last message is the turn that asks, and the blocks
  answer a proper prefix of its calls. `TellInv` adds that the last event of a call being
  handled is its request. Proved: `TypeCorrect`, `AlwaysPaired`, `AlwaysAccepted`,
  `OnlyOffered`, `ConversationGrows`, `EventsTellTheirRecords` and the refinement
  `LoopImplementsConversation`.
  For the wire format `Laid` gives the position at which a message of the history begins
  on the wire, and `FlattenIsLaid` that what lies there is what `ToChat` makes of it;
  `SoundWire` then turns "answered by the next message" into "answered by the next k
  messages". For the records `RecordInv` says that those of complete rounds (`Complete`)
  are told by the messages of `Settled` behind some start, and those of the round under
  way by its blocks. Proved: `AlwaysPairedOnTheWire` and `RecordsAlwaysTell`.
  `RunsAreFinite` is what `RunEnds` rests on: inside `run()` every step lowers the rounds
  the budget leaves, else the calls without an answer, else the steps of one call.
- **`PluginFleetProofs`** (assumes that plugins have ids and that `None` is no engine or
  plugin). `IInv` adds that only the owner is alive, that dead engines track nothing, that
  tracked lifecycles hold plugins of their id, and that what a sweep has passed is where
  the sweep should leave it. Proved: `TypeCorrect`, `LifecyclesAreRight`,
  `SweepsAreComplete` and the action property `CallsInOrder`.
- **`ProviderCallsProofs`** (assumes that the retry limit is a natural number and a batch
  is not empty). What an adapter checks of a reply is a sequence of tests; a lemma per
  adapter says what a reply that passes them looks like. `VectorsArePlaced` is a
  pigeonhole argument: as many items as texts with distinct indexes below their number
  leave none out. `CallInv` counts attempts: one is left whenever one may be made, which
  is why the assertion behind the retry loop is unreachable. Proved: `CallTypeCorrect`,
  `RetriesUsedUp`, `AnswersUsable`, `VectorsInOrder`; also `SentNoMoreThanAllowed`, and
  `CallsAreBounded`: a call takes at most `2 max_retries + 4` steps.
- **`EventBusProofs`** (assumes that the bounds are natural numbers). `BusInv` is
  `TypeOK` with three parts: a table lists registrations in the order they were issued;
  for a call under way what was heard and what is left of its snapshot make up the
  audience, the one before the other, and no other call walks that event; and a
  registration past the check of `unsubscribe()` is still in a table unless two threads
  had it. Proved: `BusTypeCorrect`, `EventsHeardOnceInOrder`, `UnsubscribeFinds`.
- **`KernelRuntimeProofs`** (assumes of the choices of a boot only their types, and that
  `Defaults` include both registries). `KernelInv` joins what the container holds
  (`ContainerInv`), who may be resolving (`CallsInv`), how far the one boot in
  progress is (`BootInv`: what it has registered or still has to; `AddInv`: what it is
  about to write), that every transient state has its writer and every failure its detail
  or the thread about to write it (`QuietInv`), and what a report has read (`ReportInv`).
  In `ContainerInv`, `SoloInv` says that a key that was never contested has one
  registration at a time whose check is still good when it writes, and `KindFollows` that
  a factory without a kind has a thread about to write it. One instance per singleton
  needs a second invariant, `SingleInv`: for a key never raced for or contested at most
  one `resolve()` that missed it is under way, and while its factory is called the key
  holds nothing. `ContainersSettle` needs none of the exemptions: whatever raced before,
  once nobody is at a key its instance is final. Proved:
  `KernelTypeCorrect`, `ServicesOfARuntimeStay`, `ReportsAreOfOneRuntime`,
  `KernelsAreQuiet`, `SingletonsAreSingle` and the action property `ContainersSettle`.

- **`SQLiteMemoryStoreProofs`** (assumes that `MaxRowid` is a natural number and that JSON
  makes of a value nothing, or a value that it then leaves alone). `MemInv`: the table has
  at most one row per id, at most one process has a transaction open, and what that
  transaction holds is what its one statement makes of the committed rows. The contract
  lists entries in insertion order, the table has rowids, so the proof counts: `Rank` is
  how many rows lie in front of a rowid and `Nth` the rowid at a position; the rows in
  order are the one sequence that visits every chosen rowid once and upwards
  (`ChosenIsUnique`), and `SelectSeq` yields just that (`WhereIsChosen`). An upsert keeps
  the position of an id it finds and otherwise takes one behind the last row
  (`UpsertFacts`). Proved: `TableIsKept`, and the refinement `StoreImplementsContract`: a
  commit or a read is the contract's step, everything else, deaths and failures included,
  is hidden.

Some theorems state properties no run spends time on because the proof covers them:
`DenialsAreFinal`, `OnlyOffered`, `ConversationGrows`, `CallTypeCorrect`, `BusTypeCorrect`,
`TableIsKept`, `NeverStuck`, `RunsAreBounded`, `RunsAreFinite`, `SentNoMoreThanAllowed`,
`CallsAreBounded`.

Only model-checked: liveness (`CallEnds` of a workflow and of a provider call, `RunEnds`,
`PublishEnds`), since the prover does not reason about fairness and `ENABLED`. Of the first
three the part that needs no fairness is proved, as said above; what stays with TLC is that
a thread that can move is at some time scheduled. The guards in `NeverStuck` are written
out for the same reason. Every safety property that a passing run checks is proved.

## 5. Not modelled, and assumptions

- Logging, observability, security lookups and the plugin SDK: construction and
  validation of records, with no behaviour over time. Of the configuration only that a
  `KernelConfig`'s log level was validated when it was made, of the built-in tools and
  plugins only what reads a runtime.
- Vector memory (`memory/_vector/`): private, wired into nothing, and about floating-point
  similarity.
- `BaseException` (KeyboardInterrupt and the like), custom event buses and sinks that
  raise, and exceptions of `httpx` and the SDKs other than timeouts, transport errors,
  error statuses and unreadable bodies.
- `as_completed` hands over futures in the order they finish; the model lets it hand over
  any that is done, which includes every order of the code.
- A single operation on a Python dict or list is one step, as it is under the interpreter
  lock. Longer operations are split where another thread can change what they go on
  with. The ones that are not, because nothing another thread does then changes what
  comes of them: the two look-ups of `is_registered`, of which the step stands for the one
  that decides; the read of a service's kind and the write behind it; and `Finish` of
  `ExecutionEngine`, whose event, audit record and memory entry are written by one thread
  from one result. What a reader of bus and store sees between those writes is left out.
- Factories of services register nothing themselves.
- One thread drives an `AIEngine`, and `AIEngine.__init__` is one step; runtimes are
  assembled by one thread.
- SQLite is taken at its documentation: one writer, readers see what is committed, a
  transaction that was not committed leaves nothing. A loss of power, which may undo the
  last commits under `synchronous=NORMAL`, is left out, and so is the use of one
  connection from several threads, which the sqlite3 module refuses
  (`check_same_thread`).
- An SDK's own retries are part of one attempt, and an attempt that timed out may have
  been served all the same; nothing here says how often an endpoint did the work.
- After one plugin has failed, `stop_plugins` raises at it every time and does not reach
  the plugins registered behind it; the source promises nothing else, so no property does.

## 6. What could come next

The plan of the first version is done: workflow, agents, execution, tool loop, plugins,
memory, providers, event bus, kernel, container and bootstrap are modelled, and every
safety property the runs check is proved. What is left is smaller:

1. several threads on one `AIEngine`: its plugin sweeps take no lock either;
2. unregistration of providers, and the factory's registry of constructors;
3. the nesting of `publish()` calls, of which only the types and the walks are proved and
   no bound on the steps.
