# Verification of the swarm orchestrator

TLA+ models of the program in this repository, the TLC configurations that
check them on small instances, and proofs that TLAPS checks. Paths below are
relative to the repository root; O stands for `internal/core/orchestrator`, A
for `internal/core/agent`, S for `internal/context/session` and W for
`internal/server/ws`.

## 1. Inventory

| Part | State | Operations | What is hard | What makes it correct |
|---|---|---|---|---|
| Task queue, O/queue.go | pending heap, maps running, completed, failed, one mutex | Enqueue, Dequeue, Complete, Fail, failDependents | a retry puts a task back that is still in `running`; failures cascade while submissions are under way | a task waits for its dependencies, has one holder, ends once |
| Dependency graph, O/dependency.go | tasks, deps, reverse edges, a mutex of its own | Add, Remove, IsReady, HasCycle, DetectCycle, orders | callers combine several calls without a lock over them | edges of accepted tasks are there, acyclic |
| Coordinator, O/coordinator.go | registered agents, conflicts, running flag | SubmitTask, DecomposeTask, RegisterAgent, Start, Stop, monitor loop | check-then-act in SubmitTask, planned parents, restart | an accepted task is eventually released, no cycle is accepted |
| Scheduler, O/scheduler.go | assignments, agent loads | schedule pass, assignTask, executeTask, verification, ReassignTask | one goroutine per task, deferred cleanup, stale list of agents | loads and assignments follow the executors |
| Recovery, O/recovery.go | configuration only | retry, reassign, decompose, escalate | acts on a task whose executor is still there | nothing done twice |
| State manager, O/state.go | current state, state file, checkpoints | Save, Load, checkpoints, Clear | crash between steps, live state marshalled outside the lock | a restart sees one consistent state |
| Agent, A/agent.go, A/state_machine.go | status twice, current task, request count | Initialize, Start, Stop, Pause, Resume, Execute | the lock is released during the model call; the deferred exit meets a stopped or resumed agent | the two copies agree, terminated is final, requests are counted |
| Pools and factory, A/pool.go, A/factory.go | available and busy agents, size limits | GetAgent, ReturnAgent, AutoScale, ScalePool, DestroyAgent | decisions acted on after the lock was released | sizes within limits, a busy agent is not stopped |
| Task planning, internal/core/task | plans, graph, progress | Plan, decompose, verify, critical path | a decomposed task leaves the plan, others refer to it | parts and dependents come in order, or the plan is refused |
| Context store, internal/context/store | three tiers with a lock each, subscribers | Get with refill, Set, Delete, snapshots | a call goes from tier to tier without a lock over them | a key behaves as a map for who has it alone; the hot tier keeps its limit |
| Sessions, S | active sessions, conversations, files | AddMessage, Suspend, Resume, compress, recover | session fetched before it is locked | no message is lost, summaries name what they summarise |
| Knowledge graph, internal/context/knowledge | nodes, edges, adjacency lists | add, record a decision, delete, traverse | three structures to keep in step, deletion half way through a decision | edges join nodes that are there, paths are shortest |
| WebSocket hub, W | clients, four channels | Register, Unregister, Broadcast, shutdown | send on closed channels, register after unregister | a closed client leaves the hub |
| Buffered broadcaster, W/broadcast.go | buffer, timer, a goroutine | Add, Flush, Stop | the timer is set again only by a flush of something | what is added goes out |
| gRPC server, internal/server/grpc | streams, index by topic | five streaming handlers, Stop | registration after CloseAll, peers that do not read | every stream ends when the server stops |
| MCP client and server, internal/mcp | one transport | requests, notifications | answers are paired by position, the server answers in any order | an answer belongs to its request |
| Providers, internal/providers | cache, retry policy | chat, retry, cache | eviction at the limit, keys that leave parts of a request out | what was used last stays |
| Skill registry, internal/skills/registry | manifests by id, an index, a lock for each | register, remove, discover from files and from other registries | a discovery holds the lock while others answer, who may be discovering as well | every discovery ends |
| Skill loader, internal/skills/loader | the loaded instances, a process with pipes per instance, two levels of locks | Load, Unload, Initialize, Execute, Shutdown | all callers share the instance; locks are held while a process answers | calls return, a running process is one that Shutdown reaches |
| Configuration, internal/config | current configuration, its file, a goroutine that watches the file | Reload, Update, Save, Close | edits during a reload, closing before the goroutine starts | an edit is loaded in the end |
| REST server, internal/server/rest | maps of agents, tasks and skills, one lock | list, get, create, change, delete, Start, Stop | records are shared with answers under way; Stop holds the lock | an answer to a change is that change, every request is answered |
| Rate limiter, internal/server/rest/middleware.go | a channel of tokens per client address | a request takes one, a goroutine gives it back, Cleanup | looked up and made in two critical sections | one burst per client |
| Login sessions, internal/security/auth | sessions, ids by user | create, get, delete, expire, clean up | two maps, eviction in between | the maps agree |
| Terminal interface, command line, roles and tokens | | | rendering, wiring, functions of data | |

Interaction. `cmd/swarm` creates the orchestrator. Callers submit tasks; the
coordinator uses the graph directly (without the queue's lock) and then the
queue. The scheduler's loop ticks, takes the list of ready agents from the
coordinator, a task for each from the queue, and starts an executor goroutine
per task; the executor calls the agent, asks the verifier, reports to the queue
(Complete, Fail or Enqueue again), and in a deferred function gives the load
back. They share the `*api.Task` record. The REST and gRPC handlers do not call
the orchestrator at this commit: the REST server keeps records of its own, and the
unary gRPC handlers answer from fixed data. A skill registry serves its list to
other registries, which discover from it.

## 2. Modules

| Module | Models | Correspondence |
|---|---|---|
| `TaskQueue` | O/queue.go, O/dependency.go | variables are the maps of the queue and the graph and two fields of the shared task record; operations have the code's names |
| `BaseAgent` | A/agent.go, A/state_machine.go | one action per lifecycle method; Execute is entry, error, deferred exit |
| `Orchestrator` | O/coordinator.go, O/scheduler.go, composed with the two above (EXTENDS) | three kinds of goroutines, one action per critical section |
| `TaskLifecycle` | nothing: the abstract specification | what a caller may see happen to a task |
| `AgentPool` | A/pool.go, and what it calls of A/factory.go | GetAgent, ReturnAgent and the two halves of AutoScale over the pool's three maps and two gauges |
| `FactoryPool` | the AgentPool type and ScalePool of A/factory.go | a list and a buffered channel; one action per agent that ScalePool moves |
| `WsHub` | W/hub.go, client.go, server.go, broadcast.go | the hub's goroutine, a read pump per client, workers and the cleanup task, with the four channels between them |
| `Session` | S/session.go, S/persistence.go | one session in memory and in its file, the calls on it, the background save, a crash |
| `StateManager` | O/state.go | the live state as an object on the heap, the files and their temporary names; every file system call is a step, and a crash may come between any two |
| `GraphAlgorithms` | the two orders of O/dependency.go | a graph, further calls of Add and Remove for tasks that are in it, and one query; the reverse lists as numbers of entries, map iteration in any order |
| `TaskPlanning` | planner.go, decomposition.go, rules.go and graph.go of internal/core/task | one call of Plan on one request |
| `ContextStore` | internal/context/store | three tiers, one action per tier and operation |
| `KnowledgeGraph` | store.go, graph.go and ShortestPath of internal/context/knowledge | nodes, edges and adjacency; RecordDecision is a step per edge |
| `CoordinatorLifecycle` | Start, Stop and monitorLoop of O/coordinator.go, the loop of O/scheduler.go | channels by number, contexts, and where the loops of each Start are |
| `GraphTraversal` | BFS, DFS, FindConnectedComponents and FindCycles of internal/context/knowledge/traversal.go | one call on any graph, a step per question to the store, others deleting meanwhile |
| `BufferedBroadcaster` | the type of that name in W/broadcast.go | the buffer, the timer and the goroutine that waits for it |
| `GrpcStreams` | stream.go and the streaming handlers of internal/server/grpc, Stop of server.go | where each handler is, the manager's two maps, contexts and connections |
| `McpExchange` | internal/mcp/client and internal/mcp/server/server.go | callers, the two directions of the transport, the server's goroutines |
| `ProviderCache` | cache.go and retry.go of internal/providers | the cache's entries by key, where each caller is, a clock |
| `ConfigManager` | internal/config/manager.go | the file, the manager, the goroutine that watches |
| `RestServer` | server.go and handlers.go of internal/server/rest | one map for the three that have the same handlers; a record is two fields, written and read one after the other, and a Config that its answers share |
| `RateLimiter` | middleware.go of internal/server/rest | the channels, who holds which, the tokens that are out |
| `AuthSessions` | session.go of internal/security/auth | the two maps and the order of the last accesses; one action per method |
| `SkillLoader` | loader.go and process.go of internal/skills/loader | the two levels of locks, instances, processes, where each caller is |
| `SkillRegistry` | registry.go, index.go, discovery.go and api.go of internal/skills/registry | each registry with its files and the others as sources |
| `MCOrchestrator`, `MCServices`, `MCComponents`, `MCStores`, `MCProviderCache`, `MCLive` | instances for TLC | |
| `Orchestrator_proofs`, `Planning_proofs`, `Pools_proofs`, `Context_proofs`, `Messaging_proofs`, `Services_proofs`, `Traversal_proofs` | theorems; `Orchestrator_proofs` is about the agents too, `Planning_proofs` about the two orders of the dependency graph and about the planner, `Pools_proofs` about both pools, `Context_proofs` about the context store, the knowledge graph and the sessions, `Messaging_proofs` about the hub and MCP, `Services_proofs` about the state manager, Start and Stop, the skill loader, the REST server, the rate limiter and the logins, `Traversal_proofs` about the walks |
| `DataLemmas` | nothing | lemmas on induction, recursion, sums and lists that the theorems use | |

`Orchestrator` extends `TaskQueue` and `BaseAgent`, because the program shares
the task record and calls the agents. The others do not share state with it or
with each other at this commit. `MCServices`, `MCComponents`, `MCStores` and `MCLive`
therefore put several of them beside each other in one run without interleaving
them: `part` is chosen in the initial state, and only that part moves.

Definitions whose comment begins with "Mutant:" are plausible mistakes in the
operation that follows them. They take no part in any specification; putting
one in the place of its operation breaks the property it is meant to break,
which shows that the property is about the code.

### Where a step begins and ends

An action is a critical section or a stretch of code whose effect on shared
state is a single one.

* `q.mu`: Enqueue, Dequeue and Complete are one step each. They make several
  calls on the graph, which has its own lock, and only SubmitTask calls the
  graph without `q.mu`. What it adds or removes belongs to a task whose status
  is Pending, which is neither ready, completed nor Blocked, so these calls
  commute with the graph calls of the queue.
* Fail does not commute: failDependents reads reverse edges, and a task that
  is being submitted may be among them for a while. Fail is a first step and
  then one step per visited task (`FailDependents`), with `q.mu` held
  (`cascade # {}`); the order of visits is free. The dependents of one visited
  task are taken at one moment.
* SubmitTask is a step per graph call, so that two callers interleave in the
  whole of it (`sub` is the place of each caller).
* `s.mu`: a pass of schedule holds it from the tick to the last agent. Passes
  exclude each other and exclude the deferred cleanup (`todo # {}`); the
  executors and the callers go on during a pass.
* `a.mu`: Execute is entry, the model call without the lock, handleError and
  the deferred exit. The lifecycle methods come in between.
* The writes to `task.Status` in executeTask are not synchronised in the code.
  They are steps of their own in the model; nothing in the code but
  failDependents and Complete reads the field, both for tasks that are not
  executing.

* `pool.mu`: GetAgent, ReturnAgent and the decision of AutoScale are a critical
  section each. AutoScale gives the lock up to create or destroy an agent and
  takes it again to record that: `DecideUp` or `DecideDown`, then `DestroyAgent`
  (creation is part of the last step, since nobody sees a new agent before), then
  `AddScaled` or `RemoveScaled`.
* ScalePool of the factory decides once, then works on one agent at a time
  without `f.mu`; the send on the channel waits while the channel is full.
* The hub is one goroutine: a handler is a step, except that a broadcast is a
  step per recipient, since a client may be closed between two sends.
  Disconnect sets the flag and closes the channel in two steps, because the
  senders test the flag first and send afterwards. A send on a closed channel
  is a panic, which ends the program: `Panic` is a step, and nothing follows.
* Session calls fetch the session from the map and then lock it, so every call
  has a step before `Acquire` and one or more after it. The background save
  holds the store's lock but not the session's: it reads status, messages,
  summaries and total in four steps, in the order of the JSON text. The update
  a call makes itself is part of its step: it holds both locks.

* The context store locks each tier for itself: Get, Set and Delete are a step
  per tier, and a Get that finds an entry below fills the tiers above in steps
  of their own.
* Save, Load and the checkpoints: taking the lock, copying or encoding part by
  part, opening the temporary file (which empties it), writing it and renaming
  it are steps. Encoding in Save is a step per part because it holds no lock. Two
  goroutines in one Save share the temporary name; the model has one at a time.
* `flush` of the buffered broadcaster, RegisterStream, UnregisterStream and
  CloseAll, the cache's Get and Set, and every operation of the graph store are
  one critical section and one step each.
* Reload of the configuration holds the lock for its whole length; it is two
  steps, the load and the Stat, because an editor of the file holds no lock. So is
  NewManager: the first load, then the Stat of startWatcher. The watcher reads the
  time it compares with outside the lock, in a step of its own.
* An MCP call is: take a number, write, read a line. The stdio transport locks
  writing and not reading, so two callers may read each other's line. Reading
  at the same time is a data race on the reader; the model lets a line go to
  one of the callers, whole.

* A REST handler that changes a record writes its two fields in a step each, with
  the lock; a get reads them in a step each, without it, since it has only looked
  the record up under the lock. The Config of an answer is the record's own map:
  it is read in a step of its own (`EncodeConfig`), when respondJSON encodes the
  answer without the lock, and may be what a later update wrote. Shutdown of net/http
  is what its documentation says: nobody new comes in, and it returns when the
  requests inside are answered or its context ends.
* getClientLimiter is a lookup and a second critical section; taking a token is a
  step, and so is giving it back.
* A method of the login sessions is one critical section and one step.
* Loader and skill each have a mutex. Taking one is a step, and the answer of the
  process, which is awaited under it, is another; in between the process may die
  and other callers queue up.
* DiscoverAll asks a source per step with the lock of its registry; asking another
  registry needs that one's lock. When a source fails after the context has ended,
  the discovery is given up and what it found is dropped. AutoDiscover and handleDiscover then register
  what was found, a critical section each.

### What is abstracted

* Tasks are ids with a set of dependencies. Priorities, ages and scores are
  left out: any pending task of the agent's type may be dequeued.
* The result of a language model and of a verification is chosen freely.
  Whether a task is planned, and into what, is the constant `Plan`; a planner
  that fails is a task with an empty plan, or SubmitTask on a task with one.
* Each id is submitted once, with an empty status field.
* The conflict records are the outcome `rejected` of `sub`. Events for
  subscribers, metrics, logs and timestamps are left out.
* Agents are registered before the first step; agents are not unregistered in
  the code.
* Repetitions in a dependents list are left out of `TaskQueue`: a second visit of
  a dependent finds it in a status that is not touched again. For ExecutionBatches,
  which counts them, `GraphAlgorithms` has them.
* Pools: agents are numbers in the order of their creation, since ids are
  random and not reused. Utilisation and cooldown decide when AutoScale scales;
  the model lets it scale at any moment its size test permits. Agents of a pool
  do not end for reasons of their own.
* Hub: the contents of messages and the capacity of buffers, which drop what
  does not fit. Clients connect once.
* Session: a message is its number and a summary is the sequence of the
  messages it stands for; the text of a summary and the counting of tokens are
  left out. One session: the others matter only because an update of any of
  them saves this one too, which is the background save.

* Context store: a key is in Get, Set or Delete of one layer; sizes are the
  three that fit twice, once and never. The warm and cold tiers are the built-in
  ones, whose only error is a content that JSON cannot encode.
* Knowledge graph: types, labels and properties; a decision has a fresh id. The
  walks have a model of their own, on graphs that others filled: any edges between
  any nodes, asked for in any order; at most one edge from a node to another.
* State: a part is the number of the update that wrote it. That the runtime ends
  the program when Save iterates over a map that another goroutine writes is
  one of the crashes.
* Planning: what the rules look at in a task's input is its shape, chosen
  freely; language model plans are requests like any other.
* Configuration: the contents of a file are the number of the change that made
  it; some cannot be loaded. Every change gives the file a later time.
* Providers: an answer is the request it was made for; time is counted in
  calls of Set.
* REST: the contents of records but for two fields, filters of lists, and the
  validation of bodies. A request for a record that never existed is answered as
  one for a deleted record.
* Rate limiter: time is the flag that nobody has touched a limiter for so long that
  Cleanup takes it away, in which case no token of it is out.
* Login sessions: times are an order (who was used last) and a flag (who has
  expired).
* Skills: one name; what a process answers is success, an error or its end. A
  process that keeps silent for ever is left out: whoever asked it waits as long.
* Registries: a manifest is its id. The scores and versions of the search are left
  out; a list is any page of the right size.

## 3. Runs

All runs switch the deadlock check off: the system may really stop, when every
task is completed, failed or blocked and all agents are stopped, when no call is made on
a pool, a session or a store any more, when a bound is used up, and when the hub,
the broadcaster or the server has stopped or panicked.

| Run | Instance | Question |
|---|---|---|
| `queue` (OrchQueue.cfg) | 3 tasks, every choice of up to one dependency each (two for the third), cycles and self-dependency among them; 1 agent with 2 slots, 2 callers, 1 retry | Are dependencies respected, and do the books of the queue agree, while submissions, retries and failure cascades overlap? |
| `agents` (OrchAgents.cfg) | 2 tasks, 2 agents of which one serves a single task's type and one is started, paused, resumed and stopped | Is a task dispatched once, do loads and assignments follow the executors, and does the whole implement `TaskLifecycle`? |
| `live` (OrchLive.cfg) | 4 tasks, one planned into two, 1 caller, fairness | Do queued tasks settle? Can one caller alone close a cycle? |
| `components` (MCComponents.cfg) | agent: 3 executions at a time, 2 resumes; broadcaster: buffer of 3, 5 messages; streams: 2, about an agent and a task; configuration: 3 changes of the file, one of them broken, from before the first load on; REST: 2 clients, a record, 2 changes; loader: 2 callers, 1 instance, 1 process; registries: 2, which discover each other, with 1 skill, a page of 1; fairness | Is the agent's bookkeeping right under every overlap, do messages go out while the timer is set, does every stream end when the server stops, is every edit loaded, is every request answered although Stop holds the lock, do the calls on a skill return, does every discovery end? |
| `services` (MCServices.cfg) | managed pool: 3 users, 2 scalers, sizes 2 to 3, up to 4 agents; factory pool: 2 users, 2 resizers, sizes 1 to 2, up to 4 agents; hub: 2 clients of one user, 1 worker, 1 broadcast, 1 sweep message per client; session: 2 callers, 3 messages, compression at 2 messages (suspension: above 2) that keeps 1, 1 crash, 1 failure; MCP: 2 callers, 3 requests, 2 notifications; context store: 2 users, a key of one and a key of both, 3 contents; walks: 5 nodes, graphs with a short and a longer way between two of them and ways back, and a graph with an edge of a node to itself; depths 2 and 4, with and without a limit of 2 nodes, 1 deletion | Who may have which agent, and how far from their limits do pools and gauges get? Does the hub know its clients, does the session keep its messages, does a caller get its own answer? Is the context store a map for a key's only user, and the hot tier within its limit? Do walks report what is in reach, and all of it, while others delete? |
| `stores` (MCStores.cfg) | knowledge graph: 2 names and 1 decision, 3 edges, weights 1 and 3; state: 2 parts, 2 updates, 1 checkpoint, 2 objects; all graphs over 3 tasks with a missing one, and one further addition; all requests of up to 2 tasks with up to 2 parts; rate limiter: 2 requests of one address, a burst of 2, 2 limiters; logins: 2 users, 4 sessions, at most 2 each; loader: 2 callers, 2 instances, 2 processes | Do edges join nodes, are paths shortest, are checkpoints moments, do batches, orders and plans follow the dependencies, does a client get one burst, do the maps of the logins agree and keep to the limit, can a running process be reached? |
| `servicesLive` (ServicesLive.cfg) | hub: 1 client; session: 2 callers, 2 messages, compression at 1 (suspension: above 1) that keeps none, no crash; orchestrator: 2 contexts, 2 Starts; fairness | Does a closed client leave the hub, does every call on a session return, and do the loops of the orchestrator end? |
| `cycle` (OrchCycle.cfg) | 2 tasks, 2 callers | Violated: two callers get a cycle accepted. |
| `release` (OrchRelease.cfg) | 2 tasks, 1 caller | Violated: a task stays blocked although its dependency is completed. |
| `parent` (OrchParent.cfg) | 3 tasks, one planned into two, fairness | Violated: the planned parent is never released. |
| `buffered` (Buffered.cfg) | buffer of 3, 5 messages, fairness | Violated: a message added after a quiet interval is never broadcast. |
| `lru` (MCProviderCache.cfg) | 1 caller, 3 prompts, a cache of 2 | Violated: the entry that was just used is evicted. |

Bounds and why they are enough for the cases of interest:

* `MaxSubmitters` 2: the races in SubmitTask are between two callers; a third
  task may already be accepted, running or failed.
* `MaxConcurrent` 2 and two slots: two executors of one agent overlap, one of
  them refused by the agent, one after a retry.
* `MaxRetries` 1: a task is put back once and fails its verification for good
  the second time.
* `MaxResumes` 1 (2 in `components`): a resumed agent takes a second execution while
  the first goes on, and in `components` a third.
* Pools: with three users and two scalers an agent can be taken by one user,
  chosen for removal by one scaler and returned while another scaler adds one;
  the sizes leave room for two scalers to pass either limit. Five (four) agents
  are enough to create one after a removal.
* Hub: two clients of one user are what the index by user has to tell apart; a
  client may be disconnected by its read pump, the hub, its writes, the sweep
  and the shutdown, each once. One broadcast meets every stage of every client.
* Session: three messages with `Threshold` 2 and `Keep` 1 (100 and 20 in the
  code) compress, add again and compress again. One crash and one failure fall
  on every step.
* Context store: two contents of which one alone fills the hot tier evict each
  other; a key of one user and a shared one is the least with which a stale
  refill can hit the one and must not hit the other.
* Knowledge graph: a node can be deleted and created again under its name while
  a decision is recorded towards it; three edges allow two routes of different
  weight and an edge parallel to another. The weights 1 and 3 make the route with
  more edges the shorter one.
* State: two parts are what a copy may mix; two updates fall before and after
  any part. One checkpoint can be deleted and made again.
* `GraphAlgorithms` and `TaskPlanning` are exhaustive over their inputs, with a
  chain and a fork of three tasks, a missing one and cycles; two steps inside
  two steps, chunks and map tasks inside steps, within two tasks of which one
  may depend on the other, on itself or on nobody's id. One further addition
  (`MaxAdditions` 1) is a retry, or a task submitted after one that depends on it:
  with it a task is named twice by all it depends on, or by none.
* MCP: three requests by two callers let a second request meet the answer of
  one that was given up; one of the notifications may come at any place.
* Configuration: three changes are a good one, a broken one and a good one.
* REST: two clients are a change and an answer that overlap, or a request and the
  one that makes it wait; two changes are the least with which an answer can be
  half of the one and half of the other.
* Rate limiter: two limiters for one address are what two first requests, or a
  request and Cleanup, can lead to.
* Logins: three sessions of one user reach the limit of two and evict, with the
  other user's session beside them.
* Loader: two callers share an instance; the second instance is the one that is
  loaded after an Unload, while holders of the first go on. One process is enough
  for the question whether calls return: the next start fails, which the code
  allows at any time.
* Registries: two that wait for each other are the least cycle.
* Three tasks allow a chain, a fork, a join, a cycle of two and of three, and
  a failure that cascades over two levels.

Slots are interchangeable (no constant or property names one), so the safety
runs of `Orchestrator` use them as a symmetry set; the runs with liveness do
not. So are, in `services`, the clients of the hub, which are all of one user, the
goroutines that resize the pools, and the callers of the session manager and of MCP.

### Fairness

`FairSpec` adds to `Spec`:

* weak fairness of each step of a SubmitTask that has begun, of the pass of the
  scheduler and of each executor: goroutines that can go on do so, and the
  language model returns or times out. A new submission and the lifecycle
  methods of an agent are the caller's choice and have no fairness.
* strong fairness of the deferred cleanup: it waits for `s.mu`, which the
  scheduler takes at every tick. Go's mutex goes into starvation mode after a
  waiter has waited for a millisecond and hands the lock over, so a waiter for
  which the lock is free again and again gets it.

`WsFairness`: weak fairness of the hub and of each client's goroutines, among them a
read pump whose client is closed: the connection is closed too, so its read fails.
Strong fairness of the two handlers, since Go's select picks at random among the
channels that are ready and so does not pass one over for ever. Nothing is assumed of
the cleanup of stale clients: `StartCleanupTask` has no caller in the repository. The
steps of a sweep are there, and need not happen.

`SessFairness`: weak fairness of the background save; strong fairness of taking
a lock and going on with it, for the reason given above for `s.mu`.

`BufferFairness`, `StreamFairness` and `ConfigFairness`: time passes, the
goroutines and Stop go on, and the watcher gets the read lock although others
take it again and again (Go's RWMutex keeps no reader waiting for ever). Nothing
is assumed of a peer, which may leave a handler inside Send: what ends it is that
Stop of the gRPC library cuts the connections after ten seconds.

`LifecycleFairness`: the monitor goes on after syncState, and the select of a loop,
which chooses at random, takes an end that is ready again and again. A pass of the
scheduler ends, which is what `Orchestrator` models.

`RestFairness`: handlers are scheduled, whoever waits for the lock gets it when it
is released again and again, and the context of Shutdown ends after its 30 s.
Everything in a handler but the wait for the lock is bounded by the read and write
timeouts of 15 s, so the context ends only when none but such waiters are left.
`LoaderFairness`: the same of the two mutexes, and that a process answers or its
output ends. `RegistryFairness`: a discovery goes on; the HTTP client gives a source
up after 30 s. That the context of a discovery ends is not assumed.

Which of the pending tasks is dequeued, and how often a result is refused, is
left to chance; QueuedSettles holds nevertheless because the tasks and the
retries are finitely many.

## 4. What the checks show

* The order of dependencies, the single dispatch, the books of the queue and
  the load accounting hold under all the interleavings listed above. The
  deferred cleanup does delete the assignment of a newer executor (the converse
  of the second half of `LoadIsExact` is false and not claimed).
* A blocked task whose dependencies are all completed is one that has lost a
  reverse edge (`BlockedHasReason`), and the run `release` shows how the edge
  is lost: submit a task, then the task it depends on; the temporary addition
  of the second is removed again with the edges of the first.
* Two callers can get a cycle accepted (`cycle`); one cannot (`live`).
* A planned parent is blocked for ever (`parent`).
* The orchestrator implements `TaskLifecycle` with
  `phase` read off the books and `needs` the dependencies of accepted tasks.
  The abstract specification had to admit one thing a reader may not expect: a
  task may fail with a dependency before its submission is over.

Start and Stop. `StopsCleanly` has two exceptions that TLC demands. When Save fails,
Stop has closed the channel and leaves the orchestrator running: Start is then refused,
and the next Stop panics (O/coordinator.go:146). When Load fails, Start has replaced
the channel already (O/coordinator.go:120): a monitor that was busy when Stop closed the
old one then waits for the new one, which Stop, now a no-op, does not close. Only its
context ends it. The scheduler knows its context only, so after Stop it goes on, and
with a Start of the same context there are two.

Managed pool. An agent has one user at a time and the gauges are exact in the
sense of `GaugesAreExact`, although AutoScale lowers the idle gauge for an agent
that was taken meanwhile. Limits are not exact: each scaler with an old decision
may pass one by one agent. A user may get a stopped agent, but only until the
scaler that stopped it has recorded that. ReturnAgent of an agent that AutoScale
has removed puts its id back on offer, so a later GetAgent may return a nil agent
without an error (A/pool.go:120 and 152; `NilAgent`). `ScalePool` of the manager
scales the factory's pool, not the managed one (A/pool.go:244).

Factory pool. Nothing takes a destroyed agent out of the channel, so stopped
agents stay on offer after scaling down; overlapping calls of ScalePool pass
MaxSize together; the send of A/factory.go:259 may wait for ever on a full channel.
What does hold is that an agent is in one place.

Hub. The index by user, the listing of open clients and the disconnection at
shutdown hold. The panic of a send on a closed channel can be reached: from a
broadcast or a direct message to a client that is disconnected between the test
of the flag and the send (W/hub.go:287, W/client.go:76), and from any of the
hub's channels after the shutdown has closed them (W/hub.go:314-317). A client
whose registration is still in the channel when the hub stops is disconnected by
nobody, which is why `StopDisconnects` speaks of handled registrations. A closed
client leaves the tables because its own read pump unregisters it; the exception in
`ClosedLeaves` is a client whose unregistration the hub has handled before its
registration, since the pumps start first (W/server.go:230): it stays listed until the
hub stops, as nobody starts the cleanup that would find it (W/server.go:340).

Session. Summaries and messages together are what was given to AddMessage, and
an acknowledged message survives a crash, also one after a background save that
overlapped a compression: the save reads messages before summaries, so a
message may be in the file twice but not in neither. Resume of a session that
Delete has removed meanwhile lists it again, without a stored counterpart, and
Resume leaves ClosedAt, so that Cleanup may delete a resumed session
(S/persistence.go:325); no document says what should happen.

Buffered broadcaster. The timer is set when the broadcaster is made and after
every flush of something (W/broadcast.go:345). A tick that finds the buffer empty
leaves it off, so a message added later waits until the buffer is full or
somebody calls Flush or Stop (`buffered`); as long as the timer is set, messages go
out (`AddedGoesOutWhileArmed`). The tests add their message before the first tick.

gRPC streams. Every handler ends and nothing stays registered once Stop was
called, also for a stream that registers after CloseAll and for a handler inside
Send; CloseAll alone does not ensure it, the cut after ten seconds does.

State manager. A checkpoint file holds one state, whole, whatever crashes in
between, thanks to the copy under the lock and the rename. Save encodes the live
state without the lock, so state.json may mix two states, although it is never
half a file; a crash of the runtime is possible at that place too, since it ends
the program when a map changes under an iteration. ListCheckpoints lists temporary
files that a crash has left behind.

Context store. For a key that one caller uses alone the store is a map. For a
shared key it is not: a Get that has read an entry below refills the tiers above
with it after another caller's Set or Delete, and the old value stays (the model's
reason for `KeysOf`). The hot tier keeps its byte limit through replacement,
eviction and refills.

Knowledge graph. DeleteNode takes the edges of the node out of the graph and out
of the lists of others, and leaves the node's own list
(internal/context/knowledge/store.go:134). A node created again under the same id so
has its old neighbours, by edges QueryEdges does not know: `EdgesHaveEnds` says that
this is all that can be left over, and `PathsAreShortest` is about graphs without
such leftovers, without parallel edges of different weight, of which ShortestPath
takes the first, and with no more nodes than the 1000 it visits (`VisitLimit`).
Weights are whole and not negative; with others the nearest node first would not do.

Walks. BFS finds what is within the depth asked for, with its distance. DFS gives a
node the distance of the way on which it was met first, and does not go on from a
node at the limit, so it may miss nodes within the depth (`WalksFindAll` says when
it does not). FindConnectedComponents follows edges in their direction, in walks
that do not know of each other: in a graph where every edge has its opposite it
finds the components as long as no two nodes that are joined are more than the
hundred steps apart at which its BFS stops (internal/context/knowledge/traversal.go:240);
otherwise its answer depends on the node the map gives first, and components overlap. FindCycles finds a cycle if there is one, and not every cycle.

Orders. A batch holds the tasks whose dependencies are in earlier batches; tasks
on cycles, and all that wait for a missing task, are in none. No task is in two
batches. This is true of tasks that were added once, with all they wait for, and have
lost no edge (`Intact`). Add puts a task on the list of each dependency at every call
(O/dependency.go:33), a retry calls it again (O/scheduler.go:119, O/queue.go:87), and
ExecutionBatches takes one off the in-degree per entry (O/dependency.go:172): a task
with one dependency gets the in-degree -1 and is left out, and one with two may come
before the second. A task whose edges a later submission has removed (run `release`) is
left out as well. TopologicalOrder does not read these lists; it gives no order for a
graph with a cycle, and for every other graph a right one.

Planning. A plan that is accepted orders what depends on whom, with two
exceptions that `PlanIsOrdered` names: the parts of a sequential or pipeline task
forget what the task depends on (internal/core/task/decomposition.go:146), and a task that was
decomposed is no longer there to depend on, so plans that do are refused. The
critical path is always empty when timeouts are positive, so no task is ever
marked critical.

MCP. A caller gets its own answer as long as calls take turns, none gives up, and
neither side sends notifications besides "initialized"; the client takes the next
line for its answer whatever its id (internal/mcp/client/client.go:196). After one
disturbance the two sides stay out of step.

Provider cache. Eviction is by time of expiry, which for a constant time to live
is the time of storing (`lru`). The key of a request leaves out the system
prompt, stop sequences, tool choice and response format (cache.go:233), so two
requests that differ in these get each other's answers; no text in the repository
says what the key must hold.

Configuration. An edit is loaded in the end, also after a broken one, with one
exception: between a load and the Stat that follows it, the time of a newer file
is taken for the one that was loaded. That is so in Reload
(internal/config/manager.go:109) and in NewManager, between its load (line 60) and
startWatcher (line 238); `missed` marks such an edit. Close before
the watcher's goroutine has started makes it read a nil watcher and panic
(manager.go:251).

REST server. The fields that a handler answers after it changed a record are those of
its change; the Config in the answer of an update is its own or a later one
(`ChangesAreWhole`). Later it may be: all answers for agents hold the Config map of
the record (internal/server/rest/handlers.go:262), which respondJSON encodes without
the lock. If handleUpdateAgent writes into it (line 250) before that, the earlier answer
shows a later change; if it writes at the same time, the runtime ends the program
(`mapFault`). ARCHITECTURE.md:417 says that such accesses were fixed.
The handlers that only read are not so careful as handoff.md:28 says of the others:
handleGet* and handleCreate* read the record after the unlock (handlers.go:203), so
that an answer can show half of a change.
Every request is answered, also one that waits for
the lock that Stop holds: Stop takes `s.mu` and keeps it while Shutdown waits
(internal/server/rest/server.go:336), so such a request waits for Stop and Stop for
it until the 30 s are over, and what cmd/swarm/internal/serve.go:217 calls a graceful
shutdown ends with an error.

Rate limiter. A client has one burst. A request that has looked its limiter up just
before Cleanup takes it out of the map goes on with it, and the next one gets
another.

Login sessions. The two maps agree as long as a user may have two sessions. With
MaxSessionsPerUser 1 they do not: CreateSession looks the user's set up, evicts the
only session, with which deleteSessionLocked drops the set, and enters the new id in
the dropped set (internal/security/auth/session.go:115), so that GetUserSessions,
which should return "all active sessions" (line 185), does not list it and
DeleteUserSessions leaves it.

Skill loader. Calls return, and a running process is the one its instance knows,
with two exceptions that the properties name. Initialize does not look whether the
instance has a process, and Load gives the same instance to every caller: the second
Initialize replaces the first process, which nobody can stop any more
(internal/skills/loader/process.go:57). And when the initialize request fails,
Initialize calls Shutdown while it holds the lock that Shutdown takes (process.go:105):
the caller waits for ever, Unload of that skill waits for it with the lock of the
loader held, and so does every later Load and Unload of any skill, against "Load/unload
without restart" (ARCHITECTURE.md:183). Outside the model, ensureVenv takes a
virtual environment that was interrupted half way for a whole one
(python_loader.go:78).

Skill registry. Two registries that discover each other hold their locks while each
waits for the other; the timeout of the HTTP client ends it. What comes back is not
what was asked for: handleList answers flat entries (api.go:277), which
RegistryDiscovery decodes as manifests with metadata and spec (discovery.go:134):
every manifest found is blank, with the id "@", and the first of them is registered.

No run is kept for the disagreements for which none is named. Each was seen as a counterexample of TLC on
the instances above, and stands as a comment at the property that excludes it or as a
step that leads to it.

## 5. Proofs

TLAPS checks them for all values of the constants under the assumptions
that the modules name (`QueueAssumption`, `AgentAssumption`, `PoolAssumption` and
so on), which TLC evaluates in the runs of these modules.

Agents (in `Orchestrator_proofs`). The invariant says that the statuses have their types and
that the two copies agree: every method moves both in one critical section. The
request count needs cardinalities: entering a call adds one element to the set
of calls in flight, leaving removes one. An entry needs the state `ready`, and
an agent with calls in flight becomes ready by the exit of one of them, which
lowers the count, or by a Resume, which is counted.

`Orchestrator_proofs`. `DependencyOrder` and `SingleDispatch` are not
inductive. The invariant `IInv` adds to the types:

* `Linked`: the dependencies in the graph are those of the task record, so that
  the readiness test reads the right set;
* `StatusSound`: a task whose status is completed is in `completed`, so that
  readiness means what it says;
* `AcceptedOnly`: a task that waits in the heap or runs was accepted, so no
  step of a caller changes its status or its dependencies any more;
* `OneHolder`: a task in the heap has no executor that is still to report, and
  otherwise at most one has it, and blocked tasks have neither, so a task that
  is released is not yet in the heap.

There is a lemma for each kind of step (submission, pass, dispatch, completion,
failure, cascade, requeue, cleanup, agent) and the theorem
`InductiveInvariant`, from which `DependenciesComeFirst`, `DispatchedOnce` and
`OrchestratorTyped` follow. TLC has checked the invariant before it was proved.

The other safety properties of the orchestrator rest on `IInv`:

* `LoadInv`: `LoadIsExact`, and the executors of an agent are finite in number, so
  that starting or ending one moves their cardinality by one (`LoadAlwaysExact`).
* `BooksInv` makes `BooksAgree` inductive (`BooksAlwaysAgree`). `GraphBooks`: the
  reverse edges of the graph are dependencies, and accepted tasks stay in it.
  `CompletedFinal`: a completed task was accepted and is not failed, running or in
  the heap. `FailedFinal`: a failed task is not running nor in the heap, and either
  failed itself or needs one that did, so that it never becomes ready.
  `RunningSound`: a running task has the executor that owns it, or is back in the
  heap.
* `BlockedHasReason` is inductive on top of these: only the Add of a task gives it
  edges, and what takes a reason away (the completion of the last dependency)
  releases the task in the same step (`BlockedAlwaysHasReason`).
* The refinement (`LifecycleImplemented`): Enqueue is Accept, or a stutter when
  the task is doomed already; Assign is Dispatch, Requeue is Retry, Complete is
  Finish of the tasks it wakes, Fail is Fail, FailDependents is Doom or a
  stutter, and every other step is a stutter. It needs `OneHolder` (a task that
  completes or fails is active) and `StatusSound` (what is woken is ready).
* `AcceptedAcyclic` holds for one caller of SubmitTask (`OneCallerAcyclic`, under
  MaxSubmitters = 1), and for two it does not: run `cycle` shows each check
  running while the other task is out of the graph. `TrialInv` says that one task at a time is on trial (`OneTrial`: the caller's, or a
  subtask of it) and that the tasks which passed the check have no cycle
  (`CheckedAcyclic`): the check searches a graph that has all of them, so that a cycle
  through the new task would be found.

`Planning_proofs`. A schedule is computed by one call, on a graph of any size, so
`SchedulesAlwaysFollow` is about what two algorithms return.
ExecutionBatches is a loop. Its invariant, `BatchesOK`, says that the batches and
inDegree share the tasks out, each to one place, and, for any set of intact tasks
(`Kept`), that inDegree counts what a task still waits for and that a task is in the
first batch after all it depends on. What a round takes off is a sum over the reverse
lists, which for an intact task is the number of its dependencies in the batch
(`NamedOnce`, by induction over the batch); all that an intact task waits for is intact,
so nothing else is needed about the others. A batch number is then the length of
the longest chain of dependencies from the task, and a task that is left when the loop
stops has a chain that leads to a task nobody added, or is longer than the graph and so
goes round a cycle.
TopologicalOrder is a depth-first search. `Contract` is what a call of visit promises
when a given number of calls may nest in it, by induction on that number: the order
lists each visited task once, after all it depends on, or there is a loop (`Sound`);
temp holds the tasks of the calls that are open, each of which depends on the next
(`Open`), so when visit meets a task of temp, temp itself is a loop; and a call that
does not give up leaves temp as it was (`Visited`). The open calls are of different
tasks, so no more of them nest than there are ids. A loop and a chain of dependencies
longer than the graph are the same thing, which is how the property says it.

`PlansAlwaysOrdered` is about one call of Plan, for any request, number of parts and
MaxDepth. It rests on two facts about Decompose. The ids of what a task is decomposed into
begin with the id of the task and are longer, unless it is the task itself (`Below`, by
induction on the depth). And, if the task is not made of steps, all of them wait for what
the task waits for, directly or through one that does (`Covered`: the reduce task of a map
waits for the maps). So the first number of an id tells for which task of the request a
planned task stands, the second for which step (`Family`), and a task planned under its
own id stands there alone (`Alone`). AddTask and the check for cycles make ids unique
and dependencies earlier, hence lower (`AcceptedInOrder`, `LevelsRise`), and a task
that waits, directly or through another, is on a higher level (`CoveredComesLater`).

`Pools_proofs`. For the managed pool, `UseInv` (types, exclusion, and that a stopped agent still in
the pool has a scaler that is about to take it out) is inductive and gives
`PoolTypes`, `PoolExclusive` and `PoolWindow`. `BooksInv` says that each agent of the pool is either
free or busy, and that at most one scaler is about to take it out, so that each
step changes the cardinalities in
`GaugesAreExact` as it changes the gauges (`PoolGauges`). `SizeInv` counts: a
scaler under way to a smaller (larger) pool was let go when the pool was above
(below) the limit, so the pool is off its limit by at most the scalers under way
(`PoolSize`); for any number of scalers, users and agents. `PoolCounts` joins the two, as
the run does, and `AgentAccounts` does the same for an agent.

For the pool of the factory, `OnePlace` counts places. `PlaceInv` says the same pair by
pair: no agent twice on the channel, in two hands, with two senders, or in two
of these at once. Every step moves one agent from one place to another, and
`PairsToPlaces` turns the pairs into a cardinality of at most one.

`Messaging_proofs`. For the hub, `HubTablesHold` is two claims. `IndexAgrees` is inductive alone. `StopDisconnects` is not: `HubInv`
adds that a client whose unregistration is queued or under way is disconnected or
its read pump is about to disconnect it, and that a client whose registration the
hub has handled is listed, disconnected, or in that state.

For MCP, `ExchangeInv` says that, as long as nothing disturbed the
exchange, at most one caller waits, and that the only messages under way are its
request (or the response to it), in one place and once, and "initialized"
notifications, which nobody answers.

`Context_proofs`. For the context store, `OwnInv` says, for a key of one user, what each tier may hold
at each point of the user's calls: what a tier holds is what the user set last,
unless a Set or Delete is on its way down to it. Other users only evict.

For the knowledge graph, `EdgesHaveEnds` is inductive as it stands; the work is in
DeleteNode, which filters two structures by different conditions. ShortestPath is a
loop inside one operator, and `PathsAlwaysShortest` has an invariant of that loop,
`SearchOK`, kept by every turn (`VisitKeeps`): a visited node is no farther than one that
is not (`Levelled`), what a visited node leads to is no farther than by way of it
(`Relaxed`), and the nodes with a distance hang on a tree that prev describes, along which
a way costs the distance (`Treed`). Every turn visits a node or stops, so after as many
turns as there are ids the loop has ended, and then (`Enough`) either all that was reached
has been visited or the goal is as near as anything that has not. By induction along any
other path, it costs no less (`NoneIsCheaper`); and the way back, turn by turn, is the way
along the tree (`TraceFinds`), which passes no node twice. For sessions,
`DurableInv` follows an acknowledged message: while the session is stored it is in
memory, as such or in a summary; it is in what the background save has read,
together with the summaries the save reads next; and so it is in the file. The
lemmas about sequences (`CutSets`, `JoinSets`, `SummaryAppend`) say that a
compression loses none.

`Services_proofs`. For the state manager, `StateInv` says what Save, CreateCheckpoint and Load hold at
each point. What CreateCheckpoint has copied agrees with the live state while it
copies, since updates wait for the lock; the copy is then a moment, and the
temporary file holds that moment or nothing when it is renamed. For Start and Stop,
`ChannelsInv` says that the current channel is closed while the orchestrator runs
only if the Stop that closed it could not save, whence `PanicsOnlyAfterFailedSave`.

For the skill loader, `ReachInv` adds to `ProcessIsReachable` the types, that who is
in a call on an instance has one, and that a started process knows by which
instance. The locks are not needed: whoever replaces the process of an instance
marks the instance, or has told the process to end.

For the REST server, `ChangesAreWhole` needs to know what a handler that changes a
record reads while it has the lock: `WholeInv` says where each request may be and
that the one between the two halves of a change is alone there. For the Config,
`MergesInv` says that no record's is later than the last change, and that after a merge
it is that merge's or a later one until the answer is encoded.

For the rate limiter, `LimitInv` says that a limiter hands out as many tokens as it
lacks, whatever Cleanup does to the map, and that until Cleanup has removed one
the address has one limiter. The property counts over all limiters; the sum has one
term that is not zero.

For the logins, the order of the last accesses is total on the sessions, so among those of
a user there is a least one (`FirstUsed`, by induction over the sessions), and whoever
has as many as he may have loses one before he gets another.

In `Context_proofs` there are also the hot tier and the conversation. `HotInv`: the list
names the entries, each once, and the size is the sum over them. Putting an entry in
front of the list leaves a front of it, and evicts its back: the sums over both parts
make the sum over the whole, so the size that the eviction ends with is the size of what
it leaves. `ConversationWhole` is about the concatenation of the summaries and
the messages; `FlattenSeq` of a list with one more element is that of the list and then
the element, so that a compression moves a cut and loses nothing.

`Traversal_proofs`. The promises speak of balls, the nodes within so many steps; a ball
grows with every step until one adds nothing, so after as many steps as there are nodes
it is all that is in reach (`BallEnds`). For a walk from a node, `WalkInv` says that what was
found was reached in as many steps as it says (`Sound`, whatever is deleted), that what was
found and is not listed any more has all its neighbours found or was at the depth limit
(`Complete`), and for BFS that the list is in the order of the distances, from one to the
next (`Ordered`), so that no distance is too long (`Nearest`). When the list is empty, these
are the promises. For the components, being in reach is symmetric when every edge has its
opposite, so a new walk finds a new component and all of it; the hundred steps at which
FindConnectedComponents stops are a hypothesis. For FindCycles, `Chained` says that the
frames are a path along edges of the first graph, and `Untangled` that, if nothing was
deleted or reported, the edges of finished nodes lead to finished nodes, from which there is
no way back; when all nodes are finished there is no cycle.

`DataLemmas` has what these rest on. The induction theorems of the library take a
predicate as a parameter, which the provers here cannot instantiate. A *set* can be
instantiated: the naturals are well founded, so every set of them that is not empty has a
least element (`LeastNatural`), and from that follow induction for a set of numbers,
induction for a set of finite sets (a set that has the empty set and, with each member,
that member and one element more), and the existence of functions defined by recursion.
With these the folds of the community modules can be unfolded: sums over sets
(`SumFunctionOnSet`) with one element more or less and over disjoint parts, and
`FlattenSeq`, its elements too.

Every invariant of a passing run is a theorem. Only model-checked: the properties of
`GrpcStreams`,
`BufferedBroadcaster`, `ConfigManager`, `ProviderCache` and
`SkillRegistry`, which are liveness properties or are refuted by the code; the other
liveness properties and everything that rests on fairness; and `AcceptedAcyclic` for
more than one caller, where run `cycle` refutes it.

## 6. Plan

What is left, in order:

1. A log of messages as the abstract specification of `Session`.
2. An abstract pool that hands an agent to one user at a time, which `AgentPool`
   implements, and a map that `ContextStore` implements for the keys of one user.
3. Subscribers and Clear of the context store; the queue of the broadcast
   manager with full buffers; destruction of pool agents by others.
4. The streams of the model clients: a reader goroutine and the channel of its
   events; revocation of tokens beside their expiry.

## 7. Not modelled

* Generated code, rendering, command line wiring, REST routing and its
  documentation: they make up much more than half of the lines of the
  repository, and no behaviour is in them that a state machine would show. The
  unary gRPC handlers answer from fixed data. The configuration handlers of the
  REST server call Update and Save of the configuration, which is modelled.
* Built-in skills, tool connectors, MCP tool servers, the programs that skill
  processes run, the sandbox (no loader gives one to its skills), model clients:
  file, network and process operations and conversions of data.
* Verification, progress tracking and the bridge of internal/core/task, rag.go,
  validation and schema of the configuration: functions of data without a
  protocol.
* Failure recovery (O/recovery.go and ReassignTask): NewOrchestrator constructs it,
  and only tests call HandleTaskFailure, so no behaviour of the program reaches
  it. The recovery of sessions from checkpoints has no caller either.
* Tokens, roles and policies of internal/security: functions of data and tables
  behind one lock.
