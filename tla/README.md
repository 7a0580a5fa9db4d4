# Verification of the Blockchain Benchmark Project

The Blockchain Benchmark Project (BBP) runs real blockchain daemons (firod,
bitcoind, monerod) on one Linux host, each in its own cgroup and network
namespace, and lets an operator change the running fleet from an ncurses TUI,
from a scenario, or over a local MCP (HTTP) server. This directory holds TLA+
models of its concurrent core, the TLC configurations that check them, and
TLAPS proofs about them. `PROJECT.json` maps every modelling definition to the
lines it stands for, lists the components, the hazards with the properties that
cover them, the runs, a mutant for each property, and the theorems.

Sources are named relative to `src/src` unless they begin with `src/`.

## 1. Inventory

### Parts, state, operations

| Part | Source | State it keeps | Operations |
|---|---|---|---|
| Command queue, control, processor, handlers | `simulation_command_queue.cpp`, `simulation_command_processor.cpp`, `simulator_live_command_execution.cpp`, `src/include/bbp/simulation_command.h` | bounded FIFO, sequence counter; per command one atomic phase and a stop source; the command in hand, the node mutation lock | push, pop, close, cancel; TryBeginCommit, MarkCommitted; one handler branch per kind; outcome classification and publication |
| MCP live application, run loop | `mcp_live_application.cpp`, `simulator_app.cpp`, `simulator_editor_application.cpp` | correlation table, lent services, views, marks of a run's life, number of requests inside | launch, install services, mark started, stopping and stopped, lease, stop, reap, shut down |
| MCP operation service | `mcp_operation_service.cpp` | sessions, operations, subscriptions, notification queue, worker threads, shutdown phase | RegisterSession, RemoveSession, ExecuteSessionRequest, Submit, CancelOperation, Publish, DrainNotifications, Shutdown |
| MCP protocol, dispatcher, endpoint, server | `mcp_protocol.cpp`, `mcp_dispatcher.cpp`, `mcp_endpoint.cpp`, `mcp_server.cpp` | HTTP sessions, replay buffers, streams, connections, credential files | initialize, request, stream, delete, expiry, clean up, start, stop |
| Runtime node addition, removal, replacement | `simulator_runtime_node_*.cpp`, `runtime_node_inventory.cpp`, `runtime_node_resource_manifest.cpp`, `runtime_capacity_persistence.cpp` | versioned snapshots, durable manifest, node roots, candidate resources | reserve, prepare, start, publish, drain, retire, roll back |
| Node lifecycle | `simulator_runtime_node_restart/stop/freeze.cpp`, `simulator_live_lifecycle_supervisor.cpp` | process state, paused miners, declared start and stop times | start, stop, restart, kill, freeze, thaw, signal, supervise |
| Peer connectivity | `peer_connectivity_controller.cpp`, `runtime_peer_topology.cpp`, `simulator_topology_edge_workload.cpp` | edges, sessions, allowed peers, policy bands | connect, disconnect, enforce, restore |
| Roles | `simulator_live_{wallet,miner,masternode}_*.cpp`, `runtime_wallet_registry.cpp`, `probabilistic_block_scheduler.cpp` | wallets, miners, masternodes; in-flight blocks | the seven role operations, block production |
| Live workloads | `simulator_live_*_workload*.cpp`, `*_control.cpp` | workload records, threads | launch, pause, resume, reconfigure, stop, shut down |
| Transaction load | `transaction_load.cpp`, `wallet_transaction_plan.cpp`, `transaction_observation_store.cpp` | ledger, queue, observations, milestones | plan, submit, settle, observe, end |
| Instrumentation | `simulator_live_instrumentation_controller.cpp`, `perf_counter.cpp` | windows, lent counters, retained history document | start, reconfigure, sample, stop, write and read back |
| Run ownership and recovery | `run_ownership.cpp`, `application_instance_lock.cpp`, `simulator_managed_run_root.cpp`, `simulator_startup_recovery.cpp`, `simulator_offline_run_cleanup.cpp` | lock file, ownership markers, activity record, receipts | claim, release, recover, quarantine, clean |
| Report, evidence, artifacts | `run_report.cpp`, `mcp_run_evidence.cpp`, `node_artifact_inventory.cpp` | replayed totals, cursors, listings | refresh, page, follow, list, read chunks |
| Host resources | `cgroup.cpp`, `network.cpp` | kernel objects, scope state file, interface identities | prepare, restore, pair, alias, apply policies, probe |
| RPC client | `http_client.cpp` | slots, idle connections, authentication | acquire, send, retry, return |
| Scenario decoding, schema, drivers, views, TUI rendering | `*_decoding.cpp`, `mcp_schema.cpp`, `drivers/`, `tui*.cpp` | presentation and parsing | - |

### How they interact

A change to the fleet is a `SimulationCommand`. The TUI and the schedule push
it; an MCP tool call submits an *operation*, whose worker thread pushes the
command, enters it in the correlation table and waits. The single processor
thread pops commands in order, runs the handler under the node mutation lock,
and passes the outcome to `RecordCommandOutcome`, which publishes it as evidence
and wakes the waiter. The operation then ends, its session is notified through
the service's queue, and the record stays in a bounded history. Role operations,
instrumentation windows and the lifecycle supervisor take the node mutation lock
on threads of their own; readers (metrics, observers, counters) lease inventory
generations without it. Stopping a run closes the queue, answers what is left in
it and joins the processor; closing the endpoint removes sessions, cancels
operations and joins workers. Everything that must survive the process is in
files: the node resource manifest, the node roots with their markers, the run
roots with theirs, the cgroup scope's state file, the event and metric files.

### What is hard

*Concurrency*: cancellation against commit; publication against correlation;
delivery of notifications outside the lock; shutdown against everything.
*Failure*: a handler that fails after its mutation took effect; a rollback one
of whose steps fails; a notification handler that throws. *Time*: command
deadlines, removal timeouts and retries, expiry against use. *Crashes*: between
a resource and its record, in either order, also while a cleanup repairs an
earlier crash. *Files*: read page by page while another thread appends, replaces
and removes them. `PROJECT.json` lists the hazards with their lines.

### What makes each part correct

* Commands: one outcome per admitted command, in order; a definite outcome is
  true of the fleet for ever; a change of the fleet in doubt is reported unconfirmed
  and stops the run.
* Operation service, sessions, endpoint: updates are neither lost nor reordered;
  records are evicted only after their last update was taken; sessions,
  connections and the service go away without leaving work behind, and do go
  away.
* Node mutations: every acquired resource is listed in a durable manifest first;
  published inventory and manifest agree; a verified rollback leaves nothing; a
  reader's nodes outlive its lease; what a crash leaves can be cleaned.
* Lifecycle, peers, roles, workloads, windows: the record of a node agrees with
  the node; a refused operation leaves no trace; what was borrowed (counters,
  wallets, miners) is given back; commands and shutdown end.
* Run roots and host: at most one owner; recovery never touches a run that is
  alive; the last run to leave puts the host back.
* Report, evidence, artifacts, history: each record is seen once, "complete"
  means complete, and what was written can be read back.

## 2. Modules

Each component module declares its state, `XInit`, one action per step another
thread can observe, `XNext`, and its properties, ending in one conjunction
`XCorrect` that a run checks. Names follow the source.

| Module | Models |
|---|---|
| `CommandPipeline` | queue, control, processor, handler, outcome publication, MCP submission and waiting, stop |
| `CommandContract` | what submitting a command promises, with no thread in sight |
| `OperationService` | the MCP operation service |
| `McpSessions` | registration, initialization, expiry, deletion and cleanup of sessions |
| `McpRequests` | which message of a session is served, event streams with their replay, pages of the tool list |
| `McpEndpoint` | credential files, accept thread, workers, connection queue, start, stop, kill |
| `LiveApplication` | a managed run as its owners see it: launch, services, views, marks, stop, reaping |
| `NodeMutation` | node addition and removal with inventory, manifest and node roots, rollbacks, crashes, offline cleanup |
| `NodeReplacement` | the exchange of a node for a clone, its commit and the steps of its rollback |
| `NodeLifecycle` | one node's daemon: commands, supervisor, declared times, block producers |
| `PeerConnectivity` | edges and sessions, the mutation thread and the enforcement thread |
| `RoleOperations` | role operations, the registry and the block scheduler with its thread |
| `LiveWorkloads` | four kinds of workload, their controls, threads and shutdown |
| `TransactionLoad` | producer, ledger, queue, submitters, observation, end of a load |
| `Instrumentation` | windows, their worker, counters they borrow, commands, shutdown |
| `RetainedHistory` | the instrumentation history document, within its bounds, written and read back |
| `RunReport` | the incremental replay of a run's files |
| `EvidencePages` | paged queries with cursors over growing files |
| `ArtifactScans` | listings and chunked reads of a tree that changes |
| `RunRoots` | run directories over several processes: launch, activity record, recovery, quarantine, receipts |
| `CgroupScope` | the cgroup hierarchy all simulators share |
| `NodeNetwork` | a node's namespace, veth pair, identities, policies, probes |
| `RpcClient` | slots, idle connections, authentication, deadlines, cancellation |
| `CommandPipelineProofs` | proofs about the command pipeline (section 4) |
| `NodeMutationProofs` | proofs about node mutations (section 4) |
| `WorkloadProofs` | proofs about live workloads (section 4) |
| `OperationServiceProofs` | proofs about the operation service (section 4) |
| `RpcProofs` | proofs about the RPC client (section 4) |
| `SessionProofs` | proofs about MCP sessions (section 4) |
| `EndpointProofs` | proofs about the MCP endpoint and its server (section 4) |
| `ScopeProofs` | proofs about the shared cgroup scope (section 4) |
| `MC*` | instances for TLC |

The `MC` modules for the smaller components extend several of them and add a
variable `part`: a behaviour runs one component while the others stay in an
initial state, so one TLC run checks each by itself. Components that really
interact are one module (the command pipeline with the application's correlation
table; the role operations with the scheduler; the mutations with inventory,
manifest and cleanup). Where the interesting bounds exclude each other a constant
is a set of *budgets* (`ServiceBudgets`, `PeerBudgets`, `RoleBudgets`,
`ReportBudgets`, `LiveBudgets`, setups) and `Init` chooses one of them.

The `map` of `PROJECT.json` names, for each stretch of code, the definition that
stands for it. A helper or a step whose lines lie wholly inside those of another
listed definition has no row of its own.

### CommandPipeline and CommandContract

Commands are model values; `Kind` gives each the class of handler it runs:
`node` (add, replace, remove), `target`, `signal`, `resource`, `role`,
`unlocked`, `plain`. The classes differ in whether they carry a
`SimulationCommandControl` when submitted locally, whether they have a commit
point, whether the application's shutdown cancels them, and whether the waiter
owns their result once admitted.

One action is one access another thread can observe. `RequestCancellation` is
the compare-exchange; the `request_stop` that follows it is a separate step
(`RequestStop`), so that a cancelled phase with a clear token is a reachable
state. `SubmitCommand` pushes under the application's mutex and
`SubmitCorrelated` inserts the entry, because the processor may run between the
two. A handler is `BeginCommand`, then one of `HandlerCancelled`,
`HandlerFails`, `HandlerUnverified`, or `TryBeginCommit`, `Publish`
(or `WriteFails`), `MarkCommitted`, `EvidenceFails` or `CompletionEvent`;
`Classify`, `ValidateOutcome` and `ReportOutcome` are the rest of `Run` and the
outcome handler. `StopCommandProcessor`, `CancelDrained`, `JoinProcessor`,
`ReportDrained` and `StopReturns` are `Stop`. `RoleServiceMutates` is a role
mutation of the MCP service on another thread. `published` is the authoritative
effect, `generation` and `base` the inventory generations the outcome is checked
against.

`CommandContract` has four actions, Admit, TakeEffect, Resolve and Tell.
`CommandPipeline` implements it under the mapping `status <- Status`,
`effect <- published`, `told <- result` (`ImplementsContract`).

### OperationService

Threads are the workers (named by their operation), the requests, the threads
removing a session (named by the session), the shutdown thread and the
publisher of evidence. Every critical section of `Impl::mutex` is one action;
`request_stop`, the notification handler and `join` are actions of their own.
`slot` and `order` are `pending_notifications` (one entry per key), `inflight`
is the local copy of a draining thread, `heard` is a ghost that records what the
handler took. Where several operations are cancelled in one section their order
is arbitrary, as the iteration order over random identifiers is. A removal that
wakes up after shutdown cleared the sessions uses a reference to a destroyed
record (`mcp_operation_service.cpp:1389`); `SessionLost` allows both outcomes
for the pending notification.

### NodeMutation and NodeReplacement

What `CommandPipeline` treats as one step, the handlers
`AddRuntimeNodesTransactional` and `RemoveRuntimeNodesTransactional`, step by
step. `pc` is the step of the one handler that runs (the node mutation lock
admits no other), `tx` holds its locals: the ids, what was acquired, flagged,
registered and verified, whether the rollback met an error, and the failure to
rethrow. Durable state is `manifest` (listed node to `live`, `pendingAdd` or
`pendingRemove`), `roots` and `marked` (node roots, and those that hold their
ownership marker), the staged event file and the capacity documents. `support`
stands for the process, cgroup and namespace of a node, `drift` for changes of
surviving nodes' policies and peers that are not (yet) part of the published
topology, `chain` for masternode registrations. `gens` is the history of
published generations and `held` the generation each reader leases.

Every step that touches the host or the disk may throw, at the cost of one of
`MaxFaults` failures, or because the command was cancelled; a manifest write
that throws may or may not have replaced the file. `Revoke` to `Settle` are the
rollback, in which every step runs whatever the others could do.
`UnlinkMarker` and `RemoveDirectory` are `RemoveRuntimeNodeRoot`, shared by the
rollback, the removal and the cleanup. `Crash` ends the process between any two
steps; `Cleanup` to `Rewrite` are `CleanupRun`, which may fail, be killed and be
called again. Several candidates are prepared one at a time but started,
connected, registered and stopped in one step each, with any part of them done
when the step throws: no other thread looks at an unpublished candidate.

`NodeReplacement` has the calls of `ReplaceRuntimeNodeTransactional` that can
throw as its steps; either daemon may exit, and the operation may be cancelled,
between any two. Limits, network condition and daemon are "recorded" (what the
inventory names) or "other".

### What the other models leave open

* `NodeLifecycle`: five corners are modelled as the code has them and no
  property denies them. A restart whose thaw fails, or whose SIGKILL leaves a
  survivor, ends in `Restarting`; a restart cancelled after the declarative stop
  restores `Running`, and the supervisor ends the run; the check of the stop time
  in `ApplyDeclarativeStopDuringStart` may come too early and leave `Starting`; a
  failed freeze leaves the cgroup frozen with the miner revived; a kill or stop
  refused because the node is dead erases its pause mark.
* `PeerConnectivity`: the all-peers policy is not recomputed by
  `SetAllowedPeers`; suppression is per direction; a rolled-back activation can
  leave a session without an edge. Registration of new nodes is not modelled.
* `TransactionLoad`: a submission that timed out has taken effect by then or
  never does.
* `RunReport`: texts and times are left out; a summary is the position of its
  event. An addition publishes under the publication lock; a removal commits under
  it, releases it, and cleans up, settles the manifest and writes its events
  without it. Collectors and the command handler write of a node from snapshots
  they took earlier, so a removed node can come back into the report with what is
  written of it since; `ShownInventoryIsConsistent` says that it comes with nothing
  of its former life. While the publication of a removal is owed or lost, such a
  node is left out of the comparison with the rebuilt report.
* `McpRequests`: a call is *checked*, *registered*, *dispatched* and *finished* in
  steps of its own (`HandlePost`), between which it may be cancelled, its session
  be deleted or its transport stop. It is answered with a result, with an error,
  with 404 if the session went before its registration, or, if a stop was accepted
  before it completed, with 202 and no body.
* `LiveWorkloads`: the node mutation mutex is held by a node mutation, by a launch
  and by the worker of a block workload. A removal or replacement asks for active
  workloads of every kind and for observed transactions; an addition asks for none.
* `LiveApplication`: a command is a request of one of two kinds; a role command is
  executed by the processor with a copy of the role service, which counts as a user
  whether its request still waits or not. A signal or lifecycle command that lacks
  its evidence is answered `node_outcome_unconfirmed` while the run goes on
  (`DeliveryOmitted`). The host stops a run through `StopRun`; `RequestActiveRunStop`
  has no caller. A set-up that fails removes the run root, or leaves it when that
  fails too.
* `NodeReplacement`: a file whose close throws and a scope whose creation and own
  cleanup both fail stay behind without a mark in the transaction, which nothing
  removes; `LeftoversStopTheRun` speaks of what the transaction has a mark of.
* `Instrumentation`: the conflict test for commands also keeps a lent node from
  being removed; no node is removed here.

## 3. Runs

| Run | Components | Shows |
|---|---|---|
| `pipeline_mutations` | CommandPipeline | A node addition awaited over MCP with a deadline, and an operator's role change, in a queue of one place, against cancellation, commit, deadline, role mutations and shutdown: no publication after an accepted cancellation, true outcomes and answers, one outcome each, in order, a committed success recorded as one; the pipeline implements `CommandContract`. |
| `pipeline_progress` | CommandPipeline | A resource change over MCP and an operator's kill: admitted commands are answered, waiters return and release their entry, an unconfirmed outcome stops the run. |
| `operation_delivery` | OperationService | Updates are neither lost nor reordered, none is stranded in a queue nobody drains, a removed session is quiet; cancellation, removal and shutdown end. |
| `host_and_history` | CgroupScope, NodeNetwork, RunRoots, RetainedHistory, OperationService | Safety only, with larger bounds: what runs take from the host is given back, an interface of another program is never deleted (`ForeignIsKept`), run roots survive crashes and stay recoverable, the history document can always be read back, and eviction comes after the last update was taken. |
| `mcp_transport` | McpEndpoint, McpSessions, McpRequests | What a stop leaves, which credentials survive, that no session is lost between protocol and service, streams lose nothing uncounted, an answer fits what became of its call, a session that ends stops its calls, and that connections, stops, expiries and deletions end. |
| `run_records` | NodeMutation, NodeReplacement, RunReport, ArtifactScans, EvidencePages | Every resource is listed, published nodes keep their roots, a definite outcome leaves inventory, manifest and host in agreement, cleanup is refused only for a reason the model names and is complete when it succeeds; outcomes of mutations and replacements are true; the report equals the one rebuilt from the files; every line is paged exactly once; mutations, replacements, replays and queries end. |
| `node_control` | NodeLifecycle, PeerConnectivity, RoleOperations | The records agree with the node, refused operations leave no trace, no miner is lost, removed edges stay disconnected; exits are handled, stop times applied, commands answered, policies enforced. |
| `live_work` | LiveWorkloads, TransactionLoad, Instrumentation | Work is accounted for, nothing is overdrawn, counters are given back, ended work stays ended; stops are honoured and shutdown completes. |
| `application` | LiveApplication, RpcClient | No service is used after it is gone, marks are set once, an unconfirmed change of nodes or roles stops the run; slots are conserved and each caller gets its own answer; stops end, answer everyone and release the run. |
| `startup_stop`, `mutation_leases`, `miner_removed_under_block` | CommandPipeline, NodeMutation, RoleOperations | Violations: the findings below. |

Each property has a mutant in `PROJECT.json`: a plausible bug in the code under
which the property fails in the same run.

### Findings

`startup_stop`: `stop_command_processor` answers the queued commands itself only
if the processor object does not exist (`simulator_app.cpp:1092`). If it exists
but `Start` was not reached, `SimulationCommandProcessor::Stop` returns at once.
A TUI command admitted after the run left its starting state then gets no
outcome, while `mcp_live_application.cpp:3558` says of such commands that "their
shared authoritative outcomes are still public evidence".

`mutation_leases`: `ReadersDrained` (`runtime_node_inventory.cpp:406`) waits for
the readers of the generation that the removal replaced. A reader that took its
snapshot before an earlier addition leases an older generation with the same
`NodeRuntime` objects; the removal moves them out under it
(`simulator_runtime_node_removal.cpp:572`), while
`src/include/bbp/runtime_node_inventory.h:107` says "NodeRuntime objects never
move after publication; each snapshot leases its complete generation". The
periodic metrics collector is such a reader. `LeaseHonoured` is what does hold.

`miner_removed_under_block`: the scheduler's thread clears
`in_flight_miners_[selected_index]` (`probabilistic_block_scheduler.cpp:381`)
with the index it drew before the production handler ran, and
`PrepareRemoveMiners` waits only for the miners it removes. If a miner with a
smaller index goes meanwhile, the mark of the wrong miner is cleared and a later
`StopMiner` waits for ever with the node mutation lock held; the unit test
`stop_miner_waits_for_in_flight_block` expects it to return.

### Behaviours that are modelled and that no property denies

These are reachable in the models; no document of the repository contradicts
them clearly enough for a finding, and the properties are stated so that they
say what holds beside them.

* A policy update fails and its restoration fails too
  (`network.cpp:3872`): the node is not flagged, the rollback skips it, and the
  command ends in a definite failure with mixed policies. `SettledIsConsistent`
  excepts this `mixed` drift.
* A run killed between a node root and its marker is refused by the offline
  cleanup as a whole (`runtime_node_resource_manifest.cpp:1388`).
  `RefusalIsExplained` names this and one rarer way to a refusal: the live
  manifest was written, the commit did not happen, the reservation could not be
  restored, the rollback removed the root and could not rewrite the manifest.
* A replacement cancelled after the stop RPC
  (`simulator_runtime_node_replacement.cpp:888`).
* A second pause of a paused workload
  (`simulator_live_wallet_workload_control.cpp:251`), and `count_reached` after a
  cancelled transfer
  (`simulator_wallet_transaction_workload_execution.cpp:849`).
* A subscription that outlives its run's end (`mcp_dispatcher.cpp:338`); a stop of
  the endpoint that leaves one request undrained (`mcp_endpoint.cpp:471`).
* A garbled line after a failed append (`mcp_run_evidence.cpp:203`); chunks of an
  artifact that mix two versions of the file (`mcp_live_application.cpp:2257`).
* A lost wake-up of the RPC client's pool that a timeout repairs
  (`http_client.cpp:673`) and abandoned requests that are not counted (`:615`).
* A resource limit that is applied and committed when the completion event cannot
  be written (`simulator_live_command_execution.cpp:1296`), and a kill cancelled
  after SIGKILL (`:687`): both end unconfirmed.
* Totals of the report that depend on the order of two files
  (`run_report.cpp:2975`, `:2980`, `:4145`).

### Bounds

* Pipeline: two commands per run. Every hazard is between one command and the
  next, its waiter, or the stop. Queue and correlation capacity 1 force
  contention; `MaxForeign` bounds role mutations of the service.
* Operation service: one session and two calls. `MaxRetained = 1` forces an
  eviction on the second submission (`host_and_history`). The budgets of
  `operation_delivery` give progress, failures of the handler, evidence, removal
  with a timeout and a retry, and a second caller in the combinations that meet.
* Node mutations: three nodes, so that a node stays while two candidates have
  different fates; one failure anywhere plus a crash; two generations (three in
  `mutation_leases`). The proofs of section 4 cover any number of each.
* Replacement: two replacements with two failures. Report and evidence: one to
  three lines per file, which is enough to cut a page or a batch between any two
  of them and to replace the file in between. Artifacts: one scan with two changes
  of the tree or three scans with one, and files of two chunks, so that a file is
  replaced between two chunks.
* Lifecycle: one node, two commands, one failure. Peers: three nodes, the smallest
  number where a policy band can be met in two ways. Roles: four nodes, up to
  three requests.
* Workloads: one with three controls (`MaxControls`), so that it is paused, resumed
  and stopped, or two with two (`MaxJointControls`), so that two operations race;
  loads of one to three transactions on one or two threads, each with one failure
  or request, two of them with two, so that a pause is lifted; two windows on two
  nodes with two calls, or three (`MaxQuietCalls`) without commands and failures,
  so that one window is started, reconfigured and stopped.
* Sessions: three in a table of two, so that one waits for a slot. Endpoint: two
  connections on one worker with a queue of one.
* Run roots: two directories over three process starts with one crash and one
  failure. Cgroup scope: two simulators, three runs (one orphaned, one that dies
  over it, one refused because of it), a failing call and two crashes, on a host
  with and without the directory. Network: interface indexes up to 3, two
  failures.
* Application: sixteen scenarios of two requests. Requests: two calls at a time in
  one session, or its streams. RPC: two callers on one or two
  slots.

Symmetry is not used: identities of nodes, sessions and calls appear in `CHOOSE`
and in liveness.

### Fairness

* Pipeline: the processor, the stopper, the start of the processor and the
  waiters are threads that run whenever they can; a host that was asked to stop
  stops. Nothing is assumed of clients or deadlines.
* Service: threads run, the notification handler returns, an executor or tool
  call *whose token was stopped* ends, a condition whose predicate stays true is
  noticed. Executors that were not asked to stop may run for ever, and nobody
  has to remove a session or shut down.
* Endpoint and sessions: threads are scheduled; a request ends, by its timeout if
  by nothing else. Nothing makes a client move.
* Node mutations and replacement: the thread of the handler runs, a daemon told to
  exit exits. Readers may keep their leases. Report: a frontend refreshes again
  and again, a thread that has begun a line completes it. Evidence: a client that
  was told there is more asks for it.
* Lifecycle: the thread that holds the lock runs, the supervisor gets the lock
  again and again, a killed daemon exits, a block in production is finished.
  Peers: the enforcement thread runs, RPCs have timeouts. Roles: as the lifecycle.
* Workloads, loads and windows: their threads run; a call to a node ends by its
  timeout.
* Application: the simulator's thread and the marks go on, a callback ends once
  it is asked to, a role command by its deadline; nothing makes a simulation end by
  itself. RPC: threads run and
  clocks advance; nothing is expected of the node.

## 4. Proofs

`tlapm` checks every theorem and lemma from nothing, in less than half an hour. The
theorems hold for every value of the constants under these assumptions, which TLC
evaluates in the runs as well: `CommandsAssumption` (every command has a kind
and an origin), `BoundsAssumption` (the queue and the correlation table have at
least one place, the bounds are naturals), `NodeMutationAssumption` (the initial
nodes are nodes; the bounds on generations and failures are naturals, so any
number of them is covered), `ServiceAssumption` (a request belongs to a session,
there are finitely many operations, threads have different names, the service
may retain, run and admit at least one, budgets are naturals; any number of
sessions and requests), `RpcAssumption` (finitely many calls, an endpoint with at
least one slot, naturals for the node's faults and stops, a name for "no socket"
that no socket has), `SessionBounds` (a name for "no session" that no session has,
at least one slot, a natural number of calls; any sessions and requests),
`EndpointBounds` (finitely many workers and at least one, a queue with at least one
place, naturals for faults, launches and replaced files, no connection called like
a state of a worker; any connections), `ScopeAssumption` (names for "no run" and "no
simulator" that none has, naturals for failures and crashes; any runs, simulators
and hosts). The theorems about live workloads need none.

Each inductive invariant was first checked by TLC on the instances of section 3,
then proved: it holds initially, every step keeps it, it implies the property.

### Command pipeline

| Theorem | States | Argument |
|---|---|---|
| `TypeCorrect` | `Spec => []TypeOK` | One step per action; the footprint lemmas say which parts an action leaves alone. |
| `CancellationExcludesCommit` | `Spec => []CancelledIsNeverPublished` | `CommitExclusion`: what is published has begun its commit, and the command between `TryBeginCommit` and `MarkCommitted` owns the phase `kCommitStarted`. Most actions are a `QuietStep` (phases leave `kOpen` only, no commit begins); the three that commit are proved apart. |
| `AnswersKeepOrder` | `Spec => []AnsweredInOrder` | `PlaceInv`: the answered commands, the one in hand, the queue and the drained rest are one ascending line of sequence numbers. |
| `OneOutcomeForEach` | `Spec => []OneOutcomeEach` | `PlaceInv` (a command is in one place of that line) and `CorrelationInv` (an entry of the table belongs to one waiter and holds what was recorded). |
| `OutcomesAreTrue`, `AnswersAreTrue` | definite outcomes and answers agree with `published` | `EffectInv`: at each step of the processor, what the classification will say about the command in hand is what happened to it. |
| `CommittedIsRecorded` | `Spec => []CommittedSuccessIsRecorded` | `GenerationInv`: while a node mutation is between its commit and its validation, the generation it committed is the current one, because nobody else may take the node mutation lock. |
| `PipelineImplementsContract` | `Spec => ImplementsContract` | Under the refinement mapping every action is `Admit`, `TakeEffect`, `Resolve`, `Tell` or a stutter; the guards of the contract's actions come from the invariants above. |

### Node mutations

`NothingIsUnlisted`, `MutationsAreCorrect` and `OutcomesAreHonest` state
`[]ResourcesAreListed`, `[]MutationCorrect` and `OutcomeIsTrue` of `MutationSpec`.
None of the properties is inductive: each speaks of the published inventory or
of a settled run and says nothing about the middle of a handler, where the
manifest, the roots, the processes, the registrations and the policies disagree
on purpose. `MutationInv` adds, for each stretch of a handler, which local
accounts for the disagreement:

* `Shape`: a handler is in one of five stretches (adding, recording, removing,
  retiring, cleaning up), and a published generation excludes a cancellation;
* `Candidates`, `CandidateRoots`, `CandidateSupport`, `CandidateEntries`,
  `CandidateTraces`, while nodes are added: a candidate is to come, in
  preparation or acquired; it is listed before it has a root; the rollback has
  removed what `tx.verified` says, and if no step of it failed, everything;
* `Leaving`, `Retired`: before its publication a removal has changed only the
  manifest, policies and peers; after it the nodes that left lose processes and
  roots, in that order, and keep their entries to the end;
* `Drifted`: what was changed on the nodes that stay is what `tx.flagged` and
  `tx.peers` will undo;
* `Cleaned`: the offline cleanup removes only roots of pending additions whose
  processes are gone;
* `History`, `Leases`, `LiveHasRoot`, at every step: ids are taken once; the nodes
  of the inventory run while the run does, only a run has readers, and those of
  the replaced generation are gone before it is retired; a live entry has its
  root unless the reservation could not be restored.

`StepKinds` assigns each step to the stretch of its handler. For each stretch
there is one lemma per part of the invariant, with one step per action.
`LeaseHonoured` covers the last two generations; for older ones the run `mutation_leases` shows
that the code does not keep the lease.

### Operation service

| Theorem | States |
|---|---|
| `ServiceInvariant` | `ServiceSpec => []ServiceInv`, the inductive invariant, `TypeOK` included |
| `HistoryIsCorrect` | `ServiceSpec => []ServiceHistoryCorrect`: slots in flight, eviction, counters, shutdown |
| `DeliveryIsCorrect` | `ServiceSpec => []ServiceDeliveryCorrect`: contents and bound of the queue, nobody stranded, removal |
| `DeliveryIsInOrder` | `ServiceSpec => HandlerHearsInOrder`, which the run `operation_delivery` checks within `ServiceProgress` |

The properties compare the queue, the records and the counters, and which thread
may touch which of them is not part of what they say: none of them is kept by a
step of an arbitrary state. `ServiceInv` adds:

* `Shape`: the places each kind of thread can be in, the phase of the service
  that goes with those of shutdown, and the state of an operation that goes with
  those of its worker;
* `Books`: `active` and `waiters` of a session are the numbers of its live
  operations and of its requests inside, and both exist only while it is
  registered. So `CompleteLocked` and `release_request` always find the session
  and a counter above zero;
* `Departed`, `Workers`: a worker that has not exited has its handle in its
  record or with a thread that will join it; a request or a removal takes only
  finished ones, shutdown takes all. A live operation is therefore held by its
  record, which needs `kRunning`, or by a shutdown that has not joined yet, and
  there is none when `FinalizeShutdown` runs;
* `QueueShape`, `OneDelivers`: one entry for each pending key, and one thread
  that delivers. An entry in the handler's hands is changed by that thread alone,
  except that a newer update may take its place;
* `Clocks`, `InHand`, `SessionQueue`: what was heard is what the record calls
  delivered and older than what is in hand, which is not newer than what is
  pending. Eviction asks for a delivered sequence not below the last one, hence
  nothing is pending and the client has heard it all.

`NoStrandedNotification` is kept because whoever adds to the queue is then at a
place from which it drains, and the one that delivers leaves only when the queue
is empty or a handler has thrown. Removing entries from the queue (`Keep`) and
merging sets into it are lemmas by counting, with the library's theorems on
cardinality: the n-th kept entry is the one with n kept entries up to it, which
needs no induction over the sequence.

### RPC client

`RpcIsCorrect` states `RpcSpec => []RpcCorrect` for the client with any calls,
sockets and slots against a node that may answer, close, restart, stay silent or
refuse at any time. `RpcSpec` is the component by itself; the run `application`
checks the same steps under its `part`.

The property is not inductive: that a call gets its own answer depends on what is
still on the wire of the connection it was leased, perhaps by an earlier call.
`RpcInv` adds:

* `Stages`: the attempts, the result and the connection a call can have at each
  of its places;
* `Slots`: `active` counts the calls between admission and release, and these with
  the idle connections do not exceed the slots of the endpoint;
* `Pool`: a connection is idle once or with one call, and open on this side;
* `Wire`: at most one message is on a connection, and no answer is once this side
  has closed it;
* `Answers`: an idle connection is silent, and so is that of a call which does not
  wait for an answer; the answer a call finds is its own, and tells whether the
  node executed the request;
* `Unread`: a request the node has not read was not executed, and its call waits
  on that connection or has given up and closed it. Therefore a late execution
  never follows a refusal, and a resent request never meets its first copy;
* `Executed`: what was executed, by the place and result of the call;
* `Notified`: while somebody sleeps there are at least as many calls woken or about
  to notify as there are free slots, unless a notified call left at its deadline
  (`lost`). `FreeSlotIsKnown` alone is not inductive: with two free slots
  and one call about to notify, the call it wakes would take the first slot and
  nobody would know of the second.

`StepKinds` reduces each action to one of a few kinds that say, call by call and
socket by socket, what changes. Each part of the invariant then has a lemma with
one step per kind.

### MCP sessions

`SessionsAreCorrect` states `SessionsSpec => []SessionsCorrect`. The property says
that the lists of pending and of failed cleanups, which drop their oldest entry
when they are full, never do so; it is not inductive, because nothing in it
keeps a list from growing. `SessionsInv` adds:

* `Stages`: which DELETE handler, deadline, application side and requests go with
  the state of a session;
* `Lists`: a session on a list has left the map, is on one list and there once;
  the cleanup worker works on a pending one. Hence a DELETE, an expiry and the
  worker never remove the same session;
* `Room`: every session the protocol knows and whose application side was opened
  holds one of the `MaxSessions` slots of the operation service until it is removed
  there. The entries of a list are different sessions with a slot, so counting
  bounds both lists by the capacity of the service;
* `Kept`: a session that has a slot is in the map or on a list.

### MCP endpoint

| Theorem | States |
|---|---|
| `EndpointIsCorrect` | `EndpointSpec => []EndpointCorrect` |
| `ForeignFilesAreKept` | `EndpointSpec => ReplacedFileIsKept`, which the run `mcp_transport` checks: only `Start` removes a file the process did not publish, an old one before it listens or one that it finds under a name it has just taken |

The property speaks of the end of a call, of a stopped dispatcher or of a
process that is gone; the steps in between need `EndpointInv`:

* `Calling`, `Running`: which step belongs to which call of the main thread, and
  where the server may run: from `listen` to the first stopping call;
* `Acceptor`, `Ended`: the accept thread wakes up without a socket only when the
  server has been told to stop, and a server that does not run has no threads,
  except in the steps that join them. With `Served` (a request that is read or
  handled has a worker) no request is left when the dispatcher is stopped;
* `Leftover`: the accept thread looks at `running` before it pushes, so after the
  queue was cleared it can push only the one socket it held already;
* `Stops`: a call that ends with the directory still open has failed, except
  `Drain`, after which there is another call. Hence the destructor's end with a
  published file was preceded by a failure (`hurt`) which the application reports;
* `Files`: a published file belongs to an open directory, the temporary exists only
  between its two steps, a name is free when Start takes it, and between the rename
  and the look at what has the name now it is ours unless somebody replaced it.
  That a name is free is what `ForeignFilesAreKept` needs: the rename would
  otherwise remove a file of somebody else.

Each action has a lemma with one step per part of the invariant; a step of the
main thread is reduced first to what it does to the flags (`At`, `Thrown`, `Back`,
`Over`).

### Cgroup scope

`ScopeIsCorrect` states `ScopeSpec => []ScopeCorrect` for any simulators and runs
on a host with or without the simulator directory, any number of failing system
calls and of simulators that die at any step. `ScopeSpec` is the component by
itself; the run `host_and_history` checks the same steps under its `part`.

The property speaks of prepared runs, of a host without a state file and of
refusals. Whether a preparation is refused depends on a file that another
simulator wrote before it died, so `ScopeInv` says what may be in that file:

* `Ordered`, `Placed`: the hierarchy is built up from the simulator directory to the
  controllers and taken down in the opposite order; a prepared run has its
  directory and its controllers, a new one has nothing;
* `FileInv`, `CopyInv`: the state file, *and* the copy a call holds in memory, are
  consistent in themselves (`Consistent`, what `LoadCgroupScopeState` asks for and
  more), match the shared directories (`Matches`) and list the runs (`Lists`). It
  takes both: when a write throws, either may be what is on disk;
* `Stage`, `Agree`, `Owned`: what a call has done by its step, where file and copy
  are the same, and that nobody else moves its run;
* `Building`, `Undone`, `Unused`: how far a new scope, a new run or a restoration
  has come. A restoration that died after `restoration_ready` left nothing but
  directories, so the next one may find either of them gone;
* `Recorded`: when the lock is free, what exists without being recorded is an
  orphan. So `BindCgroupScope` refuses only because of orphans;
* `Refusals`: a preparation that was refused or rolls back has a failure or an
  orphan to blame, or the directory of a recorded pending run that is gone.

Each action has a lemma: first what the step knows of the call, then what it
leaves of each record, then one step per part of the invariant. A write that
throws and a change of the hierarchy that throws are handled once (`WriteCall`,
`MutateCall`, with `WriteKeeps` and `MutateKeeps`), and so are a call that ends and
one whose simulator dies (`LeaveKeeps`).

The proof was also a test of the model: at first `EnableRun` did not ask for
the controllers of the simulator directory, as `RequireControllersAvailableAt`
does, and a run announced over an orphan could be prepared without them. TLC's
instance was too small to meet that state; it now has a third run for it.

### Live workloads

`WorkloadsAreCorrect` states `WorkSpec => []WorkloadsCorrect`, for any workloads,
wallets, targets and capacities, and `EndedWorkStaysEnded` the action property
`WorkSpec => TerminalIsFinal`, which the run `live_work` checks within
`WorkSettles`. The proof uses no assumption on the constants. `WorkSpec` is the
component by itself.

The properties speak of records that are paused, terminal or completed, and not
of what their workers and operations may still do to them. `WorkInv` adds, for
each record (`RecordInv`):

* `KindInv`: the positions a worker of each kind can be in;
* `PauseInv`: a paused record is parked, or on its way there with the pause still
  requested, or has been given another request. So no worker begins an epoch on
  a record that is reported paused, although `Resume` and the shutdown change
  request and state while the worker stands between two critical sections;
* `EndInv`: a worker that has returned left a terminal state, and a terminal state
  is left by its worker, but for the completion event of a wallet workload;
* `Counted`: an attempt is outstanding exactly from its count to its end, and a
  block has been generated in it exactly while it is synchronized;
* `BlocksInv`: a block workload on its way to completed is not paused, therefore a
  reconfiguration cannot raise its goal any more;
* `WaitInv`: an epoch that is completing was in time, and neither the deadline nor
  the shutdown marks it then;
* `SettleInv`, `WalletInv`: a wallet workload that settles is stopping, so that no
  cancelling stop can overtake it, and only such a one ends with transactions
  under observation;

and for the whole: disjoint claims, the exclusion by removals and replacements of
nodes (`RetirementExcludesWorkloads`; an addition excludes nothing), and
`DrainInv`, no worker once the drain has ended. It follows that
`CompleteShutdown` never finds an active record to close.

A step changes one record. `GoingOn`, `ComingToEnd` and `Operated` say when a
changed record keeps `RecordInv`: its worker goes on, comes to its end, or is left
alone by an operation. Each transformation of a record has a lemma that reduces it
to one of them, and `OneRecord` carries it over to all records.

### Only model-checked

Liveness (`CommandsProgress`, `ServiceProgress` and the other progress
properties): the prover has no fairness and no `ENABLED`. What recursive
definitions compute (the history document, pages and reports, accounting over
sequences): it has no induction over data. And the safety of all components
other than the command pipeline, the operation service, the node mutations, the
RPC client, the MCP sessions, the MCP endpoint, the cgroup scope and the live
workloads.

## 5. Plan

Proofs: the safety of the remaining components whose modules have no recursive
operator. Each needs a specification of its own beside `XInit` and `XNext`, as
`ScopeSpec` is for `CgroupScope`.

## 6. Not modelled

* Texts: formatting and parsing of answers, events and documents, except where a
  property depends on what a conversion does; rendering of the TUI and editor.
* Scenario decoding, the MCP registry and schema, the chain drivers, the encoding
  of netlink messages: pure functions of their input, without shared state.
* Slots, ports and addresses of nodes; the computation of topologies; the network
  allocation lock.
* Cleanup without a manifest, and the removal of retained artifacts.
* Scheduled scenario events and the final files of a run.
* Retained items and cursors of subscriptions; shutdown of the operation service
  called by one of its own workers; allocation failure.
* Vendored libperf.

`PROJECT.json` gives the status of every component.
