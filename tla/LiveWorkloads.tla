--------------------------- MODULE LiveWorkloads ---------------------------
(***************************************************************************)
(* Live workloads of a run: the wallet, block generation, height wait and  *)
(* peer wait instances an operator starts, pauses, resumes, reconfigures   *)
(* and stops through the workload service, each served by a thread of its  *)
(* own, and their shutdown with the run.                                   *)
(*   - src/simulator_live_*_workload_launcher.cpp: admission and worker;   *)
(*   - src/simulator_live_*_control.cpp: the operations;                   *)
(*   - src/simulator_live_workload_state.cpp: records and registries;      *)
(*   - src/simulator_live_workload_shutdown{,_request}.cpp;                *)
(*   - McpLiveWorkloadService in src/mcp_live_application.cpp.             *)
(*                                                                         *)
(* A step of a worker is what it does in one critical section of the       *)
(* record's mutex, or one call it makes with the mutex released; operations *)
(* fall between any two of them.  Time appears only as the deadline of an  *)
(* epoch of a wait, which may pass at any moment.  A wallet workload is    *)
(* shown with the strategies that submit one transfer at a time; the       *)
(* queue and the senders of the load strategies are in TransactionLoad.    *)
(***************************************************************************)
EXTENDS Naturals, FiniteSets

CONSTANTS
    Workloads,         \* workload ids, an interval from 1
    Wallets,           \* wallets a wallet workload may send from
    Targets,           \* counts a workload may be asked for
    MaxRetained,       \* kMaximumScenarioActionCount
    Companions,        \* bound: the kinds that are retained together
    MaxControls,       \* bound: launches, operations and node mutations
    MaxJointControls,  \* bound: the same, with two workloads retained
    MaxWorkloadFaults  \* bound: events and calls that fail

VARIABLES
    work,       \* the record of each workload
    service,    \* McpLiveWorkloadService: open, closed, cancelled
    shutdown,   \* StopLiveWorkloads
    mutating,   \* the node mutation under way: none, adding, retiring
    controls, workFaults

workVars == <<work, service, shutdown, mutating, controls, workFaults>>

Waits == {"height", "peers"}
Kinds == Waits \cup {"wallet", "blocks"}
TerminalStates == {"stopped", "completed", "cancelled", "failed"}
IsTerminalLiveWorkloadState(s) == s \in TerminalStates

NoConfig == [goal |-> 0, wallets |-> {}]
Configs(kind) ==
    [goal: Targets, wallets: IF kind = "wallet" THEN SUBSET Wallets \ {{}} ELSE {{}}]

NoWork == [kind |-> "none", pc |-> "none", state |-> "starting",
           request |-> "none", estop |-> FALSE, end |-> "none",
           config |-> NoConfig, pending |-> NoConfig, claims |-> {},
           done |-> 0, attempted |-> 0, settled |-> 0, generated |-> 0,
           tracked |-> FALSE, due |-> FALSE, late |-> FALSE, runStop |-> "no",
           timedOut |-> FALSE, completing |-> FALSE, settling |-> FALSE]

Retained == {w \in Workloads : work[w].kind # "none"}
Active(w) == w \in Retained /\ ~IsTerminalLiveWorkloadState(work[w].state)

WorkInit ==
    /\ work = [w \in Workloads |-> NoWork]
    /\ service = "open" /\ mutating = "none"
    /\ shutdown = [pc |-> "idle", tick |-> FALSE, failed |-> FALSE, todo |-> {}]
    /\ controls = 0 /\ workFaults = 0

Save(w, r) == work' = [work EXCEPT ![w] = r]
Elsewhere == UNCHANGED <<service, shutdown, mutating, controls>>
Operate ==
    /\ controls < IF Cardinality(Retained) > 1 THEN MaxJointControls ELSE MaxControls
    /\ controls' = controls + 1
WorkFault == workFaults < MaxWorkloadFaults /\ workFaults' = workFaults + 1
Fine == UNCHANGED workFaults

\* The node mutation mutex is held by a node mutation, by a launch, and by the
\* worker of a block workload for the whole of a boundary.
MutexFree ==
    mutating = "none" /\ \A w \in Workloads : work[w].pc \notin {"launched", "generating", "sync"}

----------------------------------------------------------------------------
(* Admission *)

\* All four registries are locked: no launch once the run is stopping, none
\* beyond the retained capacity.
Admits(w, kind) ==
    /\ Cardinality(Retained) < MaxRetained
    /\ w \notin Retained /\ \A v \in Workloads : v < w => v \in Retained
    /\ shutdown.pc \in {"idle", "closing"}
    /\ \/ Retained = {}
       \/ /\ {kind} \cup {work[v].kind : v \in Retained} \subseteq Companions
          /\ controls < MaxJointControls

Register(w, kind, c, claimed) ==
    /\ Save(w, [NoWork EXCEPT !.kind = kind, !.pc = "launched", !.config = c,
                              !.claims = claimed])
    /\ Operate /\ UNCHANGED <<service, shutdown, mutating>> /\ Fine

ClaimedWalletsForWorkload(c) == c.wallets
WalletClaimsOverlap(a, b) == a \cap b # {}
Claimable(w, c) ==
    \A v \in Workloads \ {w} :
        Active(v) => ~WalletClaimsOverlap(ClaimedWalletsForWorkload(c), work[v].claims)

LaunchWallet(w, c) ==
    /\ Admits(w, "wallet") /\ c \in Configs("wallet") /\ MutexFree /\ Claimable(w, c)
    /\ Register(w, "wallet", c, ClaimedWalletsForWorkload(c))

LaunchBlocks(w, c) ==
    /\ Admits(w, "blocks") /\ c \in Configs("blocks") /\ MutexFree
    /\ \A v \in Workloads : work[v].kind = "blocks" => ~Active(v)
    /\ Register(w, "blocks", c, {})

LaunchHeight(w, c) ==
    /\ Admits(w, "height") /\ c \in Configs("height") /\ MutexFree
    /\ Register(w, "height", c, {})

LaunchPeers(w, c) ==
    /\ Admits(w, "peers") /\ c \in Configs("peers") /\ MutexFree
    /\ Register(w, "peers", c, {})

\* AcquireWorkerLease and the thread; a failure takes the record out again.
StartWorker(w) ==
    /\ work[w].pc = "launched"
    /\ \/ service = "open" /\ Fine /\ Save(w, [work[w] EXCEPT !.pc = "top"])
       \/ service # "open" /\ Fine /\ Save(w, NoWork)
       \/ service = "open" /\ WorkFault /\ Save(w, NoWork)
    /\ Elsewhere

----------------------------------------------------------------------------
(* The worker: requests *)

Ending(r, s) == [r EXCEPT !.pc = "ending", !.end = s]
\* cancel_outstanding_tracking, then set_terminal
Cancelling(r, s) == [Ending(r, s) EXCEPT !.tracked = FALSE]

ServiceStop == service = "cancelled"
\* execution_stop_token: the service's stop or the epoch's own
StopRequested(r) == ServiceStop \/ r.estop

\* What the top of every worker loop makes of the request, when there is one.
Honoured(r) ==
    CASE r.request = "pause" ->
            [r EXCEPT !.state = "paused", !.pc = "pausing", !.due = FALSE,
                      !.timedOut = FALSE, !.runStop = "no"]
      [] r.request = "cancel" -> Cancelling(r, "stopped")
      [] r.request = "settle" -> Ending(r, "stopped")
      [] r.request = "shutdown" -> Cancelling(r, "cancelled")
      [] r.request = "runFailure" -> Cancelling(r, "failed")
      [] r.request = "reconfigure" ->
            [r EXCEPT !.config = r.pending, !.pending = NoConfig,
                      !.request = "none", !.state = "starting",
                      !.pc = "restarting"]

BeginWallet(r) == [r EXCEPT !.estop = FALSE, !.pc = "funding"]

BeginBlocks(r) ==
    IF r.done >= r.config.goal THEN Ending(r, "completed")
    ELSE IF ServiceStop THEN Ending([r EXCEPT !.request = "shutdown"], "cancelled")
    ELSE [r EXCEPT !.estop = FALSE, !.pc = "boundary", !.state = "running",
                   !.attempted = @ + 1]

BeginWait(r) ==
    IF ServiceStop THEN Ending([r EXCEPT !.request = "shutdown"], "cancelled")
    ELSE [r EXCEPT !.estop = FALSE, !.pc = "await", !.state = "running",
                   !.due = FALSE, !.timedOut = FALSE, !.runStop = "no"]

Begin(r) ==
    CASE r.kind = "wallet" -> BeginWallet(r)
      [] r.kind = "blocks" -> BeginBlocks(r)
      [] r.kind \in Waits -> BeginWait(r)

Top(w, kind) ==
    LET r == work[w] IN
    /\ r.kind = kind /\ r.pc = "top"
    /\ Save(w, IF r.request = "none" THEN Begin(r) ELSE Honoured(r))
    /\ Elsewhere /\ Fine

WalletTop(w) == Top(w, "wallet")
BlocksTop(w) == Top(w, "blocks")
HeightTop(w) == Top(w, "height")
PeersTop(w) == Top(w, "peers")

\* The paused state is published with the mutex released.
PublishPaused(w) ==
    /\ work[w].pc = "pausing" /\ Elsewhere
    /\ \/ Fine /\ Save(w, [work[w] EXCEPT !.pc = "parked"])
       \/ WorkFault /\ Save(w, Cancelling(work[w], "failed"))

Parked(w) ==
    LET r == work[w] IN
    /\ r.pc = "parked" /\ Elsewhere /\ Fine
    /\ \/ r.request # "pause" /\ Save(w, [r EXCEPT !.pc = "top"])
       \/ /\ r.request = "pause" /\ ServiceStop
          /\ Save(w, [r EXCEPT !.pc = "top", !.request = "shutdown"])

\* The new revision is published with the mutex released; only the waits look
\* at the request again before they begin an epoch.
PublishRestart(w) ==
    LET r == work[w] IN
    /\ r.pc = "restarting" /\ Elsewhere
    /\ \/ /\ Fine
          /\ Save(w, IF r.kind \in Waits /\ r.request # "none"
                     THEN [r EXCEPT !.pc = "top"] ELSE Begin(r))
       \/ WorkFault /\ Save(w, Cancelling(r, "failed"))

SetTerminal(w) ==
    LET r == work[w] IN
    /\ r.pc = "ending" /\ Elsewhere /\ Fine
    /\ Save(w, [r EXCEPT !.state = r.end, !.completing = FALSE,
                         !.pc = IF r.kind = "wallet" /\ r.end = "completed"
                                THEN "reporting" ELSE "done"])

----------------------------------------------------------------------------
(* The worker of a wallet workload *)

\* SimulationCancelled leaves ApplyWalletTransactionsWorkload.
WalletCancelled(r) ==
    CASE r.request \in {"pause", "reconfigure"} -> [r EXCEPT !.pc = "top"]
      [] r.request = "cancel" -> Cancelling(r, "stopped")
      [] r.request = "settle" -> Ending(r, "stopped")
      [] r.request = "runFailure" -> Cancelling(r, "failed")
      [] r.request = "shutdown" \/ (r.request = "none" /\ ServiceStop) ->
            Cancelling(r, "cancelled")
      [] OTHER -> Cancelling(r, "failed")

FundWallets(w) ==
    LET r == work[w] IN
    /\ r.kind = "wallet" /\ r.pc = "funding" /\ Elsewhere
    /\ \/ StopRequested(r) /\ Fine /\ Save(w, WalletCancelled(r))
       \/ /\ Fine
          /\ Save(w, [r EXCEPT !.pc = "send",
                         !.state = IF r.request = "none" THEN "running" ELSE @])
       \/ WorkFault /\ Save(w, Cancelling(r, "failed"))

\* Head of the transfer loop: the count, then ThrowIfStopRequested.
NextTransfer(w) ==
    LET r == work[w] IN
    /\ r.kind = "wallet" /\ r.pc = "send" /\ Elsewhere /\ Fine
    /\ Save(w, IF r.done >= r.config.goal THEN [r EXCEPT !.pc = "returned"]
               ELSE IF StopRequested(r) THEN WalletCancelled(r)
               ELSE [r EXCEPT !.pc = "yield"])

\* yield_requested locks the record, and returns early for any request.
YieldTransfer(w) ==
    LET r == work[w] IN
    /\ r.kind = "wallet" /\ r.pc = "yield" /\ Elsewhere /\ Fine
    /\ Save(w, [r EXCEPT !.pc = IF r.request # "none" THEN "returned" ELSE "submit"])

Submit(w) ==
    LET r == work[w] IN
    /\ r.kind = "wallet" /\ r.pc = "submit" /\ Elsewhere
    /\ \/ StopRequested(r) /\ Fine /\ Save(w, WalletCancelled(r))
       \/ /\ Fine
          /\ Save(w, [r EXCEPT !.pc = "send", !.done = @ + 1, !.tracked = TRUE])
       \/ WorkFault /\ Save(w, Cancelling(r, "failed"))

\* The observation of the transactions ends: every node has seen them.
ObserveAll(w) ==
    /\ work[w].tracked /\ Elsewhere /\ Fine
    /\ Save(w, [work[w] EXCEPT !.tracked = FALSE])

\* A load strategy without enough balance ends its epoch to read balances anew.
RefreshBalances(w) ==
    LET r == work[w] IN
    /\ r.kind = "wallet" /\ r.pc = "send" /\ Elsewhere /\ Fine
    /\ ~StopRequested(r) /\ r.done < r.config.goal
    /\ Save(w, [r EXCEPT !.pc = "top"])

\* The result of an epoch that was not cancelled.
WalletReturned(w) ==
    LET r == work[w] IN
    /\ r.kind = "wallet" /\ r.pc = "returned" /\ Elsewhere /\ Fine
    /\ Save(w, CASE r.request = "settle" -> Ending(r, "stopped")
                 [] r.request \in {"pause", "reconfigure"} -> [r EXCEPT !.pc = "top"]
                 [] OTHER -> Ending(r, "completed"))

\* The completion event follows the terminal state; its failure is the
\* worker's failure.
ReportCompletion(w) ==
    /\ work[w].pc = "reporting" /\ Elsewhere
    /\ \/ Fine /\ Save(w, [work[w] EXCEPT !.pc = "done"])
       \/ WorkFault /\ Save(w, Cancelling(work[w], "failed"))

----------------------------------------------------------------------------
(* The worker of a block generation workload *)

\* finalize_outstanding_attempt
Finalize(r) ==
    [r EXCEPT !.settled = IF r.attempted > r.done + r.settled THEN @ + 1 ELSE @]

BlocksCancelled(r) ==
    CASE r.request = "runFailure" -> Ending(Finalize(r), "failed")
      [] r.request \in {"cancel", "settle"} -> Ending(Finalize(r), "stopped")
      [] r.request = "shutdown" \/ (r.request \in {"none", "pause", "reconfigure"}
                                    /\ ServiceStop) ->
            Ending(Finalize(r), "cancelled")
      [] OTHER -> Ending(Finalize(r), "failed")

\* The locks, whose wait the stop token ends, then authorize_mutation under the
\* record's mutex.
AuthorizeMutation(w) ==
    LET r == work[w] IN
    /\ r.kind = "blocks" /\ r.pc = "boundary" /\ Elsewhere
    /\ \/ /\ \/ StopRequested(r)
             \/ MutexFree /\ r.request \in {"cancel", "shutdown", "runFailure"}
          /\ Fine /\ Save(w, BlocksCancelled(r))
       \/ /\ MutexFree /\ ~StopRequested(r)
          /\ r.request \notin {"cancel", "shutdown", "runFailure"}
          /\ Fine /\ Save(w, [r EXCEPT !.pc = "generating"])
       \/ WorkFault /\ Save(w, Ending(Finalize(r), "failed"))

\* The RPC cannot be stopped once it is admitted.
GenerateBlock(w) ==
    LET r == work[w] IN
    /\ r.kind = "blocks" /\ r.pc = "generating" /\ Elsewhere
    /\ \/ Fine /\ Save(w, [r EXCEPT !.pc = "sync", !.generated = @ + 1])
       \/ WorkFault /\ Save(w, Ending(Finalize(r), "failed"))

SynchronizeBoundary(w) ==
    LET r == work[w] IN
    /\ r.kind = "blocks" /\ r.pc = "sync" /\ Elsewhere
    /\ \/ StopRequested(r) /\ Fine /\ Save(w, BlocksCancelled(r))
       \/ Fine /\ Save(w, [r EXCEPT !.pc = "top", !.done = @ + 1])
       \/ WorkFault /\ Save(w, Ending(Finalize(r), "failed"))

----------------------------------------------------------------------------
(* The worker of a height or peer wait *)

BeforeDeadline(r) == r.runStop = "before"
Open(r) == r.request \in {"none", "settle"}

WaitCancelled(r) ==
    IF ~BeforeDeadline(r) /\ (r.timedOut \/ (Open(r) /\ r.due))
    THEN Ending([r EXCEPT !.timedOut = TRUE], "failed")
    ELSE IF ~BeforeDeadline(r) /\ r.request \in {"pause", "reconfigure"}
    THEN [r EXCEPT !.pc = "top"]
    ELSE CASE r.request = "runFailure" -> Ending(r, "failed")
           [] r.request # "runFailure"
              /\ (BeforeDeadline(r) \/ r.request = "shutdown" \/ ServiceStop) ->
                Ending(r, "cancelled")
           [] OTHER -> IF r.request \in {"cancel", "settle"}
                       THEN Ending(r, "stopped") ELSE Ending(r, "failed")

\* The target was read back: the epoch must still be open.
Reached(w, kind) ==
    LET r == work[w] IN
    /\ r.kind = kind /\ r.pc = "await" /\ Elsewhere /\ Fine
    /\ Save(w, IF ~Open(r) \/ BeforeDeadline(r) \/ r.timedOut \/ r.due
                  \/ StopRequested(r)
               THEN WaitCancelled(r)
               ELSE [r EXCEPT !.pc = "complete", !.completing = TRUE,
                              !.settling = r.request = "settle",
                              !.state = "stopping"])

HeightReached(w) == Reached(w, "height")
PeersReached(w) == Reached(w, "peers")

\* The read back is cancelled by the stop token, or fails.
Interrupted(w, kind) ==
    LET r == work[w] IN
    /\ r.kind = kind /\ r.pc = "await" /\ Elsewhere
    /\ \/ StopRequested(r) /\ Fine /\ Save(w, WaitCancelled(r))
       \/ WorkFault /\ Save(w, Ending(r, "failed"))

HeightInterrupted(w) == Interrupted(w, "height")
PeersInterrupted(w) == Interrupted(w, "peers")

\* The event is written with the mutex released, then the result is stored.
CompleteWait(w) ==
    LET r == work[w] IN
    /\ r.pc = "complete" /\ Elsewhere
    /\ \/ /\ Fine
          /\ Save(w, [r EXCEPT !.pc = "done", !.completing = FALSE, !.done = 1,
                         !.state = IF r.settling THEN "stopped" ELSE "completed"])
       \/ WorkFault /\ Save(w, Ending(r, "failed"))

\* Time: the deadline of the epoch passes.
DeadlinePasses(w) ==
    /\ work[w].pc = "await" /\ ~work[w].due /\ Elsewhere /\ Fine
    /\ Save(w, [work[w] EXCEPT !.due = TRUE, !.late = ~shutdown.tick])

\* deadline_timer
DeadlineTimer(w) ==
    LET r == work[w] IN
    /\ r.pc = "await" /\ r.due /\ ~r.timedOut /\ ~BeforeDeadline(r) /\ Open(r)
    /\ Save(w, [r EXCEPT !.timedOut = TRUE, !.estop = TRUE])
    /\ Elsewhere /\ Fine

\* stop_epoch_on_service_stop
ServiceStopCallback(w) ==
    LET r == work[w] IN
    /\ r.pc = "await" /\ ServiceStop /\ r.runStop = "no" /\ ~r.completing
    /\ Save(w, [r EXCEPT !.runStop = IF r.due /\ r.late THEN "after" ELSE "before",
                         !.estop = TRUE])
    /\ Elsewhere /\ Fine

----------------------------------------------------------------------------
(* Operations on one workload *)

\* An operation reaches the record while the service still has callbacks.
Control(w, kinds) ==
    /\ work[w].kind \in kinds /\ Operate
    /\ shutdown.pc \notin {"drained", "complete"}
    /\ UNCHANGED <<service, shutdown, mutating, workFaults>>
Stoppable(r) == ~IsTerminalLiveWorkloadState(r.state) /\ r.state # "stopping"
Asked(r, request) == [r EXCEPT !.request = request, !.state = "stopping"]

\* workload.start is cancelled while it waits for the workload to start.
CancelStart(w) ==
    /\ Control(w, Kinds) /\ work[w].state = "starting" /\ work[w].pc # "launched"
    /\ Save(w, [work[w] EXCEPT !.request = "cancel", !.estop = TRUE])

\* A wallet workload, unlike the others, may be paused while it is paused.
PauseWallet(w) ==
    LET r == work[w] IN
    /\ Control(w, {"wallet"}) /\ Stoppable(r)
    /\ Save(w, [Asked(r, "pause") EXCEPT !.estop = @ \/ r.state # "starting"])

StopWallet(w, policy) ==
    LET r == work[w] IN
    /\ Control(w, {"wallet"}) /\ Stoppable(r)
    /\ Save(w, [Asked(r, policy) EXCEPT
                    !.estop = @ \/ policy = "cancel" \/ r.state = "starting"])

\* The claims change now, the configuration when the epoch has ended.
ReconfigureWallet(w, c) ==
    LET r == work[w]
        q == [r EXCEPT !.claims = ClaimedWalletsForWorkload(c)] IN
    /\ Control(w, {"wallet"}) /\ Stoppable(r) /\ Claimable(w, c)
    /\ r.done <= c.goal
    /\ Save(w, IF r.state = "paused" THEN [q EXCEPT !.config = c]
               ELSE [Asked(q, "reconfigure") EXCEPT
                        !.pending = c, !.estop = @ \/ r.state # "starting"])

PauseBlocks(w) ==
    /\ Control(w, {"blocks"}) /\ Stoppable(work[w]) /\ work[w].state # "paused"
    /\ Save(w, Asked(work[w], "pause"))

StopBlocks(w, policy) ==
    /\ Control(w, {"blocks"}) /\ Stoppable(work[w])
    /\ Save(w, [Asked(work[w], policy) EXCEPT !.estop = @ \/ policy = "cancel"])

ReconfigureBlocks(w, c) ==
    LET r == work[w] IN
    /\ Control(w, {"blocks"}) /\ Stoppable(r) /\ c.goal >= r.attempted
    /\ Save(w, IF r.state = "paused" THEN [r EXCEPT !.config = c]
               ELSE [Asked(r, "reconfigure") EXCEPT !.pending = c])

\* expire_epoch_if_due: the operation finds that the deadline has passed.
Expired(r) ==
    \/ r.timedOut
    \/ /\ ~r.completing /\ ~BeforeDeadline(r) /\ r.due /\ Open(r)
       /\ r.state = "running" \/ (r.state = "stopping" /\ r.request = "settle")

ExpireEpoch(w) ==
    LET r == work[w] IN
    /\ Control(w, Waits) /\ Expired(r) /\ ~IsTerminalLiveWorkloadState(r.state)
    /\ Save(w, [r EXCEPT !.timedOut = TRUE, !.estop = TRUE])

Steerable(r) == Stoppable(r) /\ r.state # "starting" /\ ~Expired(r)

PauseWait(w, kind) ==
    LET r == work[w] IN
    /\ Control(w, {kind}) /\ Steerable(r) /\ r.state # "paused"
    /\ Save(w, [Asked(r, "pause") EXCEPT !.estop = TRUE])

\* A cancelling stop overtakes a settling one.
StopWait(w, kind, policy) ==
    LET r == work[w] IN
    /\ Control(w, {kind})
    /\ \/ Steerable(r)
       \/ /\ r.state = "stopping" /\ policy = "cancel" /\ r.request = "settle"
          /\ ~r.completing /\ ~Expired(r)
    /\ Save(w, [Asked(r, policy) EXCEPT !.estop = @ \/ policy = "cancel"])

ReconfigureWait(w, kind, c) ==
    LET r == work[w] IN
    /\ Control(w, {kind}) /\ Steerable(r) /\ MutexFree
    /\ Save(w, IF r.state = "paused" THEN [r EXCEPT !.config = c]
               ELSE [Asked(r, "reconfigure") EXCEPT !.pending = c, !.estop = TRUE])

ControlHeight(w) ==
    \/ PauseWait(w, "height")
    \/ \E policy \in {"cancel", "settle"} : StopWait(w, "height", policy)
    \/ \E c \in Configs("height") : ReconfigureWait(w, "height", c)

ControlPeers(w) ==
    \/ PauseWait(w, "peers")
    \/ \E policy \in {"cancel", "settle"} : StopWait(w, "peers", policy)
    \/ \E c \in Configs("peers") : ReconfigureWait(w, "peers", c)

Resume(w) ==
    /\ Control(w, Kinds) /\ work[w].state = "paused"
    /\ Save(w, [work[w] EXCEPT !.request = "none", !.state = "starting"])

----------------------------------------------------------------------------
(* Node mutations *)

BeginNodeMutation(kind) ==
    /\ MutexFree /\ shutdown.pc = "idle" /\ Operate
    /\ mutating' = kind
    /\ UNCHANGED <<work, service, shutdown, workFaults>>

\* A node is added whatever workloads are active.
BeginNodeAddition == BeginNodeMutation("adding")

\* Mutant: the removal does not ask for active workloads of every kind.
HastyNodeRetirement ==
    /\ \A w \in Workloads : work[w].kind = "wallet" => ~Active(w) /\ ~work[w].tracked
    /\ BeginNodeMutation("retiring")

\* A removal and a replacement are refused while a workload of any kind is
\* active or a transaction is observed, asked with the mutex held.
BeginNodeRetirement ==
    /\ \A w \in Workloads : ~Active(w) /\ ~work[w].tracked
    /\ BeginNodeMutation("retiring")

EndNodeMutation ==
    /\ mutating # "none" /\ mutating' = "none"
    /\ UNCHANGED <<work, service, shutdown, controls, workFaults>>

----------------------------------------------------------------------------
(* Shutdown *)

Quiet == UNCHANGED <<mutating, controls, workFaults>>

\* CloseWorkloadService: no new callbacks and no new worker leases.
CloseAdmission(failed) ==
    /\ shutdown.pc = "idle"
    /\ shutdown' = [shutdown EXCEPT !.pc = "closing", !.tick = TRUE, !.failed = failed]
    /\ service' = "closed"
    /\ UNCHANGED work /\ Quiet

\* RequestLiveWorkloadShutdown: the registries, then record by record.
RequestShutdown ==
    /\ shutdown.pc = "closing"
    /\ shutdown' = [shutdown EXCEPT !.pc = "asking", !.todo = Retained]
    /\ UNCHANGED <<work, service>> /\ Quiet

ShutdownRecord(w) ==
    LET r == work[w] IN
    /\ shutdown.pc = "asking" /\ w \in shutdown.todo
    /\ shutdown' = [shutdown EXCEPT !.todo = @ \ {w}]
    /\ Save(w, IF ~Active(w) \/ r.completing THEN r
               ELSE IF r.kind \in Waits /\ Open(r) /\ r.due /\ r.late
                       /\ r.state \in {"running", "stopping"}
               THEN [r EXCEPT !.timedOut = TRUE]
               ELSE Asked(r, IF shutdown.failed THEN "runFailure" ELSE "shutdown"))
    /\ UNCHANGED service /\ Quiet

RequestCancellation ==
    /\ shutdown.pc = "asking" /\ shutdown.todo = {}
    /\ shutdown' = [shutdown EXCEPT !.pc = "draining"]
    /\ service' = "cancelled"
    /\ UNCHANGED work /\ Quiet

\* No callback (a launch under way is one) and no worker is left; a drain that
\* takes longer than its bound is waited for in quarantine.
Drain ==
    /\ shutdown.pc = "draining"
    /\ \A w \in Workloads : work[w].pc \in {"none", "done"}
    /\ shutdown' = [shutdown EXCEPT !.pc = "drained"]
    /\ UNCHANGED <<work, service>> /\ Quiet

\* The workers are joined; a record that is still active is closed.
CompleteShutdown ==
    /\ shutdown.pc = "drained"
    /\ work' = [w \in Workloads |->
                   IF Active(w)
                   THEN [work[w] EXCEPT !.state =
                            IF shutdown.failed THEN "failed" ELSE "cancelled"]
                   ELSE work[w]]
    /\ shutdown' = [shutdown EXCEPT !.pc = "complete"]
    /\ UNCHANGED service /\ Quiet

----------------------------------------------------------------------------

WorkerStep(w) ==
    \/ StartWorker(w) \/ WalletTop(w) \/ BlocksTop(w) \/ HeightTop(w) \/ PeersTop(w)
    \/ PublishPaused(w) \/ Parked(w) \/ PublishRestart(w) \/ SetTerminal(w)
    \/ FundWallets(w) \/ NextTransfer(w) \/ YieldTransfer(w) \/ Submit(w)
    \/ WalletReturned(w) \/ ReportCompletion(w)
    \/ AuthorizeMutation(w) \/ GenerateBlock(w) \/ SynchronizeBoundary(w)
    \/ HeightInterrupted(w) \/ PeersInterrupted(w) \/ CompleteWait(w)

ShutdownStep ==
    \/ RequestShutdown \/ (\E w \in Workloads : ShutdownRecord(w))
    \/ RequestCancellation \/ Drain \/ CompleteShutdown

WorkNext ==
    \/ \E w \in Workloads :
        \/ WorkerStep(w) \/ RefreshBalances(w) \/ ObserveAll(w) \/ HeightReached(w) \/ PeersReached(w)
        \/ DeadlinePasses(w) \/ DeadlineTimer(w) \/ ServiceStopCallback(w)
        \/ CancelStart(w) \/ PauseWallet(w) \/ PauseBlocks(w) \/ ExpireEpoch(w)
        \/ ControlHeight(w) \/ ControlPeers(w) \/ Resume(w)
        \/ \E policy \in {"cancel", "settle"} : StopWallet(w, policy) \/ StopBlocks(w, policy)
        \/ \E c \in Configs("wallet") : LaunchWallet(w, c) \/ ReconfigureWallet(w, c)
        \/ \E c \in Configs("blocks") :
              \/ LaunchBlocks(w, c) \/ ReconfigureBlocks(w, c)
              \/ LaunchHeight(w, c) \/ LaunchPeers(w, c)
    \/ BeginNodeAddition \/ BeginNodeRetirement \/ EndNodeMutation
    \/ \E failed \in BOOLEAN : CloseAdmission(failed)
    \/ ShutdownStep

WorkSpec == WorkInit /\ [][WorkNext]_workVars

----------------------------------------------------------------------------
(* Properties *)

Positions == {"none", "launched", "top", "pausing", "parked", "restarting",
              "ending", "reporting", "done", "funding", "send", "yield",
              "submit", "returned", "boundary", "generating", "sync", "await",
              "complete"}
Requests == {"none", "pause", "reconfigure", "settle", "cancel", "shutdown",
             "runFailure"}

\* Types of the records, the service and the shutdown.
WorkTypeOK ==
    /\ \A w \in Workloads :
        /\ work[w].kind \in Kinds \cup {"none"} /\ work[w].pc \in Positions
        /\ work[w].state \in TerminalStates \cup {"starting", "running", "paused", "stopping"}
        /\ work[w].request \in Requests /\ work[w].claims \subseteq Wallets
        /\ work[w].runStop \in {"no", "before", "after"}
    /\ service \in {"open", "closed", "cancelled"} /\ mutating \in {"none", "adding", "retiring"}
    /\ shutdown.pc \in {"idle", "closing", "asking", "draining", "drained", "complete"}

\* Wallet workloads that are active never claim the same wallet, whatever
\* launches and reconfigurations race (WalletClaimsOverlap in the launcher and
\* in workload.reconfigure).
ClaimsAreDisjoint ==
    \A v, w \in Workloads : v # w /\ Active(v) /\ Active(w) =>
        work[v].claims \cap work[w].claims = {}

Executing == {"funding", "send", "yield", "submit", "returned", "boundary",
              "generating", "sync", "await", "complete"}

\* A workload that is reported paused has no epoch under way: nothing is sent,
\* generated or read back, whichever operations raced with the pause.
PausedWorkIsIdle ==
    \A w \in Workloads : work[w].state = "paused" => work[w].pc \notin Executing

\* Block attempts are accounted for: at most one is outstanding, none when the
\* worker has ended, and no block is generated outside an attempt.
AttemptsAreAccounted ==
    \A w \in Workloads : work[w].kind = "blocks" =>
        /\ work[w].attempted - (work[w].done + work[w].settled) \in {0, 1}
        /\ work[w].pc = "done" => work[w].attempted = work[w].done + work[w].settled
        /\ work[w].done <= work[w].generated /\ work[w].generated <= work[w].attempted

\* What is reported completed was completed: all the blocks were generated and
\* synchronized, the height or peer count was reached before the deadline.
CompletionIsReal ==
    \A w \in Workloads : work[w].state = "completed" =>
        /\ work[w].kind = "blocks" => work[w].done >= work[w].config.goal
        /\ work[w].kind \in Waits =>
              work[w].done = 1 /\ ~work[w].due /\ ~work[w].timedOut

\* A wallet workload that was stopped by cancellation, cancelled or failed has
\* no transaction under observation any more; one that was settled may.
CancelledIsUntracked ==
    \A w \in Workloads : work[w].kind = "wallet" /\ work[w].pc = "done"
        /\ (work[w].state \in {"cancelled", "failed"}
            \/ (work[w].state = "stopped" /\ work[w].request = "cancel")) =>
        ~work[w].tracked

\* While a node is removed or replaced no workload is active that could hold
\* its configuration or its wallet, none becomes active, and no transaction is
\* observed: what was asked once, record by record, stays so to the end of the
\* mutation (the checks of node-remove and node-replace, the launches that take
\* the same mutex).  A node addition excludes no workload.
RetirementExcludesWorkloads ==
    mutating = "retiring" => \A w \in Workloads : ~Active(w) /\ ~work[w].tracked

\* A shutdown that has completed left no worker and no active record, and
\* nothing can be launched after it.
ShutdownLeavesNothing ==
    shutdown.pc = "complete" =>
        \A w \in Workloads : ~Active(w) /\ work[w].pc \in {"none", "done"}

\* A terminal state is final, except that a wallet workload which cannot write
\* its completion event becomes failed.
TerminalIsFinal ==
    [][\A w \in Workloads : IsTerminalLiveWorkloadState(work[w].state) =>
          \/ work'[w].state = work[w].state
          \/ work[w].kind = "wallet" /\ work[w].pc = "ending" /\ work'[w].state = "failed"]_workVars

\* A shutdown that begins completes, whatever the workloads are doing and
\* whatever operations are still in flight.
ShutdownCompletes == shutdown.pc = "closing" ~> shutdown.pc = "complete"

\* Live workloads: their claims are disjoint, paused work is idle, attempts are
\* accounted for, completion is real, cancelled work is not tracked, a removal or
\* replacement of a node excludes them and shutdown leaves nothing.
WorkloadsCorrect ==
    /\ WorkTypeOK
    /\ ClaimsAreDisjoint
    /\ PausedWorkIsIdle
    /\ AttemptsAreAccounted
    /\ CompletionIsReal
    /\ CancelledIsUntracked
    /\ RetirementExcludesWorkloads
    /\ ShutdownLeavesNothing

============================================================================
