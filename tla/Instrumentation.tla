-------------------------- MODULE Instrumentation --------------------------
(***************************************************************************)
(* The measurement windows of a live run                                   *)
(* (src/src/simulator_live_instrumentation_controller.cpp) and the counter *)
(* transactions they are made of (simulator_perf_counter_transactions.cpp, *)
(* simulator_perf_counter_attachment.cpp, perf_counter.cpp).               *)
(*                                                                         *)
(* A window borrows the performance counters of its target nodes: it       *)
(* remembers the configuration each node had (the baseline), puts its own  *)
(* in place, samples, and gives the baseline back when it ends.  Client    *)
(* operations (start, reconfigure, stop), the worker thread of the window, *)
(* operator commands and the shutdown of the run meet at two timed locks,  *)
(* taken in the order lifecycle, node mutation.  The sampling boundary, a  *)
(* third lock that every taker nests inside those two, is not a variable.  *)
(***************************************************************************)
EXTENDS Naturals, FiniteSets, Sequences

CONSTANTS
  Nodes,          \* nodes of the run
  CounterConfigs,        \* counter configurations (kinds and target of a node)
  Unsupported,    \* configurations this host cannot open
  FirstConfig,    \* what the nodes have when the run begins
  WindowRequests,       \* what a client asks for: <<targets, configuration>>
  Ops,            \* concurrent client operations
  MaxWindows,     \* windows retained by the registry
  MaxRevisions,   \* kMaximumRetainedInstrumentationConfigurationRevisions
  MaxCalls,       \* client calls in a behaviour with commands or faults
  MaxQuietCalls,  \* client calls in a behaviour without
  MaxCommands,    \* operator commands and process events in a behaviour
  MaxInstFaults   \* cancelled calls, failed attachments, captures and writes

ASSUME InstConstants ==
  /\ Unsupported \subseteq CounterConfigs /\ FirstConfig \in CounterConfigs
  /\ WindowRequests \subseteq (SUBSET Nodes \ {{}}) \X CounterConfigs
  /\ {MaxWindows, MaxRevisions, MaxCalls, MaxQuietCalls, MaxCommands, MaxInstFaults} \subseteq Nat

VARIABLES
  cfg,        \* node -> the configuration its counters have
  own,        \* node -> the configuration commands gave it last (history)
  up,         \* node -> its process runs
  lifecycle,  \* holder of lifecycle_mutex_
  mutation,   \* holder of node_mutation_mutex_
  active,     \* registry.active_id: index into windows, 0 for none
  windows,    \* registry.records, in order of publication
  worker,     \* the worker thread of the active window
  instShutdown,   \* where Shutdown is; "no" before it is called
  disk,       \* the retained instrumentation document
  ops,        \* the client operations
  calls, commands, instFaults

instVars == <<cfg, own, up, lifecycle, mutation, active, windows, worker,
              instShutdown, disk, ops, calls, commands, instFaults>>

Free == "free"
Worker == "worker"
Closing == "shutdown"
Absent == [at |-> "none", id |-> 0, rev |-> 0, stop |-> FALSE, broken |-> FALSE]
IdleOp == [at |-> "idle", kind |-> "none", id |-> 0, targets |-> {},
           config |-> FirstConfig, cancelled |-> FALSE,
           before |-> <<>>]

ShuttingDown == instShutdown # "no"
Terminal(w) == w.state \in {"succeeded", "cancelled", "failed"}
RetainedWindows == Len(windows)

(* Revisions kept by the registry: one per start and one per reconfiguration. *)
RevisionsKept == [i \in 0..RetainedWindows |->
                    LET S[j \in 0..i] == IF j = 0 THEN 0
                                         ELSE S[j - 1] + windows[j].revision
                    IN S[i]][RetainedWindows]

RoomForRevision == RevisionsKept < MaxRevisions

InstInit ==
  /\ cfg = [n \in Nodes |-> FirstConfig] /\ own = cfg
  /\ up = [n \in Nodes |-> TRUE]
  /\ lifecycle = Free /\ mutation = Free
  /\ active = 0 /\ windows = <<>> /\ worker = Absent
  /\ instShutdown = "no"
  /\ disk = [active |-> 0, history |-> <<>>]
  /\ ops = [o \in Ops |-> IdleOp]
  /\ calls = 0 /\ commands = 0 /\ instFaults = 0

----------------------------------------------------------------------------
(* Counter transactions. *)

FaultBound == IF calls > MaxCalls THEN 0 ELSE MaxInstFaults
CommandBound == IF calls > MaxCalls THEN 0 ELSE MaxCommands
Faulted(f) == f \in {0, 1} /\ instFaults + f <= FaultBound /\ instFaults' = instFaults + f

(* ProcessPerfCounters::Open, CgroupPerfCounters::Open: every selected     *)
(* event of the configuration, or an error of the host.                    *)
Opens(c) == c \notin Unsupported

(* AttachNodePerfCounters and RequireNodePerfCounterAttachment: a process  *)
(* that runs must open its events; one that does not run is only reset.    *)
Attaches(n, c) == up[n] => Opens(c)

(* ReplaceNodePerfCountersTransactional: all assignments or none.  `to' is *)
(* a function from the nodes assigned to their new configuration and f = 1 *)
(* is an attachment that fails although the host supports it.              *)
Replaces(to, f) == f = 0 /\ \A n \in DOMAIN to : Attaches(n, to[n])
Over(base, to) == [n \in Nodes |-> IF n \in DOMAIN to THEN to[n] ELSE base[n]]
Replaced(to) == Over(cfg, to)

(* RestoreBaseline: the whole baseline, processes running or not. *)
Baseline(i) == windows[i].baseline

----------------------------------------------------------------------------
(* The retained document: PersistRetainedStateLocked. *)

Document(ws, a) ==
  [active |-> a,
   history |-> [i \in {j \in DOMAIN ws : Terminal(ws[j])} |-> ws[i].state]]

(* ReadRetainedInstrumentationHistory: a document that still names an       *)
(* active window is refused.                                                *)
Readable(d) == d.active = 0

(* PersistTerminalStateLocked: two attempts; the first failure marks the    *)
(* record failed.  f counts the attempts that fail.                         *)
PersistTerminal(ws, i, a, f) ==
  LET marked == IF f = 0 THEN ws ELSE [ws EXCEPT ![i].state = "failed"]
  IN /\ f \in 0..2 /\ instFaults + f <= FaultBound /\ instFaults' = instFaults + f
     /\ windows' = marked
     /\ disk' = IF f = 2 THEN disk ELSE Document(marked, a)

(* MarkRestored keeps a failed record failed and ends the window;           *)
(* MarkRestorationFailed leaves it active, so that stop can be tried again. *)
Restored(i, state, base) ==
  /\ windows' = [windows EXCEPT ![i].state = IF @ = "failed" THEN @ ELSE state]
  /\ active' = 0
  /\ cfg' = Over(base, Baseline(i))

NotRestored(i, base) ==
  /\ windows' = [windows EXCEPT ![i].state = "failed"]
  /\ cfg' = base
  /\ UNCHANGED active

(* CompleteAtSamplingBoundary, from the configurations in base. *)
Complete(i, state, base, f) ==
  /\ Faulted(f)
  /\ IF Replaces(Baseline(i), f) THEN Restored(i, state, base) ELSE NotRestored(i, base)

----------------------------------------------------------------------------
(* Client operations. *)

At(o, p) == ops[o].at = p
Moves(o, p) == ops' = [ops EXCEPT ![o].at = p]
Ends(o) == ops' = [ops EXCEPT ![o] = IdleOp]

Call(o, kind, targets, c) ==
  /\ At(o, "idle") /\ calls < (IF commands + instFaults = 0 THEN MaxQuietCalls ELSE MaxCalls)
  /\ instShutdown # "over"
  /\ calls' = calls + 1
  /\ ops' = [ops EXCEPT ![o] = [IdleOp EXCEPT !.at = "lifecycle", !.kind = kind, !.targets = targets,
                                             !.config = c]]
  /\ UNCHANGED <<cfg, own, up, lifecycle, mutation, active, windows, worker,
                 instShutdown, disk, commands, instFaults>>

(* The stop token of the operation, or the deadline of a stop. *)
CancelCall(o) ==
  /\ ~At(o, "idle") /\ ~ops[o].cancelled /\ Faulted(1)
  /\ ops' = [ops EXCEPT ![o].cancelled = TRUE]
  /\ UNCHANGED <<cfg, own, up, lifecycle, mutation, active, windows, worker,
                 instShutdown, disk, calls, commands>>

(* Waiting for a lock ends in a cancellation when the token is set. *)
GiveUp(o) ==
  /\ ops[o].cancelled /\ At(o, "lifecycle")
  /\ Ends(o)
  /\ UNCHANGED <<cfg, own, up, lifecycle, mutation, active, windows, worker,
                 instShutdown, disk, calls, commands, instFaults>>

(* Start is admitted under the lifecycle lock and writes its id as the      *)
(* active one before it touches a counter.                                  *)
Admissible == ~ShuttingDown /\ active = 0 /\ RoomForRevision /\ RetainedWindows < MaxWindows

EnterStart(o, f) ==
  /\ At(o, "lifecycle") /\ ~ops[o].cancelled /\ lifecycle = Free
  /\ Faulted(f)
  /\ CASE ops[o].kind # "start" -> f = 0 /\ lifecycle' = o /\ Moves(o, "mutation") /\ UNCHANGED disk
       [] ops[o].kind = "start" /\ ~Admissible -> f = 0 /\ Ends(o) /\ UNCHANGED <<lifecycle, disk>>
       [] OTHER ->
            /\ lifecycle' = o
            /\ disk' = IF f = 0 THEN Document(windows, RetainedWindows + 1) ELSE disk
            /\ ops' = [ops EXCEPT ![o].at = IF f = 0 THEN "mutation" ELSE "abandon", ![o].id = RetainedWindows + 1]
  /\ UNCHANGED <<cfg, own, up, mutation, active, windows, worker, instShutdown, calls, commands>>

(* Giving up at the node mutation lock: start has its marker to take back.  *)
LeaveAtMutation(o) ==
  /\ At(o, "mutation") /\ ops[o].cancelled /\ mutation # o
  /\ IF ops[o].kind = "start" THEN Moves(o, "abandon") /\ UNCHANGED lifecycle
     ELSE Ends(o) /\ lifecycle' = Free
  /\ UNCHANGED <<cfg, own, up, mutation, active, windows, worker, instShutdown, disk, calls, commands, instFaults>>

(* LiveInstrumentationConfigurations: one configuration for every target;   *)
(* ValidateLiveInstrumentationMappings: every target is a running node.     *)
Assignment(o) == [n \in ops[o].targets |-> ops[o].config]
Mapped(o) == \A n \in ops[o].targets : up[n]

(* CaptureRound and WriteMetricsSnapshot: a node that cannot be read is     *)
(* reported and skipped; only what all nodes share fails the round.         *)
RoundFails(f) == f = 1

(* Start, with both locks: admission again, the mapping of the targets,     *)
(* the counters of all of them, the baseline from what they had.            *)
Install(o, f) ==
  /\ At(o, "mutation") /\ ops[o].kind = "start" /\ ~ops[o].cancelled /\ mutation = Free
  /\ Faulted(f)
  /\ IF ShuttingDown \/ active # 0 \/ ~Mapped(o) \/ ~Replaces(Assignment(o), f)
     THEN Moves(o, "abandon") /\ UNCHANGED <<cfg, mutation>>
     ELSE /\ cfg' = Replaced(Assignment(o))
          /\ mutation' = o
          /\ ops' = [ops EXCEPT ![o].at = "publish", ![o].before = [n \in ops[o].targets |-> cfg[n]]]
  /\ UNCHANGED <<own, up, lifecycle, active, windows, worker, instShutdown, disk, calls, commands>>

(* CaptureRound and the publication of the record with its worker. *)
Publish(o, f) ==
  LET i == ops[o].id
      fails == RoundFails(f) \/ ops[o].cancelled \/ ShuttingDown \/ active # 0 \/ ~RoomForRevision
  IN
  /\ At(o, "publish") /\ Faulted(f)
  /\ mutation' = Free
  /\ IF fails
     THEN /\ cfg' = Replaced(ops[o].before)
          /\ Moves(o, "abandon")
          /\ UNCHANGED <<active, windows, worker, lifecycle>>
     ELSE /\ windows' = Append(windows, [state |-> "running", revision |-> 1, targets |-> ops[o].targets,
                                         config |-> ops[o].config, baseline |-> ops[o].before,
                                         due |-> FALSE])
          /\ active' = i
          /\ worker' = [Absent EXCEPT !.at = "wait", !.id = i, !.rev = 1]
          /\ lifecycle' = Free
          /\ Ends(o)
          /\ UNCHANGED cfg
  /\ UNCHANGED <<own, up, instShutdown, disk, calls, commands>>

(* The end of a failed start: the marker is taken back if it can be. *)
Abandon(o, f) ==
  /\ At(o, "abandon") /\ Faulted(f)
  /\ disk' = IF f = 0 THEN Document(windows, 0) ELSE disk
  /\ lifecycle' = Free
  /\ Ends(o)
  /\ UNCHANGED <<cfg, own, up, mutation, active, windows, worker, instShutdown, calls, commands>>

(* RequireActiveRecord, RequireSameActiveRecord: the id named by the caller *)
(* is the active one.  (A call names the window that is active when it gets *)
(* its locks; naming another one is refused in the same way as none.)       *)
RefuseStart(o) ==
  /\ At(o, "mutation") /\ ops[o].kind \in {"reconfigure", "stop"} /\ ~ops[o].cancelled /\ mutation = Free
  /\ IF ShuttingDown \/ active = 0 THEN TRUE
     ELSE /\ ops[o].kind = "reconfigure"
          /\ windows[active].state # "running" \/ (~windows[active].due /\ ~RoomForRevision)
  /\ Ends(o) /\ lifecycle' = Free
  /\ UNCHANGED <<cfg, own, up, mutation, active, windows, worker, instShutdown, disk, calls, commands, instFaults>>

(* Reconfigure: targets kept or added get the new configuration, targets    *)
(* dropped get their baseline back, all in one transaction.                 *)
NextAssignment(o) ==
  [n \in ops[o].targets \union windows[active].targets |->
     IF n \in ops[o].targets THEN ops[o].config ELSE Baseline(active)[n]]

Exchange(o, f) ==
  /\ At(o, "mutation") /\ ops[o].kind = "reconfigure" /\ ~ops[o].cancelled /\ mutation = Free
  /\ ~ShuttingDown /\ active # 0 /\ windows[active].state = "running"
  /\ ~windows[active].due /\ RoomForRevision
  /\ Faulted(f)
  /\ IF ~Mapped(o) \/ ~Replaces(NextAssignment(o), f)
     THEN Ends(o) /\ lifecycle' = Free /\ UNCHANGED <<cfg, mutation>>
     ELSE /\ cfg' = Replaced(NextAssignment(o))
          /\ mutation' = o
          /\ ops' = [ops EXCEPT ![o].at = "recheck", ![o].id = active,
                                ![o].before = [n \in DOMAIN NextAssignment(o) |-> cfg[n]]]
          /\ UNCHANGED lifecycle
  /\ UNCHANGED <<own, up, active, windows, worker, instShutdown, disk, calls, commands>>

\* Mutant: the baseline of a kept target becomes the window's own configuration.
FreshBaseline(o) == [n \in ops[o].targets |-> ops[o].before[n]]

NextBaseline(o) ==
  LET old == windows[active] IN
  [n \in ops[o].targets |-> IF n \in old.targets THEN old.baseline[n] ELSE ops[o].before[n]]

(* The second admission of a reconfiguration, then its publication. *)
Commit(o) ==
  /\ At(o, "recheck") /\ ~windows[ops[o].id].due
  /\ mutation' = Free /\ lifecycle' = Free /\ Ends(o)
  /\ IF ops[o].cancelled \/ ShuttingDown
     THEN cfg' = Replaced(ops[o].before) /\ UNCHANGED windows
     ELSE /\ windows' = [windows EXCEPT ![active] =
                           [@ EXCEPT !.targets = ops[o].targets, !.config = ops[o].config,
                                     !.baseline = NextBaseline(o), !.revision = @ + 1]]
          /\ UNCHANGED cfg
  /\ UNCHANGED <<own, up, active, worker, instShutdown, disk, calls, commands, instFaults>>

(* expire_at_boundary: the deadline was reached before or during the       *)
(* reconfiguration.  The worker is told to stop, the counters go back to    *)
(* the baseline, the worker is joined with the lifecycle lock held.         *)
Expire(o, f) ==
  /\ ops[o].kind = "reconfigure" /\ ~ops[o].cancelled /\ ~ShuttingDown
  /\ \/ At(o, "mutation") /\ mutation = Free /\ active # 0 /\ windows[active].state = "running" /\ windows[active].due
     \/ At(o, "recheck") /\ windows[active].due
  /\ Complete(active, "succeeded", IF At(o, "recheck") THEN Replaced(ops[o].before) ELSE cfg, f)
  /\ worker' = [worker EXCEPT !.stop = TRUE]
  /\ mutation' = Free
  /\ ops' = [ops EXCEPT ![o].at = "join", ![o].id = active]
  /\ UNCHANGED <<own, up, lifecycle, instShutdown, disk, calls, commands>>

(* A recheck past the deadline that cannot expire the window any more. *)
Withdraw(o) ==
  /\ At(o, "recheck") /\ windows[ops[o].id].due /\ (ops[o].cancelled \/ ShuttingDown)
  /\ mutation' = Free /\ lifecycle' = Free /\ Ends(o)
  /\ cfg' = Replaced(ops[o].before)
  /\ UNCHANGED <<own, up, active, windows, worker, instShutdown, disk, calls, commands, instFaults>>

(* Stop, with its locks. *)
StopWindow(o, f) ==
  /\ At(o, "mutation") /\ ops[o].kind = "stop" /\ ~ops[o].cancelled /\ mutation = Free
  /\ ~ShuttingDown /\ active # 0
  /\ Complete(active, "succeeded", cfg, f)
  /\ worker' = [worker EXCEPT !.stop = TRUE]
  /\ ops' = [ops EXCEPT ![o].at = "join", ![o].id = active]
  /\ UNCHANGED <<own, up, lifecycle, mutation, instShutdown, disk, calls, commands>>

(* JoinLiveInstrumentationWorker, then PersistTerminalStateLocked. *)
JoinAndPersist(o, f) ==
  /\ At(o, "join") /\ worker.at = "none"
  /\ PersistTerminal(windows, ops[o].id, active, f)
  /\ lifecycle' = Free
  /\ Ends(o)
  /\ UNCHANGED <<cfg, own, up, mutation, active, worker, instShutdown, calls, commands>>

----------------------------------------------------------------------------
(* The worker of the active window: RunWorker. *)

WorkerLeaves == worker' = Absent

\* Mutant: a changed configuration ends the worker.
WorkerWakesOnce ==
  /\ worker.at = "wait"
  /\ worker.stop \/ windows[worker.id].state # "running" \/ windows[worker.id].revision # worker.rev
  /\ WorkerLeaves
  /\ UNCHANGED <<cfg, own, up, lifecycle, mutation, active, windows, instShutdown, disk, ops, calls, commands, instFaults>>

(* The wait ends with a stop, with a window that is no longer running, or   *)
(* with a configuration that has changed.                                   *)
WorkerWakes ==
  /\ worker.at = "wait"
  /\ \/ (worker.stop \/ windows[worker.id].state # "running") /\ WorkerLeaves
     \/ /\ ~worker.stop /\ windows[worker.id].state = "running" /\ windows[worker.id].revision # worker.rev
        /\ worker' = [worker EXCEPT !.rev = windows[worker.id].revision]
  /\ UNCHANGED <<cfg, own, up, lifecycle, mutation, active, windows, instShutdown, disk, ops, calls, commands, instFaults>>

(* An exception outside a capture: CompleteFromWorker takes the locks again. *)
WorkerBreaks ==
  /\ worker.at = "wait" /\ ~worker.stop /\ ~worker.broken /\ Faulted(1)
  /\ worker' = [worker EXCEPT !.broken = TRUE]
  /\ UNCHANGED <<cfg, own, up, lifecycle, mutation, active, windows, instShutdown, disk, ops, calls, commands>>

(* A sample or the deadline is due: the lifecycle lock first. *)
WorkerEnters ==
  /\ worker.at = "wait" /\ ~worker.stop /\ windows[worker.id].state = "running"
  /\ worker.broken \/ windows[worker.id].revision = worker.rev
  /\ lifecycle = Free
  /\ lifecycle' = Worker
  /\ worker' = [worker EXCEPT !.at = "mutation"]
  /\ UNCHANGED <<cfg, own, up, mutation, active, windows, instShutdown, disk, ops, calls, commands, instFaults>>

WorkerGivesUp ==
  /\ worker.at = "mutation" /\ worker.stop
  /\ lifecycle' = Free /\ WorkerLeaves
  /\ UNCHANGED <<cfg, own, up, mutation, active, windows, instShutdown, disk, ops, calls, commands, instFaults>>

(* At the boundary the worker looks at the record again: it samples, or     *)
(* ends the window whose deadline has passed.                               *)
WorkerAtBoundary(f) ==
  /\ worker.at = "mutation" /\ ~worker.stop /\ mutation = Free
  /\ IF worker.broken \/ windows[worker.id].due
     THEN /\ Complete(worker.id, IF worker.broken THEN "failed" ELSE "succeeded", cfg, f)
          /\ worker' = [worker EXCEPT !.at = "persist"]
          /\ UNCHANGED mutation
     ELSE /\ Faulted(f) /\ f = 0
          /\ mutation' = Worker
          /\ worker' = [worker EXCEPT !.at = "capture"]
          /\ UNCHANGED <<cfg, active, windows>>
  /\ UNCHANGED <<own, up, lifecycle, instShutdown, disk, ops, calls, commands>>

(* CaptureRound: cancelled, failed (which ends the window), or done. *)
WorkerCaptures(f, g) ==
  /\ worker.at = "capture"
  /\ mutation' = Free
  /\ \/ /\ worker.stop /\ f = 0 /\ g = 0
        /\ WorkerLeaves /\ lifecycle' = Free
        /\ UNCHANGED <<cfg, active, windows, instFaults>>
     \/ /\ f = 0 /\ g = 0 /\ ~worker.stop
        /\ worker' = [worker EXCEPT !.at = "wait"] /\ lifecycle' = Free
        /\ UNCHANGED <<cfg, active, windows, instFaults>>
     \/ /\ RoundFails(f) /\ g \in {0, 1} /\ instFaults + f + g <= FaultBound /\ instFaults' = instFaults + f + g
        /\ IF Replaces(Baseline(worker.id), g) THEN Restored(worker.id, "failed", cfg) ELSE NotRestored(worker.id, cfg)
        /\ worker' = [worker EXCEPT !.at = "persist"]
        /\ UNCHANGED lifecycle
  /\ UNCHANGED <<own, up, instShutdown, disk, ops, calls, commands>>

WorkerPersists(f) ==
  /\ worker.at = "persist"
  /\ PersistTerminal(windows, worker.id, active, f)
  /\ lifecycle' = Free
  /\ WorkerLeaves
  /\ UNCHANGED <<cfg, own, up, mutation, active, instShutdown, ops, calls, commands>>

(* Any window may have a deadline; one that has none never takes this step. *)
WindowExpires ==
  /\ active # 0 /\ ~windows[active].due
  /\ windows' = [windows EXCEPT ![active].due = TRUE]
  /\ UNCHANGED <<cfg, own, up, lifecycle, mutation, active, worker, instShutdown, disk, ops, calls, commands, instFaults>>

----------------------------------------------------------------------------
(* The end of the run: Shutdown. *)

BeginShutdown ==
  /\ instShutdown = "no"
  /\ instShutdown' = "lifecycle"
  /\ worker' = [worker EXCEPT !.stop = worker.at # "none"]
  /\ UNCHANGED <<cfg, own, up, lifecycle, mutation, active, windows, disk, ops, calls, commands, instFaults>>

ShutdownEnters ==
  /\ instShutdown = "lifecycle" /\ lifecycle = Free
  /\ lifecycle' = Closing
  /\ instShutdown' = IF active = 0 THEN "join" ELSE "mutation"
  /\ UNCHANGED <<cfg, own, up, mutation, active, windows, worker, disk, ops, calls, commands, instFaults>>

ShutdownRestores(runFailed, f) ==
  /\ instShutdown = "mutation" /\ mutation = Free
  /\ Complete(active, IF runFailed THEN "failed" ELSE "cancelled", cfg, f)
  /\ instShutdown' = "join"
  /\ UNCHANGED <<own, up, lifecycle, mutation, worker, disk, ops, calls, commands>>

ShutdownPersists(f) ==
  /\ instShutdown = "join" /\ worker.at = "none" /\ Faulted(f)
  /\ disk' = IF f = 0 THEN Document(windows, active) ELSE disk
  /\ lifecycle' = Free
  /\ instShutdown' = "over"
  /\ UNCHANGED <<cfg, own, up, mutation, active, windows, worker, ops, calls, commands>>

----------------------------------------------------------------------------
(* Operator commands and processes, under the node mutation lock. *)

(* LiveInstrumentationCommandConflicts; the same test keeps a lent node     *)
(* from being removed, and no node is removed here.                         *)
Conflicts(n) == active # 0 /\ n \in DOMAIN Baseline(active)

(* ApplyPerfCounterCommand on one running node. *)
SetPerfCounters(n, c) ==
  /\ commands < CommandBound /\ mutation = Free /\ commands' = commands + 1
  /\ up[n] /\ ~Conflicts(n) /\ Opens(c)
  /\ cfg' = [cfg EXCEPT ![n] = c]
  /\ own' = [own EXCEPT ![n] = c]
  /\ UNCHANGED <<up, lifecycle, mutation, active, windows, worker, instShutdown, disk, ops, calls, instFaults>>

(* A process exits, or is started again and attached without being required. *)
Process(n) ==
  /\ commands < CommandBound /\ mutation = Free /\ commands' = commands + 1
  /\ up' = [up EXCEPT ![n] = ~@]
  /\ UNCHANGED <<cfg, own, lifecycle, mutation, active, windows, worker, instShutdown, disk, ops, calls, instFaults>>

----------------------------------------------------------------------------
OpStep(o) ==
  \/ GiveUp(o) \/ LeaveAtMutation(o) \/ RefuseStart(o) \/ Commit(o) \/ Withdraw(o)
  \/ \E f \in {0, 1} : \/ EnterStart(o, f) \/ Install(o, f) \/ Publish(o, f) \/ Abandon(o, f)
                       \/ Exchange(o, f) \/ Expire(o, f) \/ StopWindow(o, f)
  \/ \E f \in 0..2 : JoinAndPersist(o, f)

WindowStep ==
  \/ WorkerWakes \/ WorkerEnters \/ WorkerGivesUp
  \/ \E f \in {0, 1} : WorkerAtBoundary(f)
  \/ \E f, g \in {0, 1} : WorkerCaptures(f, g)
  \/ \E f \in 0..2 : WorkerPersists(f)

InstShutdownStep ==
  \/ ShutdownEnters
  \/ \E f \in {0, 1} : ShutdownPersists(f) \/ \E failed \in BOOLEAN : ShutdownRestores(failed, f)

InstNext ==
  \/ \E o \in Ops : \/ Call(o, "stop", Nodes, FirstConfig)
                    \/ \E r \in WindowRequests : Call(o, "reconfigure", r[1], r[2]) \/ Call(o, "start", r[1], r[2])
                    \/ CancelCall(o)
                    \/ OpStep(o)
  \/ WindowStep \/ WorkerBreaks \/ WindowExpires
  \/ BeginShutdown \/ InstShutdownStep
  \/ \E n \in Nodes : Process(n) \/ \E c \in CounterConfigs : SetPerfCounters(n, c)

----------------------------------------------------------------------------
(* Properties *)

InstTypeOK ==
  /\ cfg \in [Nodes -> CounterConfigs] /\ own \in [Nodes -> CounterConfigs] /\ up \in [Nodes -> BOOLEAN]
  /\ lifecycle \in Ops \union {Free, Worker, Closing} /\ mutation \in Ops \union {Free, Worker}
  /\ active \in 0..RetainedWindows /\ disk.active \in 0..(MaxWindows + 1)
  /\ worker.at \in {"none", "wait", "mutation", "capture", "persist"}
  /\ instShutdown \in {"no", "lifecycle", "mutation", "join", "over"}

CountersSettled == mutation \notin Ops

(* Between transactions a node has the configuration its commands gave it   *)
(* unless the active window borrows it, and a borrowed node has exactly the *)
(* window's configuration while the baseline holds the one to give back:    *)
(* whatever failed, was cancelled or expired on the way (RollBack,          *)
(* RestoreBaseline, the conflict check of commands).                        *)
CountersAreLent ==
  CountersSettled =>
    \A n \in Nodes :
      IF active # 0 /\ n \in windows[active].targets
      THEN cfg[n] = windows[active].config /\ windows[active].baseline[n] = own[n]
      ELSE cfg[n] = own[n]

(* The document names an active window before any counter is borrowed and  *)
(* as long as one is, so a reader of a run that died in between             *)
(* (ReadRetainedInstrumentationHistory) never takes borrowed counters for   *)
(* the nodes' own.                                                          *)
LoanIsOnRecord == Readable(disk) => (active = 0 /\ cfg = own)

(* A window retained as succeeded or cancelled gave its nodes back: it is   *)
(* not the active one, and no later state of it contradicts the document    *)
(* except a failure to write it.                                            *)
RetainedEndIsTrue ==
  \A i \in DOMAIN disk.history :
    /\ i \in 1..RetainedWindows /\ Terminal(windows[i])
    /\ disk.history[i] # "failed" => i # active /\ windows[i].state \in {disk.history[i], "failed"}

(* After shutdown no thread of the component is left, nothing more is       *)
(* borrowed unless restoring failed, and only a window in state failed may  *)
(* still be active.                                                         *)
ShutdownSettles ==
  instShutdown = "over" =>
    /\ worker.at = "none"
    /\ \A i \in 1..RetainedWindows : windows[i].state # "running"
    /\ active = 0 => cfg = own \/ ~CountersSettled
    /\ active # 0 => windows[active].state = "failed"

(* The registry retains a bounded number of windows and revisions, however *)
(* starts and reconfigurations interleave (the capacity is checked before   *)
(* the counters are touched and again before publication).                  *)
HistoryIsBounded == RetainedWindows <= MaxWindows /\ RevisionsKept <= MaxRevisions

(* A window that ended stays ended, and an ended one turns failed only when *)
(* its end could not be written (MarkPersistenceFailed).                    *)
EndIsFinal ==
  [][\A i \in 1..RetainedWindows :
       Terminal(windows[i]) =>
         /\ Terminal(windows'[i])
         /\ windows'[i].state # windows[i].state => windows'[i].state = "failed" /\ instFaults' > instFaults
         /\ active # i => active' # i]_instVars

(* The deadline of a window ends it: it does not run for ever. *)
DueWindowEnds == [](active # 0 /\ windows[active].due => <>(active = 0 \/ windows[active].state # "running"))

(* Shutdown ends, whoever holds the locks when it begins. *)
ShutdownEnds == [](instShutdown = "lifecycle" => <>(instShutdown = "over"))

\* Counters lent to a window are on record until they are given back, what is
\* retained of a window is true, the history is bounded and shutdown settles
\* every window.
InstrumentationCorrect ==
    /\ InstTypeOK
    /\ CountersAreLent
    /\ LoanIsOnRecord
    /\ RetainedEndIsTrue
    /\ ShutdownSettles
    /\ HistoryIsBounded

=============================================================================
