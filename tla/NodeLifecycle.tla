--------------------------- MODULE NodeLifecycle ---------------------------
(***************************************************************************)
(* The life of one node's daemon process: the kill, stop, restart, freeze, *)
(* thaw and signal commands of the operator, the lifecycle supervisor that *)
(* applies the declared start_time, stop_time and restart policy, the      *)
(* start loop with its readiness wait, and the block producers (the        *)
(* scheduled miner and native mining) that have to be parked and revived   *)
(* around every one of them.                                               *)
(*                                                                         *)
(* A command and a pass of the supervisor hold the node mutation lock, so  *)
(* `owner' is the one that runs and `pc' where it is.  The daemon exits,   *)
(* the stop time comes, an operation is cancelled and the scheduler thread *)
(* produces blocks between any two of its steps.                           *)
(***************************************************************************)
EXTENDS Naturals, FiniteSets

CONSTANTS
    Setups,          \* the declared nodes a behaviour may be about
    MaxLifeFaults,   \* failures of the daemon, its RPC and the kernel
    MaxLifeCommands  \* operator commands

ASSUME LifeBounds == MaxLifeFaults \in Nat /\ MaxLifeCommands \in Nat

Policies == {"never", "on_failure", "always"}

\* A declared node: its mining mode, restart policy and whether it has a
\* start_time and a stop_time.
Setup == [mode : {"scheduled", "native", "none"}, policy : Policies,
          start : BOOLEAN, stop : BOOLEAN]

ASSUME SetupsAreDeclared == Setups \subseteq Setup

Lifecycles == {"CgroupReady", "Starting", "Running", "Stopping", "Stopped",
               "Killing", "Killed", "Restarting", "Failed"}

Kinds == {"kill", "stop", "restart", "freeze", "thaw", "signal"}

\* SimulationNodeRestartPhase, in order.
Phases == 0..4

VARIABLES
    setup,     \* the declared node
    life,      \* NodeRuntimeLifecycle
    gen,       \* the process generation: pid and restart count
    run,       \* the daemon of that generation runs
    doomed,    \* it was told to exit and has not yet
    frozen,    \* cgroup.freeze
    active,    \* the scheduler may select this miner
    inflight,  \* the scheduler thread is producing a block on it
    paused,    \* paused_scheduled_miners_ holds the node
    mark,      \* active_native_miner_ids_ holds the node
    mining,    \* the generation whose daemon mines natively, or 0
    owner, pc, job,
    cancel,    \* the running command's operation was cancelled
    unconf,    \* its outcome_unconfirmed flag
    stopReq,   \* the simulation was asked to stop
    due,       \* stop_time has come
    early,     \* start_time has come
    applied,   \* DeclarativeStopApplied
    answer,    \* what the last command reported
    watch,     \* the generation a delivered signal is observed on, or 0
    twice,     \* a daemon was spawned while another one ran (history)
    stuck,     \* a restart failed where RestartNode has no recovery (history)
    doubt,     \* a command has reported an unconfirmed outcome (history)
    ended,     \* the operator has asked for a kill or a stop (history)
    faults, commands

lifeVars == <<setup, life, gen, run, doomed, frozen, active, inflight, paused,
              mark, mining, owner, pc, job, cancel, unconf, stopReq, due,
              early, applied, answer, watch, twice, stuck, doubt, ended, faults, commands>>

procVars == <<gen, run, doomed, mining>>
minerVars == <<active, paused, mark>>
clockVars == <<setup, stopReq, due, early>>
countVars == <<faults, commands>>

NoJob == [kind |-> "none", controlled |-> FALSE, resume |-> FALSE,
          native |-> FALSE, admitted |-> FALSE, wasRun |-> FALSE,
          wasGen |-> 0, wasLife |-> "CgroupReady", phase |-> 0,
          attempted |-> FALSE, seen |-> FALSE, again |-> FALSE,
          after |-> "none", tried |-> FALSE, resumeOk |-> TRUE]

-----------------------------------------------------------------------------
(* The stop token the owner passes down, and the failures it may meet.     *)

Halted == stopReq \/ (owner = "command" /\ cancel)

Fault == faults < MaxLifeFaults /\ faults' = faults + 1
NoFault == UNCHANGED faults

\* A wait for the exit runs out: always when nothing told the daemon to
\* exit, as a failure of the daemon otherwise.
Deadline == IF doomed THEN Fault ELSE NoFault

\* NodeRestartPolicyAllowsRestart for the exit statuses a daemon may have.
NodeRestartPolicyAllowsRestart ==
    CASE setup.policy = "never"      -> {FALSE}
      [] setup.policy = "always"     -> {TRUE}
      [] setup.policy = "on_failure" -> BOOLEAN

Scheduled == setup.mode = "scheduled"

\* RequireNodeRunning.
RequireNodeRunning == life = "Running" /\ run

Go(p) == pc' = p /\ UNCHANGED <<owner, commands>>

-----------------------------------------------------------------------------
(* The world: the daemon, the clock, the operator and the scheduler.       *)

\* ChildProcess::running observes the exit of a daemon that was told to
\* exit, or that exits by itself.
ProcessExits ==
    /\ run
    /\ \/ doomed /\ NoFault
       \/ ~doomed /\ ~frozen /\ Fault
    /\ run' = FALSE
    /\ doomed' = FALSE
    /\ mining' = 0
    /\ UNCHANGED <<setup, life, gen, frozen, active, inflight, paused, mark,
                   owner, pc, job, cancel, unconf, stopReq, due, early,
                   applied, answer, watch, twice, stuck, doubt, ended, commands>>

\* The declared times are reached.
ClockReaches ==
    /\ \/ setup.stop /\ ~due /\ due' = TRUE /\ UNCHANGED early
       \/ setup.start /\ ~early /\ early' = TRUE /\ UNCHANGED due
    /\ UNCHANGED <<setup, life, procVars, frozen, minerVars, inflight, owner,
                   pc, job, cancel, unconf, stopReq, applied, answer, watch,
                   twice, stuck, doubt, ended, countVars>>

\* An MCP operation is cancelled while its command runs.
Cancel ==
    /\ owner = "command" /\ job.controlled /\ ~cancel
    /\ cancel' = TRUE
    /\ UNCHANGED <<life, procVars, frozen, minerVars, inflight, owner, pc, job,
                   unconf, clockVars, applied, answer, watch, twice, stuck, doubt, ended,
                   countVars>>

\* The run is asked to stop from outside.
RunStops ==
    /\ ~stopReq
    /\ stopReq' = TRUE
    /\ UNCHANGED <<setup, life, procVars, frozen, minerVars, inflight, owner,
                   pc, job, cancel, unconf, due, early, applied, answer,
                   watch, twice, stuck, doubt, ended, countVars>>

\* ProbabilisticBlockScheduler::Run selects an active miner and calls the
\* production handler outside its lock.
SelectMiner ==
    /\ active /\ ~inflight
    /\ inflight' = TRUE
    /\ UNCHANGED <<life, procVars, frozen, minerVars, owner, pc, job, cancel,
                   unconf, clockVars, applied, answer, watch, twice, stuck, doubt, ended,
                   countVars>>

ProduceBlock ==
    /\ inflight
    /\ inflight' = FALSE
    /\ UNCHANGED <<life, procVars, frozen, minerVars, owner, pc, job, cancel,
                   unconf, clockVars, applied, answer, watch, twice, stuck, doubt, ended,
                   countVars>>

-----------------------------------------------------------------------------
(* Commands: admission, the scheduled miner, the answer.                   *)

\* The handler takes the node mutation lock.  An operator's command has no
\* operation control; one of an MCP operation has.
BeginCommand(k, c) ==
    /\ owner = "none" /\ ~stopReq
    /\ commands < MaxLifeCommands
    /\ commands' = commands + 1
    /\ owner' = "command"
    /\ job' = [NoJob EXCEPT !.kind = k, !.controlled = c, !.native = mark]
    /\ cancel' = FALSE
    /\ unconf' = FALSE
    /\ ended' = (ended \/ k \in {"kill", "stop"})
    /\ answer' = "pending"
    /\ pc' = IF k \in {"thaw", "signal"} THEN k ELSE "quiesce"
    /\ UNCHANGED <<life, procVars, frozen, minerVars, inflight, clockVars,
                   applied, watch, twice, stuck, doubt, faults>>

\* ProbabilisticBlockScheduler::StopMiner: the miner is no longer selected ...
StopMiner ==
    /\ pc = "quiesce"
    /\ job' = [job EXCEPT !.resume =
                 active \/ (paused /\ job.kind \in {"kill", "stop", "restart"})]
    /\ active' = FALSE
    /\ Go("drain")
    /\ UNCHANGED <<life, procVars, frozen, inflight, paused, mark, cancel,
                   unconf, clockVars, applied, answer, watch, twice, stuck, doubt, ended,
                   faults>>

\* ... and the block it may be producing is waited for.  A restart keeps
\* the intent to resume as a pause mark.
Drained ==
    /\ pc = "drain" /\ ~inflight
    /\ paused' = (paused \/ (job.kind = "restart" /\ job.resume))
    /\ Go(job.kind)
    /\ UNCHANGED <<life, procVars, frozen, active, mark, inflight, job, cancel,
                   unconf, clockVars, applied, answer, watch, twice, stuck, doubt, ended,
                   faults>>

\* The end of a command or of a pass.
Release == owner' = "none" /\ pc' = "idle" /\ job' = NoJob
           /\ UNCHANGED commands

\* StartMiner and the removal of the pause mark.
Resume == active' = Scheduled /\ paused' = FALSE

\* The scheduled miner after a kill or a stop that failed: revived on a node
\* that still runs, forgotten with a node that does not.
ReviveAfterFailure ==
    /\ pc = "revive"
    /\ IF run /\ job.resume /\ ~unconf
       THEN Resume /\ UNCHANGED mark
       ELSE IF ~run THEN paused' = FALSE /\ mark' = FALSE /\ UNCHANGED active
            ELSE UNCHANGED minerVars
    /\ doubt' = (doubt \/ unconf)
    /\ answer' = IF unconf THEN "unconfirmed" ELSE "failed"
    /\ Release
    /\ UNCHANGED <<life, procVars, frozen, inflight, cancel, unconf, clockVars,
                   applied, watch, twice, stuck, ended, faults>>

\* A kill or a stop that succeeded forgets the node's miners.
CommandDone ==
    /\ pc = "done"
    /\ paused' = FALSE
    /\ mark' = FALSE
    /\ answer' = "ok"
    /\ Release
    /\ UNCHANGED <<life, active, procVars, frozen, inflight, cancel, unconf,
                   clockVars, applied, watch, twice, stuck, doubt, ended, faults>>

-----------------------------------------------------------------------------
(* Kill.                                                                   *)

KillAdmitted ==
    /\ pc = "kill"
    /\ IF RequireNodeRunning
       THEN life' = "Killing" /\ Go("killThaw")
       ELSE UNCHANGED life /\ Go("killCatch")
    /\ UNCHANGED <<procVars, frozen, minerVars, inflight, job, cancel, unconf,
                   clockVars, applied, answer, watch, twice, stuck, doubt, ended, faults>>

\* SetNodeFrozen(false) inside kill, stop and restart: it may be refused by
\* the token before the write, and may fail or be cancelled after it.
Thawing(from, next, catch) ==
    /\ pc = from
    /\ \/ ~frozen /\ frozen' = FALSE /\ Go(next) /\ NoFault
       \/ frozen /\ ~Halted /\ frozen' = FALSE /\ Go(next) /\ NoFault
       \/ frozen /\ Halted /\ frozen' \in BOOLEAN /\ Go(catch) /\ NoFault
       \/ frozen /\ frozen' \in BOOLEAN /\ Go(catch) /\ Fault

KillThaw ==
    /\ Thawing("killThaw", "killSignal", "killCatch")
    /\ UNCHANGED <<life, procVars, minerVars, inflight, job, cancel, unconf,
                   clockVars, applied, answer, watch, twice, stuck, doubt, ended>>

\* RequestNodeKill.
KillSignal ==
    /\ pc = "killSignal"
    /\ doomed' = run
    /\ Go("killWait")
    /\ UNCHANGED <<life, gen, run, mining, frozen, minerVars, inflight, job,
                   cancel, unconf, clockVars, applied, answer, watch, twice,
                   stuck, doubt, ended, faults>>

\* The wait for the exit: it ends, runs out, or is cancelled.
KillWait ==
    /\ pc = "killWait"
    /\ \/ ~run /\ life' = "Killed" /\ Go("done") /\ NoFault
       \/ Halted /\ UNCHANGED life /\ Go("killReconcile") /\ NoFault
       \/ run /\ life' = "Running" /\ Go("killCatch") /\ Fault
    /\ UNCHANGED <<procVars, frozen, minerVars, inflight, job, cancel, unconf,
                   clockVars, applied, answer, watch, twice, stuck, doubt, ended>>

\* A cancelled kill waits on without the token, up to its deadline.
KillReconcile ==
    /\ pc = "killReconcile"
    /\ Go("killCatch")
    /\ \/ ~run /\ UNCHANGED unconf /\ NoFault
       \/ run /\ unconf' = job.controlled /\ Deadline
    /\ UNCHANGED <<life, procVars, frozen, minerVars, inflight, job, cancel,
                   clockVars, applied, answer, watch, twice, stuck, doubt, ended>>

\* Mutant: a cancelled kill's lifecycle is taken for its success.
HopefulKillCatch ==
    /\ pc = "killCatch"
    /\ life' = IF life = "Killing" /\ ~unconf THEN "Killed" ELSE life
    /\ Go("revive")
    /\ UNCHANGED <<procVars, frozen, minerVars, inflight, job, cancel, unconf,
                   clockVars, applied, answer, watch, twice, stuck, doubt, ended, faults>>

\* The outer handler reads the process once more under the process lock.
KillCatch ==
    /\ pc = "killCatch"
    /\ life' = CASE life = "Killing" /\ run /\ ~unconf -> "Running"
                 [] life = "Killing" /\ ~run -> "Killed"
                 [] OTHER -> life
    /\ unconf' = (unconf /\ ~(life = "Killing" /\ ~run))
    /\ Go("revive")
    /\ UNCHANGED <<procVars, frozen, minerVars, inflight, job, cancel,
                   clockVars, applied, answer, watch, twice, stuck, doubt, ended, faults>>

-----------------------------------------------------------------------------
(* StopNodeProcess: for the stop command, for the supervisor's declarative *)
(* stop, and for one that interrupts a start (allow_rpc_unavailable).      *)

\* Where control goes when StopNodeProcess throws: the command's handler,
\* or out of the supervisor, which stops the run.
StopThrows == CASE job.kind = "stop" -> "revive"
                [] job.after \in {"false", "throw"} -> "startThrew"
                [] OTHER -> "fatal"

StopReturns == CASE job.kind = "stop" -> "done"
                 [] job.after = "false" -> "startFalse"
                 [] job.after = "throw" -> "startThrew"
                 [] OTHER -> "passDone"

AllowRpcUnavailable == job.after \in {"false", "throw"}

StopAdmitted ==
    /\ pc = "stop"
    /\ IF ~Halted /\ run /\ (\/ life = "Running"
                             \/ AllowRpcUnavailable /\ life = "Starting")
       THEN /\ life' = "Stopping"
            /\ Go("stopThaw")
            /\ job' = [job EXCEPT !.attempted = (life = "Running")]
       ELSE UNCHANGED <<life, job>> /\ Go(StopThrows)
    /\ UNCHANGED <<procVars, frozen, minerVars, inflight, cancel, unconf,
                   clockVars, applied, answer, watch, twice, stuck, doubt, ended, faults>>

StopThaw ==
    /\ Thawing("stopThaw", "stopRpc", "stopCatch")
    /\ UNCHANGED <<life, procVars, minerVars, inflight, job, cancel, unconf,
                   clockVars, applied, answer, watch, twice, stuck, doubt, ended>>

\* The stop RPC, skipped before readiness and tolerated when a start is
\* interrupted; then SIGTERM and SIGKILL.
StopRpc ==
    /\ pc = "stopRpc"
    /\ \/ ~Halted /\ doomed' = run /\ Go("stopWait") /\ NoFault
       \/ /\ job.attempted /\ ~AllowRpcUnavailable
          /\ \/ Halted /\ doomed' \in {doomed, run} /\ NoFault
             \/ UNCHANGED doomed /\ Fault
          /\ Go("stopCatch")
       \/ /\ AllowRpcUnavailable /\ Halted
          /\ doomed' = run /\ Go("stopWait") /\ NoFault
    /\ UNCHANGED <<life, gen, run, mining, frozen, minerVars, inflight, job,
                   cancel, unconf, clockVars, applied, answer, watch, twice,
                   stuck, doubt, ended>>

StopWait ==
    /\ pc = "stopWait"
    /\ \/ /\ ~run /\ life' = "Stopped" /\ Go(StopReturns) /\ NoFault
       \/ /\ run /\ UNCHANGED life /\ Go("stopCatch")
          /\ (Halted /\ NoFault) \/ (~Halted /\ Fault)
    /\ UNCHANGED <<procVars, frozen, minerVars, inflight, job, cancel, unconf,
                   clockVars, applied, answer, watch, twice, stuck, doubt, ended>>

\* The handler: a cancelled stop waits for the exit that its request may
\* still bring about; otherwise the process decides what the node is.
StopCatch ==
    /\ pc = "stopCatch"
    /\ LET reconciling == job.controlled /\ cancel /\ job.attempted
           lost        == reconciling /\ run IN
       /\ \/ reconciling /\ run /\ Deadline
          \/ ~(reconciling /\ run) /\ NoFault
       /\ unconf' = lost
       /\ life' = CASE ~run /\ (reconciling \/ ~AllowRpcUnavailable) -> "Stopped"
                    [] run /\ ~lost /\ ~AllowRpcUnavailable -> "Running"
                    [] OTHER -> life
    /\ Go(StopThrows)
    /\ UNCHANGED <<procVars, frozen, minerVars, inflight, job, cancel,
                   clockVars, applied, answer, watch, twice, stuck, doubt, ended>>

-----------------------------------------------------------------------------
(* RestartNode.                                                            *)

RestartThrows == IF owner = "command" THEN "restartCatch" ELSE "fatal"

RestartAdmitted ==
    /\ pc = "restart"
    /\ IF /\ ~Halted /\ ~applied
          /\ ~(setup.start /\ life = "CgroupReady")
          /\ life \in {"Running", "Failed", "Stopped", "Killed"}
       THEN /\ life' = "Restarting"
            /\ job' = [job EXCEPT !.admitted = TRUE, !.wasRun = run,
                                  !.wasGen = gen, !.wasLife = life]
            /\ Go("restartThaw")
       ELSE UNCHANGED <<life, job>> /\ Go(RestartThrows)
    /\ UNCHANGED <<procVars, frozen, minerVars, inflight, cancel, unconf,
                   clockVars, applied, answer, watch, twice, stuck, doubt, ended, faults>>

\* The thaw is outside every handler of RestartNode: when it fails without
\* a cancellation the node stays in Restarting.
RestartThaw ==
    /\ Thawing("restartThaw", "restartStop", RestartThrows)
    /\ stuck' = (stuck \/ pc' = RestartThrows)
    /\ UNCHANGED <<life, procVars, minerVars, inflight, job, cancel, unconf,
                   clockVars, applied, answer, watch, twice, doubt, ended>>

\* The stop RPC of the old daemon.
RestartStop ==
    /\ pc = "restartStop"
    /\ \/ /\ ~run
          /\ job' = [job EXCEPT !.phase = 2]
          /\ UNCHANGED <<life, doomed>> /\ Go("restartWait") /\ NoFault
       \/ /\ run /\ ~Halted
          /\ job' = [job EXCEPT !.phase = 1]
          /\ doomed' = TRUE /\ UNCHANGED life
          /\ Go("restartWait") /\ NoFault
       \/ /\ run
          /\ job' = [job EXCEPT !.phase = 1]
          /\ Go(RestartThrows)
          /\ \/ /\ Halted /\ NoFault /\ doomed' \in BOOLEAN
                /\ life' = IF owner = "command" THEN life ELSE "Running"
             \/ ~Halted /\ Fault /\ UNCHANGED doomed /\ life' = "Running"
    /\ UNCHANGED <<gen, run, mining, frozen, minerVars, inflight, cancel,
                   unconf, clockVars, applied, answer, watch, twice, stuck, doubt, ended>>

\* Up to fifteen seconds for the RPC, then SIGTERM and SIGKILL.
RestartWait ==
    /\ pc = "restartWait"
    /\ \/ /\ ~run /\ NoFault
          /\ job' = [job EXCEPT !.phase = 2, !.again = TRUE, !.seen = FALSE]
          /\ Go(IF Halted THEN RestartThrows ELSE "attempt")
          /\ UNCHANGED <<doomed, stuck>>
       \/ /\ run /\ Halted /\ NoFault
          /\ doomed' = TRUE /\ Go(RestartThrows) /\ UNCHANGED <<job, stuck>>
       \/ /\ run /\ ~Halted /\ Fault
          /\ doomed' = TRUE /\ stuck' = TRUE /\ Go(RestartThrows)
          /\ UNCHANGED job
    /\ UNCHANGED <<life, gen, run, mining, frozen, minerVars, inflight, cancel,
                   unconf, clockVars, applied, answer, watch, twice, doubt, ended>>

\* The replacement answers: the node is Running again.
RestartReady ==
    /\ pc = "restartReady"
    /\ job' = [job EXCEPT !.phase = 4]
    /\ life' = "Running"
    /\ Go(IF job.native \/ (owner = "supervisor" /\ setup.mode = "native")
          THEN "mine" ELSE "restarted")
    /\ UNCHANGED <<procVars, frozen, minerVars, inflight, cancel, unconf,
                   clockVars, applied, answer, watch, twice, stuck, doubt, ended, faults>>

\* StartNativeMiningForCurrentProcess: the RPC ...
MineNatively ==
    /\ pc = "mine"
    /\ \/ /\ RequireNodeRunning /\ ~Halted /\ NoFault
          /\ mining' = gen /\ Go("mined")
          /\ job' = [job EXCEPT !.attempted = TRUE]
       \/ /\ ~RequireNodeRunning /\ NoFault
          /\ UNCHANGED <<mining, job>> /\ Go(RestartThrows)
       \/ /\ RequireNodeRunning
          /\ (Halted /\ NoFault) \/ Fault
          /\ mining' \in {mining, gen} /\ Go(RestartThrows)
          /\ job' = [job EXCEPT !.attempted = TRUE]
    /\ UNCHANGED <<life, gen, run, doomed, frozen, minerVars, inflight, cancel,
                   unconf, clockVars, applied, answer, watch, twice, stuck, doubt, ended>>

\* ... and the check that the process it was for is still the current one.
MinedNatively ==
    /\ pc = "mined"
    /\ IF RequireNodeRunning
       THEN mark' = TRUE /\ Go("restarted")
       ELSE /\ UNCHANGED mark
            /\ Go(IF owner = "command" THEN "restartCatch" ELSE "passDone")
    /\ UNCHANGED <<life, procVars, frozen, active, paused, inflight, job,
                   cancel, unconf, clockVars, applied, answer, watch, twice,
                   stuck, doubt, ended, faults>>

\* The end of a restart: the command revives what it parked, the
\* supervisor starts the configured miner.
Restarted ==
    /\ pc = "restarted"
    /\ IF owner = "command"
       THEN /\ answer' = "ok"
            /\ IF job.resume THEN Resume ELSE UNCHANGED <<active, paused>>
       ELSE /\ UNCHANGED <<answer, paused>>
            /\ active' = (active \/ Scheduled)
    /\ Release
    /\ UNCHANGED <<life, mark, procVars, frozen, inflight, cancel, unconf,
                   clockVars, applied, watch, twice, stuck, doubt, ended, faults>>

-----------------------------------------------------------------------------
(* A failed restart command.                                               *)

RestartCatch ==
    /\ pc = "restartCatch"
    /\ Go(IF Halted /\ job.admitted THEN "reconcile" ELSE "nativeCatch")
    /\ UNCHANGED <<life, procVars, frozen, minerVars, inflight, job, cancel,
                   unconf, clockVars, applied, answer, watch, twice, stuck, doubt, ended,
                   faults>>

\* ReconcileCancelledSimulationNodeRestart: what the process shows, or
\* "wait" while it shows nothing yet.
Reconciliation ==
    LET changed == gen # job.wasGen IN
    CASE job.phase = 0 -> IF run = job.wasRun /\ ~changed
                          THEN "unchanged" ELSE "unconfirmed"
      [] job.phase > 0 /\ ~job.wasRun /\ ~run /\ ~changed -> "unchanged"
      [] job.phase > 0 /\ ~run /\ (\/ job.tried \/ job.phase >= 2 \/ ~changed)
                               /\ ~(~job.wasRun /\ ~changed) -> "stopped"
      [] job.phase >= 3 /\ run /\ changed -> "ready"
      [] OTHER -> "wait"

\* The unready replacement is killed once; the deadline ends the wait.
ReconcileWait ==
    /\ pc = "reconcile" /\ Reconciliation = "wait"
    /\ run /\ gen # job.wasGen /\ ~job.tried
    /\ job' = [job EXCEPT !.tried = TRUE]
    /\ doomed' = TRUE
    /\ Go("reconcile")
    /\ UNCHANGED <<life, gen, run, mining, frozen, minerVars, inflight, cancel,
                   unconf, clockVars, applied, answer, watch, twice, stuck, doubt, ended,
                   faults>>

\* ReconciledSimulationNodeRestartLifecycle.
Reconciled(r) ==
    CASE life = "Failed"    -> "Failed"
      [] r = "unchanged"    -> job.wasLife
      [] r = "stopped"      -> "Stopped"
      [] r = "ready"        -> "Running"
      [] r = "unconfirmed"  -> "Restarting"

Reconcile ==
    /\ pc = "reconcile"
    /\ \E r \in {"unchanged", "stopped", "ready", "unconfirmed"} :
         /\ \/ Reconciliation = r /\ NoFault
            \/ Reconciliation = "wait" /\ r = "unconfirmed" /\ Deadline
         /\ life' = Reconciled(r)
         /\ unconf' = (unconf \/ r = "unconfirmed")
         /\ job' = [job EXCEPT !.resumeOk = (r # "unconfirmed")]
    /\ Go("nativeCatch")
    /\ UNCHANGED <<procVars, frozen, minerVars, inflight, cancel, clockVars,
                   applied, answer, watch, twice, stuck, doubt, ended>>

\* Native mining after a failed restart: the mark is kept for the original
\* process, removed when the replacement is known not to mine.
NativeCatch ==
    /\ pc = "nativeCatch"
    /\ LET original    == job.wasRun /\ run /\ gen = job.wasGen
           replacement == ~original /\ run IN
       IF ~(job.native /\ job.admitted)
       THEN UNCHANGED <<mining, mark, job, unconf>> /\ NoFault
       ELSE \/ /\ mark' = (mark /\ original)
               /\ mining' = IF replacement /\ job.attempted THEN 0 ELSE mining
               /\ UNCHANGED <<job, unconf>> /\ NoFault
            \/ /\ replacement /\ job.attempted
               /\ mining' \in {mining, 0}
               /\ UNCHANGED mark /\ Fault
               /\ job' = [job EXCEPT !.resumeOk = FALSE]
               /\ unconf' = TRUE
    /\ Go("restartFailed")
    /\ UNCHANGED <<life, gen, run, doomed, frozen, active, paused, inflight,
                   cancel, clockVars, applied, answer, watch, twice, stuck, doubt, ended>>

\* Without an operation that could carry it, an unconfirmed restart stops
\* the run; otherwise the parked miner of a running node is revived.
RestartFailed ==
    /\ pc = "restartFailed"
    /\ doubt' = (doubt \/ unconf)
    /\ answer' = IF unconf THEN "unconfirmed" ELSE "failed"
    /\ IF ~job.controlled /\ unconf
       THEN stopReq' = TRUE /\ UNCHANGED <<active, paused>>
       ELSE /\ UNCHANGED stopReq
            /\ IF job.resume /\ job.resumeOk /\ run THEN Resume
               ELSE UNCHANGED <<active, paused>>
    /\ Release
    /\ UNCHANGED <<setup, life, mark, procVars, frozen, inflight, cancel,
                   unconf, due, early, applied, watch, twice, stuck, ended, faults>>

-----------------------------------------------------------------------------
(* Freeze, thaw and signals.                                               *)

\* SetNodeFrozen(true) has no rollback: a write that was made stays.
Freeze ==
    /\ pc = "freeze"
    /\ \/ /\ RequireNodeRunning /\ ~Halted /\ NoFault
          /\ frozen' = TRUE /\ answer' = "ok"
          /\ paused' = (paused \/ job.resume) /\ UNCHANGED active
       \/ /\ ~RequireNodeRunning /\ NoFault
          /\ UNCHANGED <<frozen, paused>> /\ answer' = "failed"
          /\ active' = (active \/ (job.resume /\ Scheduled))
       \/ /\ RequireNodeRunning
          /\ \/ Halted /\ NoFault
             \/ Fault
          /\ frozen' \in {frozen, TRUE} /\ answer' = "failed"
          /\ active' = (active \/ (job.resume /\ Scheduled)) /\ UNCHANGED paused
    /\ Release
    /\ UNCHANGED <<life, procVars, mark, inflight, cancel, unconf, clockVars,
                   applied, watch, twice, stuck, doubt, ended>>

Thaw ==
    /\ pc = "thaw"
    /\ \/ /\ ~Halted /\ NoFault
          /\ frozen' = FALSE /\ answer' = "ok"
          /\ IF paused THEN Resume ELSE UNCHANGED <<active, paused>>
       \/ /\ (Halted /\ NoFault) \/ Fault
          /\ frozen' \in {frozen, FALSE} /\ answer' = "failed"
          /\ UNCHANGED <<active, paused>>
    /\ Release
    /\ UNCHANGED <<life, procVars, mark, inflight, cancel, unconf, clockVars,
                   applied, watch, twice, stuck, doubt, ended>>

\* DeliverNodeSignal: the kernel takes or refuses it; a signal that was
\* taken is observed by the supervisor.
Signal ==
    /\ pc = "signal"
    /\ IF RequireNodeRunning /\ ~Halted
       THEN /\ answer' = "ok"
            /\ \/ watch' = gen /\ doomed' \in {doomed, TRUE}
               \/ UNCHANGED <<watch, doomed>>
       ELSE answer' = "failed" /\ UNCHANGED <<watch, doomed>>
    /\ Release
    /\ UNCHANGED <<life, gen, run, mining, frozen, minerVars, inflight, cancel,
                   unconf, clockVars, applied, twice, stuck, doubt, ended, faults>>

-----------------------------------------------------------------------------
(* StartNodeProcessWithPolicy, for a restart and for a declared start.     *)

StartThrows == IF job.kind = "start" THEN "fatal" ELSE RestartThrows

\* stop_due() while the caller's token is not stopped.
StopDue == due /\ ~Halted

\* A start that stop_time interrupts returns false, or throws when the
\* daemon had already exited once.
Interrupted == IF job.seen THEN "throw" ELSE "false"

\* StartNodeProcessAttempt up to the spawn.
Attempt ==
    /\ pc = "attempt" /\ ~StopDue
    /\ LET expected == IF job.again THEN "Restarting" ELSE "CgroupReady" IN
       \/ /\ Halted \/ life # expected
          /\ Go(StartThrows) /\ NoFault
          /\ UNCHANGED <<life, procVars, twice>>
       \/ /\ ~Halted /\ life = expected
          /\ life' = "Failed" /\ Go(StartThrows) /\ Fault
          /\ UNCHANGED <<procVars, twice>>
       \/ /\ ~Halted /\ life = expected
          /\ life' = "Starting" /\ Go("ready") /\ NoFault
          /\ gen' = gen + 1 /\ run' = TRUE /\ doomed' = FALSE /\ mining' = 0
          /\ twice' = (twice \/ run)
    /\ UNCHANGED <<frozen, minerVars, inflight, job, cancel, unconf,
                   clockVars, applied, answer, watch, stuck, doubt, ended>>

\* WaitReady under the exit monitor.
Ready ==
    /\ pc = "ready"
    /\ \/ /\ run /\ ~Halted /\ NoFault
          /\ life' = IF job.kind = "start" THEN "Running" ELSE life
          /\ Go(IF due THEN "declStop" ELSE
                IF job.kind = "start" THEN "connect" ELSE "restartReady")
          /\ job' = IF due THEN [job EXCEPT !.after = Interrupted]
                    ELSE [job EXCEPT !.phase = 3]
       \/ /\ run /\ (Halted \/ due) /\ NoFault
          /\ UNCHANGED life
          /\ Go(IF StopDue THEN "declStop" ELSE StartThrows)
          /\ job' = [job EXCEPT !.after = Interrupted]
       \/ /\ run /\ life' = "Failed" /\ Go(StartThrows) /\ Fault
          /\ UNCHANGED job
       \/ /\ ~run /\ life' = "Failed" /\ Go("exited") /\ NoFault
          /\ job' = [job EXCEPT !.seen = TRUE]
    /\ UNCHANGED <<procVars, frozen, minerVars, inflight, cancel, unconf,
                   clockVars, applied, answer, watch, twice, stuck, doubt, ended>>

\* NodeExitedBeforeRpcReady: the restart policy, and the back-off.
ExitedBeforeReady ==
    /\ pc = "exited" /\ NoFault
    /\ \E allows \in NodeRestartPolicyAllowsRestart :
         IF allows /\ ~due /\ ~Halted
         THEN /\ life' = "Restarting" /\ Go("attempt")
              /\ job' = [job EXCEPT !.again = TRUE]
         ELSE /\ UNCHANGED life
              /\ Go(IF StopDue THEN "declStop" ELSE StartThrows)
              /\ job' = [job EXCEPT !.after = "throw"]
    /\ UNCHANGED <<procVars, frozen, minerVars, inflight, cancel, unconf,
                   clockVars, applied, answer, watch, twice, stuck, doubt, ended>>

\* stop_time came before the next attempt, or during the back-off.
StopDueBeforeAttempt ==
    /\ pc = "attempt" /\ StopDue
    /\ job' = [job EXCEPT !.after = Interrupted]
    /\ Go("declStop")
    /\ UNCHANGED <<life, procVars, frozen, minerVars, inflight, cancel, unconf,
                   clockVars, applied, answer, watch, twice, stuck, doubt, ended, faults>>

\* ApplyDeclarativeStopDuringStart.
DeclarativeStop ==
    /\ pc = "declStop"
    /\ applied' = TRUE
    /\ IF run THEN UNCHANGED life /\ Go("stop")
       ELSE /\ life' = "Stopped"
            /\ Go(IF job.after = "false" THEN "startFalse" ELSE "startThrew")
    /\ UNCHANGED <<procVars, frozen, minerVars, inflight, job, cancel, unconf,
                   clockVars, answer, watch, twice, stuck, doubt, ended, faults>>

\* The start returned false, or threw.
StartEnds ==
    /\ \/ /\ pc = "startFalse"
          /\ Go(IF owner = "command" THEN "restartCatch" ELSE "passDone")
       \/ pc = "startThrew" /\ Go(StartThrows)
    /\ job' = [job EXCEPT !.after = "none"]
    /\ UNCHANGED <<life, procVars, frozen, minerVars, inflight, cancel, unconf,
                   clockVars, applied, answer, watch, twice, stuck, doubt, ended, faults>>

\* ConnectAvailableStartupPeers and the mining difficulty of a declared
\* start, then its miner.
ConnectStarted ==
    /\ pc = "connect"
    /\ \/ /\ Go(IF setup.mode = "native" THEN "mine" ELSE "restarted")
          /\ ~Halted /\ NoFault
       \/ Go("fatal") /\ ((Halted /\ NoFault) \/ Fault)
    /\ job' = [job EXCEPT !.after = "none"]
    /\ UNCHANGED <<life, procVars, frozen, minerVars, inflight, cancel, unconf,
                   clockVars, applied, answer, watch, twice, stuck, doubt, ended>>

-----------------------------------------------------------------------------
(* The supervisor.                                                         *)

\* What a pass over this node may find to do.
StopIsDue  == due /\ ~applied
StartIsDue == early /\ life = "CgroupReady"
HasExited  == life = "Running" /\ ~run

Supervise ==
    /\ owner = "none" /\ ~stopReq
    /\ StopIsDue \/ StartIsDue \/ HasExited \/ watch # 0
    /\ owner' = "supervisor"
    /\ job' = NoJob
    /\ cancel' = FALSE /\ unconf' = FALSE
    /\ pc' = CASE StopIsDue  -> "superStop"
               [] ~StopIsDue /\ StartIsDue -> "superStart"
               [] OTHER -> "superWatch"
    /\ UNCHANGED <<life, procVars, frozen, minerVars, inflight, clockVars,
                   applied, answer, watch, twice, stuck, doubt, ended, countVars>>

\* The declarative stop waits for the scheduled block, marks the stop and
\* stops the process.
SuperStopMiner ==
    /\ pc = "superStop"
    /\ active' = FALSE
    /\ Go("superDrain")
    /\ UNCHANGED <<life, procVars, frozen, paused, mark, inflight, job, cancel,
                   unconf, clockVars, applied, answer, watch, twice, stuck, doubt, ended,
                   faults>>

SuperStop ==
    /\ pc = "superDrain" /\ ~inflight
    /\ applied' = TRUE
    /\ IF run THEN UNCHANGED life /\ Go("stop")
       ELSE life' = "Stopped" /\ Go("passDone")
    /\ job' = [job EXCEPT !.kind = "declared"]
    /\ UNCHANGED <<procVars, frozen, minerVars, inflight, cancel, unconf,
                   clockVars, answer, watch, twice, stuck, doubt, ended, faults>>

\* StartPreparedNode.
SuperStart ==
    /\ pc = "superStart"
    /\ job' = [job EXCEPT !.kind = "start"]
    /\ Go(IF applied \/ run \/ Halted THEN "fatal" ELSE "attempt")
    /\ UNCHANGED <<life, procVars, frozen, minerVars, inflight, cancel, unconf,
                   clockVars, applied, answer, watch, twice, stuck, doubt, ended, faults>>

\* Mutant: a pass only publishes signal observations.
BlindSuperWatch ==
    /\ pc = "superWatch"
    /\ watch' = IF watch # gen \/ ~run THEN 0 ELSE watch
    /\ Go("passDone")
    /\ UNCHANGED <<life, job, procVars, frozen, minerVars, inflight, cancel,
                   unconf, clockVars, applied, answer, twice, stuck, doubt,
                   ended, faults>>

\* The exit is reaped, the signal observation published, the restart policy
\* applied; a policy that does not restart the node ends the run.
SuperWatch ==
    /\ pc = "superWatch"
    /\ watch' = IF watch # gen \/ ~run THEN 0 ELSE watch
    /\ IF ~HasExited THEN UNCHANGED <<life, job>> /\ Go("passDone")
       ELSE /\ life' = "Failed"
            /\ \E allows \in NodeRestartPolicyAllowsRestart :
                 IF allows THEN /\ Go("restart")
                                /\ job' = [job EXCEPT !.kind = "policy"]
                 ELSE Go("fatal") /\ UNCHANGED job
    /\ UNCHANGED <<procVars, frozen, minerVars, inflight, cancel, unconf,
                   clockVars, applied, answer, twice, stuck, doubt, ended, faults>>

\* A declarative stop forgets native mining.
PassDone ==
    /\ pc = "passDone"
    /\ mark' = (mark /\ ~applied)
    /\ Release
    /\ UNCHANGED <<life, active, paused, procVars, frozen, inflight, cancel,
                   unconf, clockVars, applied, answer, watch, twice, stuck, doubt, ended,
                   faults>>

\* lifecycle_failure: the simulation is stopped, the supervisor ends.
Fatal ==
    /\ pc = "fatal"
    /\ stopReq' = TRUE
    /\ Release
    /\ UNCHANGED <<setup, life, minerVars, procVars, frozen, inflight, cancel,
                   unconf, due, early, applied, answer, watch, twice, stuck, doubt, ended,
                   faults>>

-----------------------------------------------------------------------------
\* A declared node is prepared and waits for start_time, or the initial
\* start has brought it up.
LifeInit ==
    /\ setup \in Setups
    /\ life = IF setup.start THEN "CgroupReady" ELSE "Running"
    /\ gen = IF setup.start THEN 0 ELSE 1
    /\ run = ~setup.start
    /\ active = (setup.mode = "scheduled" /\ ~setup.start)
    /\ mark = (setup.mode = "native" /\ ~setup.start)
    /\ mining = IF setup.mode = "native" /\ ~setup.start THEN 1 ELSE 0
    /\ doomed = FALSE /\ frozen = FALSE /\ inflight = FALSE /\ paused = FALSE
    /\ owner = "none" /\ pc = "idle" /\ job = NoJob
    /\ cancel = FALSE /\ unconf = FALSE /\ stopReq = FALSE
    /\ due = FALSE /\ early = FALSE /\ applied = FALSE
    /\ answer = "none" /\ watch = 0 /\ twice = FALSE /\ stuck = FALSE /\ doubt = FALSE
    /\ ended = FALSE
    /\ faults = 0 /\ commands = 0

\* The steps of the command handler and of the supervisor.
OwnerStep ==
    \/ StopMiner \/ Drained \/ ReviveAfterFailure \/ CommandDone
    \/ KillAdmitted \/ KillThaw \/ KillSignal \/ KillWait \/ KillReconcile
    \/ KillCatch \/ StopAdmitted \/ StopThaw \/ StopRpc \/ StopWait \/ StopCatch
    \/ RestartAdmitted \/ RestartThaw \/ RestartStop \/ RestartWait
    \/ RestartReady \/ MineNatively \/ MinedNatively \/ Restarted
    \/ RestartCatch \/ ReconcileWait \/ Reconcile \/ NativeCatch
    \/ RestartFailed \/ Freeze \/ Thaw \/ Signal \/ Attempt \/ Ready
    \/ ExitedBeforeReady \/ StopDueBeforeAttempt \/ DeclarativeStop \/ StartEnds
    \/ ConnectStarted \/ SuperStopMiner \/ SuperStop \/ SuperStart \/ SuperWatch
    \/ PassDone \/ Fatal

LifeNext ==
    \/ ProcessExits \/ ClockReaches \/ Cancel \/ RunStops
    \/ SelectMiner \/ ProduceBlock
    \/ \E k \in Kinds, c \in BOOLEAN : BeginCommand(k, c)
    \/ Supervise
    \/ OwnerStep

-----------------------------------------------------------------------------
(* Properties.                                                             *)

\* Every variable has its type.
LifeTypeOK ==
    /\ setup \in Setups /\ life \in Lifecycles
    /\ gen \in Nat /\ mining \in 0..gen /\ watch \in 0..gen
    /\ {run, doomed, frozen, active, inflight, paused, mark, cancel, unconf,
        stopReq, due, early, applied, twice, stuck, doubt, ended} \subseteq BOOLEAN
    /\ owner \in {"none", "command", "supervisor"}
    /\ job.phase \in Phases
    /\ answer \in {"none", "pending", "ok", "failed", "unconfirmed"}
    /\ (owner = "none") <=> (pc = "idle")

Settled == owner = "none" /\ ~stopReq

\* When nobody works on the node, a lifecycle that says the node is down is
\* right: no daemon runs behind Stopped, Killed or CgroupReady.
DownMeansDown ==
    Settled /\ life \in {"Stopped", "Killed", "CgroupReady"} => ~run

\* No command or pass leaves the node in a transition, where every later
\* command is refused, unless an outcome was reported unconfirmed, a
\* restart failed at one of the two places that have no recovery, or the
\* node is past its stop_time and will never be started again.
NoForgottenTransition ==
    Settled /\ life \in {"Killing", "Stopping", "Starting", "Restarting"}
      => doubt \/ stuck \/ applied

\* The daemon is never spawned while its predecessor runs on the same data
\* directory.
NeverTwoDaemons == ~twice

\* A node past its stop_time has no daemon, or only one that was told to
\* exit and has yet to, once whoever applied the stop is done.
AppliedMeansStopped == Settled /\ applied => ~run \/ doomed \/ doubt

\* Freezes, thaws, restarts, signals and exits in any order never lose the
\* scheduled miner of a node that runs: it is selected, or its pause mark is
\* kept for the thaw or the restart that will resume it.
MinerIsNotLost ==
    Settled /\ Scheduled /\ life = "Running" /\ ~ended /\ ~applied
      => active \/ paused

\* The bookkeeping of native mining is right about the daemon: a marked
\* node that runs has a daemon that mines.
NativeMarkIsTrue ==
    Settled /\ ~doubt /\ mark /\ life = "Running" /\ run => mining = gen

\* An exit of a running node is noticed: the node is restarted or declared
\* failed, or the run stops.
ExitIsHandled == HasExited ~> (~HasExited \/ stopReq)

\* stop_time is eventually applied unless the run stops first.
StopTimeIsApplied == StopIsDue ~> (applied \/ stopReq)

\* Every command is answered.
CommandIsAnswered == (answer = "pending") ~> (answer # "pending")

\* The record of a node and its daemon agree: down means down, no transition is
\* forgotten, there are never two daemons, a declared stop that was applied has
\* stopped the node, and the miner and its native mark are neither lost nor
\* invented.
LifecycleCorrect ==
    /\ LifeTypeOK
    /\ DownMeansDown
    /\ NoForgottenTransition
    /\ NeverTwoDaemons
    /\ AppliedMeansStopped
    /\ MinerIsNotLost
    /\ NativeMarkIsTrue

=============================================================================
