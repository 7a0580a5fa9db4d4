------------------------- MODULE LiveApplication --------------------------
(***************************************************************************)
(* The life of a managed run as its owners see it: the editor's run        *)
(* controller that launches, stops, reaps and lists runs, the host         *)
(* application in front of it, the McpLiveApplication of the run with its  *)
(* services, views, lifecycle marks and request count, and the simulator   *)
(* thread that installs the services and takes them down again.            *)
(*                                                                         *)
(* What a service does is the business of LiveWorkloads, Instrumentation   *)
(* and RoleOperations, and what a command does of CommandPipeline; here a  *)
(* callback is a request inside a service.                                 *)
(***************************************************************************)
EXTENDS Integers, Sequences, FiniteSets

CONSTANTS
    Requests,       \* client requests, each made once
    LiveBudgets     \* which actors take part in a behaviour, and how often

VARIABLES
    budget,     \* the actors that take part and the faults still to come
    app,        \* the flags of the run's McpLiveApplication
    token,      \* run_stop_source_, request_stop_source_, simulation_stop_source
    held,       \* the services the application points to
    owned,      \* the services whose state the simulator thread keeps alive
    viewOpen,   \* the installed views, chain and pool, that answer
    req,        \* the requests
    mark,       \* who is inside MarkRunStopping, and where
    sim,        \* the worker thread of the run
    host,       \* the thread that stops the run: StopRun
    timer,      \* the duration timer of the run
    run,        \* the controller's record of the run
    reaper,     \* ReapTerminalRun or the controller's Shutdown
    disk,       \* what each run left on disk
    marks,      \* the lifecycle evidence of the run, in order
    reader,     \* a read of the run registry
    sub         \* a subscription to the run

liveVars == <<budget, app, token, held, owned, viewOpen, req, mark, sim, host,
              timer, run, reaper, disk, marks, reader, sub>>

Services == {"workload", "instrumentation", "role"}
Reads == {"readWorkload", "readInstrumentation", "report"}
Commands == {"command", "roleCommand"}
RequestKinds == Services \cup {"view"} \cup Commands \cup Reads
Views == {"chain", "pool"}
Actors == {"sim", "host", "timer"} \cup Requests
Generations == 1..2
NoRun == 0

ASSUME LiveBudgetsAssumption ==
    \A b \in LiveBudgets :
        /\ b.kinds \in [Requests -> RequestKinds \cup {"none"}]
        /\ {b.stop, b.timer, b.reader, b.lease, b.subscribe} \subseteq BOOLEAN
        /\ b.faults \in 0..3 /\ b.runs \in Generations

---------------------------------------------------------------------------
(* Reading the state.                                                      *)

IsTerminal == run.state \in {"kStopped", "kFailed"}

\* CurrentRun(false): the run the host sees, or none.
CurrentRun == IF run.gen # NoRun /\ ~IsTerminal THEN run.gen ELSE NoRun

Inside(r) == req[r].pc \in {"inside", "mark", "marking"}

\* What active_requests_ counts.
ActiveRequest(r) ==
    req[r].pc \in {"active", "inside", "mark", "marking", "finished"}

\* The closure of the plan, and with it its copy of the service's pointer,
\* lives from BuildOperation until the operation's thread has left it.
HoldsPlan(r) == ActiveRequest(r) \/ req[r].pc \in {"planned", "ended"}

\* The service a kind of request calls into. A read takes its copy of the
\* service only when it gets there, an operation with its plan.
ServiceOf(kind) ==
    CASE kind = "readWorkload" -> "workload"
      [] kind = "readInstrumentation" -> "instrumentation"
      [] OTHER -> kind

\* The processor executes a role command of the request with a copy of the role
\* service, whether the request still waits for it or not.
Executes(r) == req[r].copy = "held"

UseCount(s) ==
    Cardinality({r \in Requests :
        \/ req[r].kind = s /\ HoldsPlan(r)
        \/ s = "role" /\ Executes(r)
        \/ req[r].kind \in Reads /\ ServiceOf(req[r].kind) = s /\ Inside(r)})

InFlight(r) == HoldsPlan(r)

FreshApp == [started |-> FALSE, stopReq |-> FALSE, stopped |-> FALSE,
             shutdown |-> FALSE, quiet |-> FALSE, closed |-> FALSE,
             cancel |-> FALSE]

FreshToken == [run |-> FALSE, request |-> FALSE, sim |-> FALSE]

NoServices == [s \in Services |-> FALSE]

NoMark == [at |-> "none", first |-> FALSE]

---------------------------------------------------------------------------
(* The lifecycle marks of the application.                                 *)

\* The flag, under the application's lock; TRUE in .first tells the caller to
\* notify.
MarkFlag(a) ==
    IF app.stopped \/ app.shutdown
    THEN UNCHANGED <<app, mark>>
    ELSE /\ app' = [app EXCEPT !.stopReq = TRUE]
         /\ mark' = [mark EXCEPT ![a] =
                        [at |-> "close", first |-> ~app.stopReq]]

\* The run's stop token and the views, after the lock is released.
MarkCloses(a) ==
    /\ mark' = [mark EXCEPT ![a] =
                    IF mark[a].first THEN [mark[a] EXCEPT !.at = "notify"]
                                     ELSE NoMark]
    /\ viewOpen' = {}
    /\ token' = [token EXCEPT !.run = TRUE]

\* The controller's run_stopping callback.
RunStoppingCallback ==
    run' = IF IsTerminal THEN run ELSE [run EXCEPT !.state = "kStopping"]

MarkStep(a) ==
    \/ /\ mark[a].at = "close"
       /\ MarkCloses(a)
       /\ UNCHANGED <<run, marks>>
    \/ /\ mark[a].at = "notify"
       /\ mark' = [mark EXCEPT ![a] = NoMark]
       /\ RunStoppingCallback
       /\ marks' = Append(marks, "stopping")
       /\ UNCHANGED <<viewOpen, token>>

MarkProgress(a) ==
    /\ MarkStep(a)
    /\ UNCHANGED <<budget, app, held, owned, req, sim, host, timer, reaper,
                   disk, reader, sub>>

\* RequestStop: the stop source of the simulation; RequestHostedStop sets the
\* controller's record as well.
RequestStop == token' = [token EXCEPT !.sim = TRUE]

RequestHostedStop ==
    /\ run' = [run EXCEPT !.hostStop = TRUE,
                          !.state = IF IsTerminal THEN @ ELSE "kStopping"]
    /\ RequestStop

\* The controller's run_started callback.
RunStartedCallback ==
    run' = IF run.state = "kStarting"
           THEN [run EXCEPT !.reached = TRUE, !.state = "kActive"] ELSE run

---------------------------------------------------------------------------
(* The simulator thread: setting the run up.                               *)

To(pc) == [sim EXCEPT !.pc = pc]

\* An exception: to the handler of its kind, or out to the worker.
End(reason) ==
    [sim EXCEPT !.pc = "mark", !.reason = reason,
                !.failed = @ \/ reason = "failed"]

\* An exception before run_benchmark_headless goes straight to the worker,
\* which finalizes the lifecycle.
EndSetup(reason) == [End(reason) EXCEPT !.final = TRUE]

SetupKeeps == UNCHANGED <<app, token, held, owned, viewOpen, req, mark, host,
                          timer, run, reaper, marks, reader, sub>>

\* Until the root is prepared there is nothing to take back.
PrepareRun ==
    /\ sim.pc = "prepare"
    /\ \/ /\ disk' = [disk EXCEPT ![run.gen] = "root"]
          /\ sim' = To("setup")
          /\ UNCHANGED budget
       \/ /\ token.sim
          /\ sim' = EndSetup("cancelled")
          /\ UNCHANGED <<disk, budget>>
       \/ /\ budget.faults > 0
          /\ budget' = [budget EXCEPT !.faults = @ - 1]
          /\ sim' = EndSetup(IF token.sim THEN "cancelled" ELSE "failed")
          /\ UNCHANGED disk
    /\ SetupKeeps

\* The network plan and the scenario files. A set-up that fails or is stopped
\* removes the root again; if that fails too the root stays, and the run has
\* failed even when it was stopped.
SetUpRun ==
    LET Interrupt(n, reason, left) ==
            /\ budget.faults >= n
            /\ budget' = [budget EXCEPT !.faults = @ - n]
            /\ sim' = EndSetup(reason)
            /\ disk' = [disk EXCEPT ![run.gen] = left]
    IN  /\ sim.pc = "setup"
        /\ \/ sim' = To("instrumentation") /\ UNCHANGED <<disk, budget>>
           \/ token.sim /\ Interrupt(0, "cancelled", "absent")
           \/ token.sim /\ Interrupt(1, "failed", "root")
           \/ ~token.sim /\ Interrupt(1, "failed", "absent")
           \/ ~token.sim /\ Interrupt(2, "failed", "root")
        /\ SetupKeeps

\* SetInstrumentationService, SetWorkloadService and SetRoleService, in the
\* order of the start-up; each is refused once the application shuts down.
InstallOrder == [instrumentation |-> "workload", workload |-> "role",
                 role |-> "chain"]

InstallService ==
    /\ sim.pc \in Services
    /\ ~app.shutdown /\ (sim.pc = "workload" => ~app.closed)
    /\ held' = [held EXCEPT ![sim.pc] = TRUE]
    /\ owned' = [owned EXCEPT ![sim.pc] = TRUE]
    /\ sim' = To(InstallOrder[sim.pc])
    /\ UNCHANGED <<budget, app, token, viewOpen, req, mark, host, timer, run,
                   reaper, disk, marks, reader, sub>>

\* SetChainViewService, then SetPoolViewService: the new view replaces the old
\* one and the flags are read in one lock, and a view that was installed into a
\* stopping run is closed after the lock is released.
ClosingView == [chain |-> "closeChain", pool |-> "closePool"]
AfterView == [chain |-> "pool", pool |-> "start"]

SetViewService(v) ==
    /\ \/ /\ sim.pc = v
          /\ viewOpen' = viewOpen \cup {v}
          /\ sim' = To(IF app.stopReq \/ app.shutdown THEN ClosingView[v]
                       ELSE AfterView[v])
       \/ /\ sim.pc = ClosingView[v]
          /\ viewOpen' = viewOpen \ {v}
          /\ sim' = To(AfterView[v])
    /\ UNCHANGED <<budget, app, token, held, owned, req, mark, host, timer,
                   run, reaper, disk, marks, reader, sub>>

SetChainViewService == SetViewService("chain")
SetPoolViewService == SetViewService("pool")

\* MarkRunStarted: the flag under the lock, then callback and evidence.
MarkRunStarted ==
    /\ sim.pc = "start"
    /\ IF app.stopReq \/ app.stopped \/ app.shutdown
       THEN sim' = To("running") /\ UNCHANGED app
       ELSE /\ sim' = To("started")
            /\ app' = [app EXCEPT !.started = TRUE]
    /\ UNCHANGED <<budget, token, held, owned, viewOpen, req, mark, host,
                   timer, run, reaper, disk, marks, reader, sub>>

NotifyStarted ==
    /\ sim.pc = "started"
    /\ RunStartedCallback
    /\ marks' = Append(marks, "started")
    /\ sim' = To("running")
    /\ UNCHANGED <<budget, app, token, held, owned, viewOpen, req, mark, host,
                   timer, reaper, disk, reader, sub>>

\* The stop token is looked at throughout set-up and run; a failure of any of
\* their steps is caught by the same handlers.
RunInterrupted ==
    /\ sim.pc \in Services \cup Views \cup {"start", "running"}
    /\ \/ /\ token.sim
          /\ sim' = End(IF timer = "fired" THEN "duration" ELSE "cancelled")
          /\ UNCHANGED budget
       \/ /\ budget.faults > 0
          /\ budget' = [budget EXCEPT !.faults = @ - 1]
          /\ sim' = End("failed")
    /\ UNCHANGED <<app, token, held, owned, viewOpen, req, mark, host, timer,
                   run, reaper, disk, marks, reader, sub>>

RunCompletes ==
    /\ sim.pc = "running" /\ ~token.sim
    /\ sim' = End("normal")
    /\ UNCHANGED <<budget, app, token, held, owned, viewOpen, req, mark, host,
                   timer, run, reaper, disk, marks, reader, sub>>

\* The timer thread: the flag, MarkRunStopping, the stop request.
DurationTimer ==
    /\ \/ /\ timer = "armed" /\ sim.pc = "running"
          /\ timer' = "fired"
          /\ MarkFlag("timer")
          /\ UNCHANGED token
       \/ /\ timer = "fired" /\ mark["timer"].at = "none" /\ ~token.sim
          /\ RequestStop
          /\ UNCHANGED <<timer, app, mark>>
    /\ UNCHANGED <<budget, held, owned, viewOpen, req, sim, host, run, reaper,
                   disk, marks, reader, sub>>

---------------------------------------------------------------------------
(* The simulator thread: taking the run down. The three handlers and the   *)
(* normal end walk the same steps; they differ in what a failure on the    *)
(* way does.                                                               *)

Quietly == UNCHANGED <<run, reaper, host, req, disk, reader>>

\* A step of the ending fails: the normal end starts over in
\* handle_run_failure, the other handlers log it and go on.
StepFails(next) ==
    /\ budget.faults > 0
    /\ budget' = [budget EXCEPT !.faults = @ - 1]
    /\ sim' = IF sim.reason = "normal" /\ ~sim.final
              THEN End("failed") ELSE To(next)

EndMarks ==
    /\ sim.pc = "mark"
    /\ MarkFlag("sim")
    /\ sim' = To("timer")
    /\ Quietly
    /\ UNCHANGED <<budget, token, held, owned, viewOpen, timer, marks, sub>>

\* stop_duration_timer requests the timer's stop and joins it.
StopDurationTimer ==
    /\ sim.pc = "timer" /\ mark["sim"].at = "none"
    /\ \/ timer # "fired"
       \/ timer = "fired" /\ mark["timer"].at = "none" /\ token.sim
    /\ timer' = IF timer = "armed" THEN "none" ELSE timer
    /\ sim' = To(IF sim.final THEN "flag" ELSE "close")
    /\ Quietly
    /\ UNCHANGED <<budget, app, token, held, owned, viewOpen, mark, marks, sub>>

\* CloseWorkloadService, then RequestWorkloadServiceCancellation.
CloseWorkloadService ==
    /\ sim.pc = "close"
    /\ app' = [app EXCEPT !.closed = TRUE, !.cancel = TRUE]
    /\ held' = [held EXCEPT !["workload"] = FALSE]
    /\ sim' = To("drain")
    /\ Quietly
    /\ UNCHANGED <<budget, token, owned, viewOpen, mark, timer, marks, sub>>

WorkloadDrained ==
    \A r \in Requests : ServiceOf(req[r].kind) = "workload" => ~Inside(r)

\* WaitForWorkloadServiceDrain until its deadline; past it the timeout is
\* published and WaitForWorkloadServiceQuarantine waits on without a bound.
DrainTimesOut ==
    /\ sim.pc = "drain" /\ ~WorkloadDrained /\ ~sim.late
    /\ budget.faults > 0
    /\ budget' = [budget EXCEPT !.faults = @ - 1]
    /\ sim' = [sim EXCEPT !.late = TRUE]
    /\ marks' = Append(marks, "timeout")
    /\ Quietly
    /\ UNCHANGED <<app, token, held, owned, viewOpen, mark, timer, sub>>

\* The service is destroyed only when the drain result is safe_to_destroy.
WorkloadServiceDrains ==
    /\ sim.pc = "drain" /\ app.closed /\ app.cancel /\ WorkloadDrained
    /\ owned' = [owned EXCEPT !["workload"] = FALSE]
    /\ sim' = IF sim.late /\ sim.reason = "normal" THEN End("failed")
              ELSE To("dropInstrumentation")
    /\ Quietly
    /\ UNCHANGED <<budget, app, token, held, viewOpen, mark, timer, marks, sub>>

\* SetInstrumentationService(nullptr) and SetRoleService(nullptr); with the
\* latter the command processor loses its pointer too.
DropService(s, at, next) ==
    /\ sim.pc = at
    /\ held' = [held EXCEPT ![s] = FALSE]
    /\ sim' = To(next)
    /\ Quietly
    /\ UNCHANGED <<budget, app, token, owned, viewOpen, mark, timer, marks, sub>>

\* Mutant: the service's pointer is dropped without waiting for its last user.
ReleaseAtOnce(s, at, next) ==
    /\ sim.pc = at
    /\ owned' = [owned EXCEPT ![s] = FALSE]
    /\ \/ sim' = To(next) /\ UNCHANGED budget
       \/ s = "instrumentation" /\ StepFails(next)
    /\ Quietly
    /\ UNCHANGED <<app, token, held, viewOpen, mark, timer, marks, sub>>

\* The busy wait for use_count to fall to one, then the release. The shutdown
\* of the instrumentation controller may have failed on the way.
AwaitLastUser(s, at, next) ==
    /\ sim.pc = at
    /\ UseCount(s) = 0
    /\ owned' = [owned EXCEPT ![s] = FALSE]
    /\ \/ sim' = To(next) /\ UNCHANGED budget
       \/ s = "instrumentation" /\ StepFails(next)
    /\ Quietly
    /\ UNCHANGED <<app, token, held, viewOpen, mark, timer, marks, sub>>

StopInstrumentation ==
    \/ DropService("instrumentation", "dropInstrumentation", "instrumentationUsers")
    \/ AwaitLastUser("instrumentation", "instrumentationUsers", "dropRole")

StopRoleMutations ==
    \/ DropService("role", "dropRole", "roleUsers")
    \/ AwaitLastUser("role", "roleUsers", "processor")

\* stop_command_processor answers every command that waits for an outcome.
StopCommandProcessor ==
    /\ sim.pc = "processor"
    /\ \A r \in Requests : req[r].kind \in Commands => ~Inside(r)
    /\ sim' = To("nodes")
    /\ Quietly
    /\ UNCHANGED <<budget, app, token, held, owned, viewOpen, mark, timer,
                   marks, sub>>

\* The last observations, StopNodes and the closing events. A normal end that
\* meets the stop token is a cancellation, or the duration's end; a workload
\* that did not drain in time is rethrown here, past MarkRunStopped.
StopNodes ==
    /\ sim.pc = "nodes"
    /\ \/ /\ sim' = IF sim.late /\ sim.reason \in {"cancelled", "duration"}
                    THEN [End("failed") EXCEPT !.final = TRUE] ELSE To("flag")
          /\ UNCHANGED budget
       \/ /\ token.sim /\ sim.reason = "normal"
          /\ sim' = End(IF timer = "fired" THEN "duration" ELSE "cancelled")
          /\ UNCHANGED budget
       \/ StepFails("flag")
    /\ Quietly
    /\ UNCHANGED <<app, token, held, owned, viewOpen, mark, timer, marks, sub>>

\* Where MarkRunStopped returns to: a failed run is rethrown to the worker,
\* which marks the lifecycle once more; any other goes to its summary.
AfterStopped ==
    IF ~sim.final /\ sim.reason = "failed"
    THEN [sim EXCEPT !.pc = "mark", !.final = TRUE]
    ELSE To("summary")

\* MarkRunStopped, the first lock.
StoppedFlag ==
    /\ sim.pc = "flag"
    /\ app' = [app EXCEPT !.stopReq = TRUE]
    /\ token' = [token EXCEPT !.run = TRUE]
    /\ sim' = IF app.stopped THEN AfterStopped ELSE To("launcher")
    /\ Quietly
    /\ UNCHANGED <<budget, held, owned, viewOpen, mark, timer, marks, sub>>

\* The launcher is closed before run_stopped_ is set. Its failure leaves the
\* run unstopped: the handlers throw on to the worker, handle_run_failure logs
\* it, and the worker's own call keeps it as the run's failure.
CloseLauncher ==
    /\ sim.pc = "launcher"
    /\ \/ /\ app' = [app EXCEPT !.stopped = TRUE]
          /\ sim' = To("stopped")
          /\ UNCHANGED budget
       \/ /\ budget.faults > 0
          /\ budget' = [budget EXCEPT !.faults = @ - 1]
          /\ sim' = IF sim.final
                    THEN [To("summary") EXCEPT !.failed = TRUE]
                    ELSE IF sim.reason = "normal" THEN End("failed")
                    ELSE [End("failed") EXCEPT !.final = TRUE]
          /\ UNCHANGED app
    /\ Quietly
    /\ UNCHANGED <<token, held, owned, viewOpen, mark, timer, marks, sub>>

\* The evidence, then CloseRunSubscriptions.
PublishStopped ==
    /\ sim.pc = "stopped"
    /\ marks' = Append(marks, "stopped")
    /\ sim' = To("subscriptions")
    /\ Quietly
    /\ UNCHANGED <<budget, app, token, held, owned, viewOpen, mark, timer, sub>>

CloseRunSubscriptions ==
    /\ sim.pc = "subscriptions"
    /\ sub' = IF sub = "active" THEN "closed" ELSE sub
    /\ sim' = AfterStopped
    /\ Quietly
    /\ UNCHANGED <<budget, app, token, held, owned, viewOpen, mark, timer,
                   marks>>

---------------------------------------------------------------------------
(* The worker after the simulation, the controller and the reaper.         *)

\* publish_terminal_summary, when the run left its root behind; its failure is
\* logged, or added to the run's failure.
PublishSummary ==
    /\ sim.pc = "summary"
    /\ \/ /\ disk' = [disk EXCEPT ![run.gen] =
                        IF @ = "absent" THEN "absent" ELSE "final"]
          /\ UNCHANGED budget
       \/ /\ budget.faults > 0
          /\ budget' = [budget EXCEPT !.faults = @ - 1]
          /\ UNCHANGED disk
    /\ sim' = To("terminal")
    /\ UNCHANGED <<app, token, held, owned, viewOpen, req, mark, host, timer,
                   run, reaper, marks, reader, sub>>

\* The terminal state and the membership's revision, in the run's lock.
BecomeTerminal ==
    /\ sim.pc = "terminal"
    /\ run' = [run EXCEPT
                !.state = IF sim.failed THEN "kFailed" ELSE "kStopped",
                !.revision = IF IsTerminal THEN @ ELSE @ + 1]
    /\ sim' = To("done")
    /\ UNCHANGED <<budget, app, token, held, owned, viewOpen, req, mark, host,
                   timer, reaper, disk, marks, reader, sub>>

\* StartRun of a controller that has no run, under the transition lock. A
\* StopRun still waiting has the ended run's context in hand.
LaunchRun ==
    /\ run.gen = NoRun /\ reaper = "idle" /\ ~run.closing
    /\ host \notin {"mark", "marking"}
    /\ run.launched < budget.runs
    /\ run' = [run EXCEPT !.gen = run.launched + 1, !.launched = @ + 1,
                          !.state = "kStarting", !.reached = FALSE,
                          !.hostStop = FALSE, !.revision = @ + 1]
    /\ app' = FreshApp
    /\ token' = FreshToken
    /\ held' = NoServices
    /\ owned' = NoServices
    /\ viewOpen' = Views
    /\ mark' = [a \in Actors |-> NoMark]
    /\ marks' = <<>>
    /\ timer' = IF budget.timer THEN "armed" ELSE "none"
    /\ sim' = [pc |-> "prepare", reason |-> "none", final |-> FALSE,
               failed |-> FALSE, late |-> FALSE]
    /\ host' = IF host = "waiting" THEN "answered" ELSE host
    /\ UNCHANGED <<budget, req, reaper, disk, reader, sub>>

\* StopRun: to the stop request under the transition lock; the wait for the
\* terminal state may be cancelled or time out.
HostStops ==
    /\ budget.stop
    /\ \/ /\ host = "idle" /\ run.gen # NoRun /\ reaper = "idle"
          /\ run.state \notin {"kStopping", "kStopped", "kFailed"}
          /\ run' = [run EXCEPT !.hostStop = TRUE]
          /\ host' = "mark"
          /\ UNCHANGED <<app, mark, token>>
       \/ /\ host = "mark"
          /\ MarkFlag("host")
          /\ host' = "marking"
          /\ UNCHANGED <<run, token>>
       \/ /\ host = "marking" /\ mark["host"].at = "none"
          /\ RequestStop
          /\ host' = "waiting"
          /\ UNCHANGED <<run, app, mark>>
       \/ /\ host = "waiting"
          /\ host' = "answered"
          /\ UNCHANGED <<run, app, mark, token>>
    /\ UNCHANGED <<budget, held, owned, viewOpen, req, sim, timer, reaper,
                   disk, marks, reader, sub>>

\* The TUI reads the run through a lease it takes with the snapshot.
TakeLease ==
    /\ budget.lease /\ CurrentRun # NoRun /\ ~run.lease
    /\ run' = [run EXCEPT !.lease = TRUE]
    /\ UNCHANGED <<budget, app, token, held, owned, viewOpen, req, mark, sim,
                   host, timer, reaper, disk, marks, reader, sub>>

ReleaseLease ==
    /\ run.lease
    /\ run' = [run EXCEPT !.lease = FALSE]
    /\ UNCHANGED <<budget, app, token, held, owned, viewOpen, req, mark, sim,
                   host, timer, reaper, disk, marks, reader, sub>>

\* Mutant: the shutdown waits for the run without asking it to stop.
ShutdownOnlyWaits ==
    /\ ~run.closing /\ reaper = "idle" /\ host \notin {"mark", "marking"}
    /\ run' = [run EXCEPT !.closing = TRUE]
    /\ UNCHANGED <<budget, app, token, held, owned, viewOpen, req, mark, sim,
                   host, timer, reaper, disk, marks, reader, sub>>

\* EditorRunController::Shutdown: no run is launched any more and the active
\* one is asked to stop, without a lifecycle mark.
ControllerShutdown ==
    /\ ~run.closing /\ reaper = "idle" /\ host \notin {"mark", "marking"}
    /\ run' = [run EXCEPT !.closing = TRUE]
    /\ token' = IF run.gen = NoRun THEN token ELSE [token EXCEPT !.sim = TRUE]
    /\ UNCHANGED <<budget, app, held, owned, viewOpen, req, mark, sim, host,
                   timer, reaper, disk, marks, reader, sub>>

\* JoinAndShutdown, called by ReapTerminalRun once no lease is out, or by the
\* controller's Shutdown: the worker is joined, then ShutdownImpl closes the
\* workload service and sets the flags.
BeginReap ==
    /\ reaper = "idle" /\ run.gen # NoRun /\ sim.pc = "done"
    /\ host \notin {"mark", "marking"}
    /\ run.closing \/ (~run.lease /\ run.launched < budget.runs)
    /\ app' = [app EXCEPT !.closed = TRUE, !.cancel = TRUE, !.shutdown = TRUE,
                          !.stopReq = TRUE]
    /\ held' = [held EXCEPT !["workload"] = FALSE]
    /\ reaper' = "tokens"
    /\ UNCHANGED <<budget, token, owned, viewOpen, req, mark, sim, host, timer,
                   run, disk, marks, reader, sub>>

ReapTokens ==
    /\ reaper = "tokens"
    /\ token' = [token EXCEPT !.request = TRUE, !.run = TRUE]
    /\ viewOpen' = {}
    /\ reaper' = "drain"
    /\ UNCHANGED <<budget, app, held, owned, req, mark, sim, host, timer, run,
                   disk, marks, reader, sub>>

\* The wait for the last request; a launch that is cancelled meanwhile leaves
\* the run to be reaped again.
ReapDrains ==
    /\ reaper = "drain"
    /\ \/ /\ \A r \in Requests : ActiveRequest(r) => req[r].gen # run.gen
          /\ app' = [app EXCEPT !.quiet = TRUE]
          /\ held' = NoServices
          /\ run' = [run EXCEPT !.gen = NoRun]
          /\ UNCHANGED budget
       \/ /\ budget.faults > 0 /\ ~run.closing
          /\ budget' = [budget EXCEPT !.faults = @ - 1]
          /\ UNCHANGED <<app, held, run>>
    /\ reaper' = "idle"
    /\ UNCHANGED <<token, owned, viewOpen, req, mark, sim, host, timer, disk,
                   marks, reader, sub>>

---------------------------------------------------------------------------
(* Requests.                                                               *)

Answered(r, a) == [req EXCEPT ![r].pc = "answered", ![r].answer = a]

Returned(r, a) == [req EXCEPT ![r].pc = "finished", ![r].answer = a]

Unplanned ==
    UNCHANGED <<budget, app, held, owned, viewOpen, sim, host, timer, reaper,
                disk, marks, reader, sub>>

\* What BuildOperation says of a kind of request, in the host and in the run's
\* application: "planned", or the reason it is refused. A service operation
\* takes its copy of the service here.
PlanResult(kind) ==
    IF CurrentRun = NoRun THEN "run_not_active"
    ELSE IF run.state = "kStarting" THEN "run_not_ready"
    ELSE IF kind \in Reads THEN "planned"
    ELSE IF app.shutdown THEN "shutting_down"
    ELSE IF ~app.started /\ ~app.stopped THEN "run_not_ready"
    ELSE IF kind = "workload" /\ app.closed THEN "stopping"
    ELSE IF kind \in Services /\ ~held[kind] THEN "unavailable"
    ELSE "planned"

BuildOperation(r) ==
    /\ req[r].pc = "idle" /\ budget.kinds[r] # "none" /\ run.gen # NoRun
    /\ LET result == PlanResult(budget.kinds[r]) IN
       req' = [req EXCEPT ![r] =
                 [kind |-> budget.kinds[r], gen |-> run.gen,
                  copy |-> "none",
                  pc |-> IF result = "planned" THEN "planned" ELSE "answered",
                  answer |-> IF result = "planned" THEN "none" ELSE result]]
    /\ Unplanned /\ UNCHANGED <<token, mark, run>>

\* BeginRequest: refused once the application of that run shuts down.
BeginRequest(r) ==
    /\ req[r].pc = "planned"
    /\ req' = IF req[r].gen # run.gen \/ app.shutdown
              THEN Answered(r, "cancelled")
              ELSE [req EXCEPT ![r].pc = "active"]
    /\ Unplanned /\ UNCHANGED <<token, mark, run>>

\* The executor's first look: ExecuteOperation admits a workload callback only
\* while the admission is open, a command needs a run that is not stopping, a
\* view answers while it is open.
MayEnter(kind) ==
    CASE kind = "workload" -> ~app.closed
      [] kind \in Commands -> ~(app.shutdown \/ app.stopReq \/ app.stopped)
      [] kind = "view" -> viewOpen = Views
      [] OTHER -> TRUE

EnterService(r) ==
    /\ req[r].pc = "active" /\ req[r].kind \notin Reads
    /\ req' = IF MayEnter(req[r].kind) THEN [req EXCEPT ![r].pc = "inside"]
              ELSE Returned(r, CASE req[r].kind = "workload" -> "stopping"
                                 [] req[r].kind \in Commands -> "run_not_active"
                                 [] OTHER -> "closed")
    /\ Unplanned /\ UNCHANGED <<token, mark, run>>

\* ReadResource finds its service, if it is still there, and calls it.
EnterRead(r) ==
    /\ req[r].pc = "active" /\ req[r].kind \in Reads \ {"report"}
    /\ LET s == ServiceOf(req[r].kind) IN
       req' = IF token.request THEN Returned(r, "cancelled")
              ELSE IF app.shutdown THEN Returned(r, "shutting_down")
              ELSE IF s = "workload" /\ app.closed THEN Returned(r, "stopping")
              ELSE IF ~held[s] THEN Returned(r, "unavailable")
              ELSE [req EXCEPT ![r].pc = "inside"]
    /\ Unplanned /\ UNCHANGED <<token, mark, run>>

\* ReportSnapshot builds one report at a time: the others try the report lock
\* until they have it or their request is cancelled.
EnterReport(r) ==
    /\ req[r].pc = "active" /\ req[r].kind = "report"
    /\ \/ /\ \A other \in Requests : req[other].kind = "report" => ~Inside(other)
          /\ req' = IF app.shutdown THEN Returned(r, "shutting_down")
                    ELSE [req EXCEPT ![r].pc = "inside"]
       \/ /\ token.request
          /\ req' = Returned(r, "cancelled")
    /\ Unplanned /\ UNCHANGED <<token, mark, run>>

\* A read ends by itself; the shutdown of the application cancels it, and the
\* workload service its own readers.
ReadReturns(r) ==
    /\ req[r].pc = "inside" /\ req[r].kind \in Reads
    /\ \/ \E o \in {"ok", "failed"} : req' = Returned(r, o)
       \/ /\ token.request \/ (req[r].kind = "readWorkload" /\ app.cancel)
          /\ req' = Returned(r, "cancelled")
    /\ Unplanned /\ UNCHANGED <<token, mark, run>>

\* A callback sees the run's token; a workload's the service's own as well.
Cancelled(kind) == token.run \/ (kind = "workload" /\ app.cancel)

\* What a callback or a command can come back with. Role results that cannot
\* be normalized and commands whose outcome is unconfirmed stop the run.
CallbackResults(kind) ==
    {"ok", "failed"}
        \cup (IF Cancelled(kind) THEN {"cancelled"} ELSE {})
        \cup (IF kind \in Commands THEN {"timed_out"} ELSE {})

ServiceReturns(r) ==
    /\ req[r].pc = "inside" /\ req[r].kind \notin Reads
    /\ \E o \in CallbackResults(req[r].kind) :
         /\ Executes(r) => o = "timed_out"
         /\ req[r].kind = "roleCommand" /\ o = "ok" => req[r].copy = "dropped"
         /\ req' = Returned(r, o)
    /\ Unplanned /\ UNCHANGED <<token, mark, run>>

StopUnconfirmed(r) ==
    /\ req' = Returned(r, "unconfirmed")
    /\ RequestHostedStop
    /\ budget' = [budget EXCEPT !.faults = @ - 1]
    /\ UNCHANGED <<app, held, owned, viewOpen, sim, host, timer, reaper, disk,
                   marks, reader, sub, mark>>

\* The processor executes a role command with a copy of the role service. The
\* request may give up waiting meanwhile, the copy is dropped at the end.
RoleCommand(r) ==
    /\ \/ /\ req[r].kind = "roleCommand" /\ req[r].pc = "inside"
          /\ req[r].copy = "none"
          /\ req' = IF held["role"] THEN [req EXCEPT ![r].copy = "held"]
                    ELSE Returned(r, "failed")
       \/ /\ Executes(r)
          /\ req' = [req EXCEPT ![r].copy = "dropped"]
    /\ Unplanned /\ UNCHANGED <<token, mark, run>>

\* A command whose outcome is unconfirmed: request_run_stop, then the failure.
CommandUnconfirmed(r) ==
    /\ req[r].pc = "inside" /\ req[r].kind \in Commands /\ budget.faults > 0
    /\ StopUnconfirmed(r)

\* A command that adds, replaces or removes nodes or changes a role and
\* succeeded without the evidence its answer has to carry is answered the same
\* way.
EvidenceOmitted(r) ==
    /\ req[r].pc = "inside" /\ req[r].kind \in Commands /\ budget.faults > 0
    /\ req[r].kind = "roleCommand" => req[r].copy = "dropped"
    /\ StopUnconfirmed(r)

\* A signal or a lifecycle command is answered node_outcome_unconfirmed too
\* when its evidence is missing, but the run is not asked to stop.
DeliveryOmitted(r) ==
    /\ req[r].pc = "inside" /\ req[r].kind = "command" /\ budget.faults > 0
    /\ req' = Returned(r, "omitted")
    /\ budget' = [budget EXCEPT !.faults = @ - 1]
    /\ UNCHANGED <<app, token, run, held, owned, viewOpen, sim, host, timer,
                   reaper, disk, marks, reader, sub, mark>>

\* A role result that cannot be normalized: MarkRunStopping, request_run_stop.
RoleUnconfirmed(r) ==
    /\ req[r].kind = "role"
    /\ \/ /\ req[r].pc = "inside" /\ budget.faults > 0
          /\ req' = [req EXCEPT ![r].pc = "mark"]
          /\ budget' = [budget EXCEPT !.faults = @ - 1]
          /\ UNCHANGED <<app, mark, token, run>>
       \/ /\ req[r].pc = "mark"
          /\ MarkFlag(r)
          /\ req' = [req EXCEPT ![r].pc = "marking"]
          /\ UNCHANGED <<budget, token, run>>
       \/ /\ req[r].pc = "marking" /\ mark[r].at = "none"
          /\ RequestHostedStop
          /\ req' = Returned(r, "unconfirmed")
          /\ UNCHANGED <<budget, app, mark>>
    /\ UNCHANGED <<held, owned, viewOpen, sim, host, timer, reaper, disk,
                   marks, reader, sub>>

\* OperationFactory's wrapper: a result is given up when the application is
\* shutting down; EndRequest.
EndRequest(r) ==
    /\ req[r].pc = "finished"
    /\ req' = [req EXCEPT ![r].pc = "ended",
                          ![r].answer = IF @ = "ok" /\ token.request
                                        THEN "cancelled" ELSE @]
    /\ Unplanned /\ UNCHANGED <<token, mark, run>>

ReleasePlan(r) ==
    /\ req[r].pc = "ended"
    /\ req' = [req EXCEPT ![r].pc = "answered"]
    /\ Unplanned /\ UNCHANGED <<token, mark, run>>

---------------------------------------------------------------------------
(* The run registry and subscriptions.                                     *)

\* ReadResource of the run registry: the revision, the run, the revision; the
\* runs on disk; the run, the revision.
NoRead == [at |-> "none", revision |-> 0, run |-> NoRun, again |-> NoRun,
           retained |-> {}, answer |-> {}, truth |-> {}]

Reading == UNCHANGED <<budget, app, token, held, owned, viewOpen, req, mark,
                       sim, host, timer, run, reaper, disk, marks, sub>>

BeginRegistryRead ==
    /\ budget.reader /\ reader.at = "none"
    /\ reader' = [NoRead EXCEPT !.at = "run", !.revision = run.revision]
    /\ Reading

ReadActiveRun ==
    /\ reader.at = "run"
    /\ reader' = [reader EXCEPT !.at = "check", !.run = CurrentRun]
    /\ Reading

CheckMembership ==
    /\ reader.at = "check"
    /\ reader' = [reader EXCEPT !.at = IF run.revision = reader.revision
                                       THEN "discover" ELSE "changed"]
    /\ Reading

\* DiscoverRetainedRuns leaves the active run out.
ReadRetainedRuns ==
    /\ reader.at = "discover"
    /\ reader' = [reader EXCEPT !.at = "again",
                    !.retained = {g \in Generations : disk[g] # "absent"}
                                    \ {reader.run}]
    /\ Reading

ReadActiveAgain ==
    /\ reader.at = "again"
    /\ reader' = [reader EXCEPT !.at = "final", !.again = CurrentRun]
    /\ Reading

\* The answer, unless the membership changed; .truth records what a reader
\* that sees everything at once would answer now.
AnswerRegistry ==
    /\ reader.at = "final"
    /\ reader' = IF run.revision # reader.revision \/ reader.run # reader.again
                 THEN [reader EXCEPT !.at = "changed"]
                 ELSE [reader EXCEPT !.at = "answered",
                    !.answer = reader.retained \cup ({reader.again} \ {NoRun}),
                    !.truth = {g \in Generations : disk[g] # "absent"}
                                \cup ({CurrentRun} \ {NoRun})]
    /\ Reading

\* The dispatcher asks the application whether the run can be subscribed to,
\* then has the operation service create the subscription.
CheckSubscription ==
    /\ budget.subscribe /\ sub = "none"
    /\ CurrentRun # NoRun /\ run.state # "kStarting"
    /\ ~app.shutdown /\ ~app.stopped
    /\ sub' = "checked"
    /\ UNCHANGED <<budget, app, token, held, owned, viewOpen, req, mark, sim,
                   host, timer, run, reaper, disk, marks, reader>>

CreateSubscription ==
    /\ sub = "checked"
    /\ sub' = "active"
    /\ UNCHANGED <<budget, app, token, held, owned, viewOpen, req, mark, sim,
                   host, timer, run, reaper, disk, marks, reader>>

---------------------------------------------------------------------------
LiveInit ==
    /\ budget \in LiveBudgets
    /\ app = FreshApp /\ token = FreshToken
    /\ held = NoServices /\ owned = NoServices
    /\ viewOpen = {}
    /\ req = [r \in Requests |-> [kind |-> "none", gen |-> NoRun, pc |-> "idle",
                                  copy |-> "none", answer |-> "none"]]
    /\ mark = [a \in Actors |-> NoMark]
    /\ sim = [pc |-> "done", reason |-> "none", final |-> FALSE,
              failed |-> FALSE, late |-> FALSE]
    /\ host = "idle" /\ timer = "none" /\ reaper = "idle"
    /\ run = [gen |-> NoRun, launched |-> 0, state |-> "kStopped",
              reached |-> FALSE, hostStop |-> FALSE, revision |-> 0,
              closing |-> FALSE, lease |-> FALSE]
    /\ disk = [g \in Generations |-> "absent"]
    /\ marks = <<>>
    /\ reader = NoRead
    /\ sub = "none"

SimulatorStep ==
    \/ PrepareRun \/ SetUpRun \/ InstallService \/ SetChainViewService
    \/ SetPoolViewService \/ MarkRunStarted \/ NotifyStarted \/ RunInterrupted \/ EndMarks \/ StopDurationTimer
    \/ CloseWorkloadService \/ WorkloadServiceDrains \/ StopInstrumentation
    \/ StopRoleMutations \/ StopCommandProcessor \/ StopNodes \/ StoppedFlag
    \/ CloseLauncher \/ PublishStopped \/ CloseRunSubscriptions
    \/ PublishSummary \/ BecomeTerminal

RequestStep(r) ==
    \/ BeginRequest(r) \/ EnterService(r) \/ ServiceReturns(r)
    \/ EnterRead(r) \/ EnterReport(r) \/ ReadReturns(r) \/ RoleCommand(r)
    \/ RoleUnconfirmed(r) \/ EndRequest(r) \/ ReleasePlan(r)

RegistryStep ==
    \/ ReadActiveRun \/ CheckMembership \/ ReadRetainedRuns
    \/ ReadActiveAgain \/ AnswerRegistry

ReaperStep == BeginReap \/ ReapTokens \/ ReapDrains

LiveNext ==
    \/ SimulatorStep
    \/ RunCompletes \/ DrainTimesOut \/ DurationTimer
    \/ \E a \in Actors : MarkProgress(a)
    \/ LaunchRun \/ HostStops \/ TakeLease \/ ReleaseLease
    \/ ControllerShutdown \/ ReaperStep
    \/ \E r \in Requests :
         BuildOperation(r) \/ RequestStep(r) \/ CommandUnconfirmed(r)
           \/ EvidenceOmitted(r) \/ DeliveryOmitted(r)
    \/ BeginRegistryRead \/ RegistryStep
    \/ CheckSubscription \/ CreateSubscription

---------------------------------------------------------------------------
(* Properties.                                                             *)

\* The values the flags, the threads and the records of the run can take.
LiveTypeOK ==
    /\ app \in [DOMAIN FreshApp -> BOOLEAN]
    /\ token \in [DOMAIN FreshToken -> BOOLEAN]
    /\ held \in [Services -> BOOLEAN] /\ owned \in [Services -> BOOLEAN]
    /\ viewOpen \subseteq Views
    /\ \A r \in Requests :
         /\ req[r].kind \in RequestKinds \cup {"none"}
         /\ req[r].pc \in {"idle", "planned", "active", "inside", "mark",
                           "marking", "finished", "ended", "answered"}
         /\ req[r].gen \in {NoRun} \cup Generations
         /\ req[r].copy \in {"none", "held", "dropped"}
    /\ mark \in [Actors -> [at : {"none", "close", "notify"}, first : BOOLEAN]]
    /\ run.state \in {"kStarting", "kActive", "kStopping", "kStopped", "kFailed"}
    /\ run.revision \in 0..4
    /\ disk \in [Generations -> {"absent", "root", "final"}]
    /\ Len(marks) <= 4

\* Once McpLiveApplication::Shutdown has returned, no request of that run is
\* inside the application, its views are closed and it points to no service.
ShutdownIsQuiet ==
    app.quiet => /\ \A r \in Requests :
                        ActiveRequest(r) => req[r].gen # run.launched
                 /\ viewOpen = {}
                 /\ held = NoServices

\* The simulator thread gives a service's state up only when no request is
\* inside one of its callbacks and no role command executes with it, although
\* requests took their copy of the service long before and may still be on
\* their way in, and a command goes on when its request has given up.
ServicesOutliveTheirCallers ==
    \A r \in Requests :
        /\ Inside(r) /\ ServiceOf(req[r].kind) \in Services
              => owned[ServiceOf(req[r].kind)]
        /\ Executes(r) => owned["role"]

\* A stopping run shows no view: whoever marks the run and whenever the views
\* are installed, the installed views are closed once the markers and the
\* installation are through.
StoppingRunHasNoViews ==
    /\ app.stopReq /\ \A a \in Actors : mark[a].at # "close"
    /\ sim.pc \notin {ClosingView[v] : v \in Views}
    => viewOpen = {}

\* Each lifecycle mark is published at most once in a run, whatever number of
\* threads and handlers mark it, and no run is reported started once stopped.
LifecycleMarkedOnce ==
    /\ \A i, j \in 1..Len(marks) : marks[i] = marks[j] => i = j
    /\ \A i, j \in 1..Len(marks) :
         marks[i] = "started" /\ marks[j] = "stopped" => i < j

\* When the controller shows a run as ended, its application was marked
\* stopped, or the run is reported failed because that mark failed; and the
\* simulator thread keeps nothing alive.
TerminalRunIsStopped ==
    run.gen # NoRun /\ IsTerminal =>
        /\ app.stopped \/ run.state = "kFailed"
        /\ owned = NoServices

\* A client that is told that the outcome of a command or of a role mutation is
\* unconfirmed, or that a change of the nodes or roles came without its
\* evidence, is told so of a run that is being stopped, whatever else the run
\* was doing.  Only a signal or lifecycle command without its evidence
\* ("omitted") leaves the run going.
UnconfirmedStopsTheRun ==
    \A r \in Requests :
        req[r].answer = "unconfirmed" /\ req[r].gen = run.gen => token.sim

\* The registry a client is given holds every run once: none is missed or
\* shown twice because a run began or ended during the read.
RegistryIsWhole ==
    reader.at = "answered" => reader.answer = reader.truth

\* A run's state never goes back: not to active once it is stopping, and never
\* out of a terminal state.
Rank == [kStarting |-> 0, kActive |-> 1, kStopping |-> 2, kStopped |-> 3,
         kFailed |-> 3]

RunStateNeverFalls ==
    [][run'.gen = run.gen /\ run.gen # NoRun
         => /\ Rank[run'.state] >= Rank[run.state]
            /\ IsTerminal => run'.state = run.state]_liveVars

\* Every change of what the host shows as its run changes the membership's
\* revision, which is what a registry read relies on.
MembershipIsCounted ==
    [][CurrentRun' # CurrentRun => run'.revision > run.revision]_liveVars

\* A run that was asked to stop ends, whatever its requests, markers and
\* services were doing.
StopEndsTheRun == token.sim ~> (sim.pc = "done")

\* Once the run is asked to stop every request in flight is answered.
StopAnswersEveryone ==
    \A r \in Requests :
        (token.sim /\ InFlight(r)) ~> (req[r].pc = "answered")

\* A controller that shuts down lets its run go.
ShutdownReleasesTheRun == run.closing ~> (run.gen = NoRun)

\* The services of a run outlive their callers, a stopping run opens no view,
\* its lifecycle is marked once and in order, an unconfirmed outcome stops it,
\* the registry is whole, and after shutdown nothing runs.
ApplicationCorrect ==
    /\ LiveTypeOK
    /\ ShutdownIsQuiet
    /\ ServicesOutliveTheirCallers
    /\ StoppingRunHasNoViews
    /\ LifecycleMarkedOnce
    /\ TerminalRunIsStopped
    /\ UnconfirmedStopsTheRun
    /\ RegistryIsWhole

===========================================================================
