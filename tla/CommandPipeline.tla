--------------------------- MODULE CommandPipeline ---------------------------
(***************************************************************************)
(* The life of a simulation command: admission to the bounded queue        *)
(* (SimulationCommandQueue), execution by the single processor thread      *)
(* (SimulationCommandProcessor::Run and the live command handler), the     *)
(* race between cancellation and commit on its SimulationCommandControl,   *)
(* the outcome published to McpLiveApplication::RecordCommandOutcome, the  *)
(* MCP executor that waits for it (WaitForCommand), and the shutdown that  *)
(* drains the queue (SimulationCommandProcessor::Stop).                    *)
(*                                                                         *)
(* Every thread takes one atomic step per shared-memory access that        *)
(* another thread can observe: compare-exchange on commit_state, the later *)
(* request_stop, the queue's and the application's critical sections.      *)
(***************************************************************************)
EXTENDS Naturals, Sequences, FiniteSets

CONSTANTS
    Commands,             \* the commands that are ever submitted
    Kind,                 \* [Commands -> Kinds], the handler each one runs
    Mcp,                  \* the commands an MCP operation submits and awaits
    Timed,                \* the MCP commands with a cancellation deadline
    QueueCapacity,        \* SimulationCommandQueue::capacity_
    CorrelationCapacity,  \* kMcpMaximumRetainedOperations
    MaxForeign,           \* bound: mutations made by the role service
    NoCommand

\* "node": kAddNodes, kReplaceNode, kRemoveNodes; "target": the two target
\* address kinds; "signal": kSignal*; "resource": kSetResourceLimits and
\* kSetResourceProfile; "role": kAssignRole, kRemoveRole; "unlocked": the
\* kinds that take no node mutation lock; "plain": every other kind.
Kinds == {"node", "target", "signal", "resource", "role", "unlocked", "plain"}
Phases == {"kOpen", "kCancelled", "kCommitStarted", "kCommitted"}
Causes == {"kNone", "kClientCancel", "kDeadline", "kApplicationShutdown"}
States == {"kSucceeded", "kFailed", "kCancelled", "kTimedOut",
           "kOutcomeUnconfirmed"}

ASSUME CommandsAssumption ==
    /\ Kind \in [Commands -> Kinds]
    /\ Mcp \subseteq Commands
    /\ Timed \subseteq Mcp
    /\ NoCommand \notin Commands

ASSUME BoundsAssumption ==
    /\ QueueCapacity \in Nat \ {0}
    /\ CorrelationCapacity \in Nat \ {0}
    /\ MaxForeign \in Nat

VARIABLES
    queue,       \* commands_, oldest first
    closed,      \* closed_
    sequence,    \* command.sequence, 0 until admission
    next,        \* next_sequence_
    phase, cause,        \* the two fields of commit_state
    stop,                \* stop_source.stop_requested()
    unconfirmed,         \* outcome_unconfirmed
    published,   \* the commands whose mutation has taken effect
    generation,  \* the authoritative inventory generation
    base,        \* initial_inventory_generation
    foreign,     \* mutations the role service made outside the queue
    lock,        \* node_mutation_mutex: the command holding it, or NoCommand
    worker, current, exit, report,  \* the processor thread
    pending, pendingOutcome,        \* pending_commands_
    mutex,       \* McpLiveApplication::mutex_ across SubmitCommand
    client, why, result,            \* the MCP executor of each command
    clientCancel,   \* the MCP operation's own stop token
    runStarted,     \* run_started_
    runStopping,    \* stop_requested_ / run_stop_source_
    rpcStop,        \* command_rpc_stop_source
    stopAsked,      \* request_run_stop() reached the host
    stopper, drained,    \* stop_command_processor and its local vector
    recorded, reports    \* the outcome published for each command, how often

queueVars == <<queue, closed, sequence, next>>
controlVars == <<phase, cause, stop, unconfirmed>>
effectVars == <<published, generation, base, foreign, lock>>
workerVars == <<worker, current, exit, report>>
pendingVars == <<pending, pendingOutcome, mutex>>
clientVars == <<client, why, result, clientCancel>>
stopVars == <<runStarted, runStopping, rpcStop, stopAsked, stopper, drained>>
outcomeVars == <<recorded, reports>>
vars == <<queueVars, controlVars, effectVars, workerVars, pendingVars,
          clientVars, stopVars, outcomeVars>>

Controlled == Mcp \cup {c \in Commands : Kind[c] \in {"node", "target", "role"}}
CommitKinds == {"node", "target", "signal", "resource"}
ShutdownCancelled == {"node", "role"}
OwnedKinds == {"resource", "signal"}
NoReport == [state |-> "kSucceeded", cause |-> "kNone"]

-----------------------------------------------------------------------------
(* SimulationCommandControl.                                               *)

\* Mutant: the phase and the cause are packed into each other's byte.
RequestCancellationSwapped(S, because) ==
    LET won == {c \in S : phase[c] = "kOpen"} IN
    /\ phase' = [c \in Commands |-> IF c \in won THEN because ELSE phase[c]]
    /\ cause' = [c \in Commands |-> IF c \in won THEN "kCancelled"
                                                 ELSE cause[c]]

\* The compare-exchange of RequestCancellation on the commands of a set; the
\* stop_source.request_stop() that follows it is RequestStop below.
RequestCancellation(S, because) ==
    LET won == {c \in S : phase[c] = "kOpen"} IN
    /\ phase' = [c \in Commands |-> IF c \in won THEN "kCancelled"
                                                 ELSE phase[c]]
    /\ cause' = [c \in Commands |-> IF c \in won THEN because ELSE cause[c]]

RequestStop(c) ==
    /\ phase[c] = "kCancelled"
    /\ ~stop[c]
    /\ stop' = [stop EXCEPT ![c] = TRUE]
    /\ UNCHANGED <<queueVars, phase, cause, unconfirmed, effectVars,
                   workerVars, pendingVars, clientVars, stopVars, outcomeVars>>

CancellationCause(c, fallback) ==
    IF c \in Controlled /\ cause[c] # "kNone" THEN cause[c] ELSE fallback

NodeMutationCommitStarted(c) ==
    Kind[c] = "node" /\ phase[c] \in {"kCommitStarted", "kCommitted"}

NodeMutationCancellationWon(c) ==
    Kind[c] = "node" /\ phase[c] = "kCancelled"

OutcomeUnconfirmed(c) ==
    (c \in Controlled /\ unconfirmed[c]) \/ NodeMutationCommitStarted(c)

CancellationOutcome(c, fallback) ==
    LET because == CancellationCause(c, fallback) IN
    [state |-> IF OutcomeUnconfirmed(c) THEN "kOutcomeUnconfirmed"
               ELSE IF because = "kDeadline" THEN "kTimedOut"
               ELSE "kCancelled",
     cause |-> because]

-----------------------------------------------------------------------------
(* Admission: SimulationCommandQueue::PushCommand, reached by the TUI and  *)
(* the scenario once the run has left its starting state (PushLocal), or   *)
(* by SubmitCommand once it has started; SubmitCommand holds the           *)
(* application's mutex until the correlation entry exists.                 *)

Push(c) ==
    /\ ~closed
    /\ Len(queue) < QueueCapacity
    /\ queue' = Append(queue, c)
    /\ sequence' = [sequence EXCEPT ![c] = next]
    /\ next' = next + 1
    /\ UNCHANGED closed

PushLocal(c) ==
    /\ c \notin Mcp
    /\ client[c] = "idle"
    /\ runStarted \/ runStopping
    /\ Push(c)
    /\ client' = [client EXCEPT ![c] = "sent"]
    /\ UNCHANGED <<controlVars, effectVars, workerVars, pendingVars, why,
                   result, clientCancel, stopVars, outcomeVars>>

SubmitCommand(c) ==
    /\ c \in Mcp
    /\ client[c] = "idle"
    /\ mutex = NoCommand
    /\ runStarted /\ ~runStopping
    /\ Cardinality({d \in Commands : pending[d] # "absent"})
         < CorrelationCapacity
    /\ Push(c)
    /\ mutex' = c
    /\ client' = [client EXCEPT ![c] = "submitting"]
    /\ UNCHANGED <<controlVars, effectVars, workerVars, pending,
                   pendingOutcome, why, result, clientCancel, stopVars,
                   outcomeVars>>

SubmitCorrelated(c) ==
    /\ client[c] = "submitting"
    /\ pending' = [pending EXCEPT ![c] = "waiting"]
    /\ mutex' = NoCommand
    /\ client' = [client EXCEPT ![c] = "waiting"]
    /\ UNCHANGED <<queueVars, controlVars, effectVars, workerVars,
                   pendingOutcome, why, result, clientCancel, stopVars,
                   outcomeVars>>

\* The run is not ready, the queue or the application refuses the command with
\* an exception, or the executor sees its own cancellation first: nothing is
\* queued.
Refused(c) ==
    /\ client[c] = "idle"
    /\ \/ closed
       \/ ~runStarted /\ (c \in Mcp \/ ~runStopping)
       \/ Len(queue) >= QueueCapacity
       \/ c \in Mcp /\ (runStopping \/ clientCancel[c])
       \/ /\ c \in Mcp
          /\ Cardinality({d \in Commands : pending[d] # "absent"})
               >= CorrelationCapacity
    /\ client' = [client EXCEPT ![c] = "refused"]
    /\ UNCHANGED <<queueVars, controlVars, effectVars, workerVars,
                   pendingVars, why, result, clientCancel, stopVars,
                   outcomeVars>>

-----------------------------------------------------------------------------
(* The MCP executor of a command: WaitForCommand and its stop callbacks.   *)

InFlight(c) == client[c] \in {"idle", "submitting", "waiting", "interrupted",
                              "reconciling"}

ClientCancels(c) ==
    /\ c \in Mcp
    /\ InFlight(c)
    /\ ~clientCancel[c]
    /\ clientCancel' = [clientCancel EXCEPT ![c] = TRUE]
    /\ UNCHANGED <<queueVars, controlVars, effectVars, workerVars,
                   pendingVars, client, why, result, stopVars, outcomeVars>>

\* stop_command_on_client_cancellation, stop_command_on_application_shutdown
StopCallback(c) ==
    /\ c \in Mcp
    /\ InFlight(c)
    /\ phase[c] = "kOpen"
    /\ \/ /\ clientCancel[c]
          /\ RequestCancellation({c}, "kClientCancel")
       \/ /\ runStopping
          /\ RequestCancellation({c}, "kApplicationShutdown")
    /\ UNCHANGED <<queueVars, stop, unconfirmed, effectVars, workerVars,
                   pendingVars, clientVars, stopVars, outcomeVars>>

\* WaitForCommand wakes up to a completed (or missing) correlation entry.
WaitForCommand(c) ==
    /\ client[c] \in {"waiting", "reconciling"}
    /\ mutex = NoCommand
    /\ pending[c] # "waiting"
    /\ client' = [client EXCEPT ![c] =
                    IF pending[c] = "completed" THEN "answered" ELSE "lost"]
    /\ result' = [result EXCEPT ![c] = pendingOutcome[c]]
    /\ pending' = [pending EXCEPT ![c] = "absent"]
    /\ UNCHANGED <<queueVars, controlVars, effectVars, workerVars,
                   pendingOutcome, mutex, why, clientCancel, stopVars,
                   outcomeVars>>

\* The wait ends for another reason; the cause is chosen under the mutex and
\* used after it is released.
WaitInterrupted(c) ==
    /\ client[c] = "waiting"
    /\ mutex = NoCommand
    /\ pending[c] = "waiting"
    /\ \E because \in Causes :
         /\ \/ /\ because = "kDeadline" /\ c \in Timed
               /\ ~runStopping /\ ~clientCancel[c]
            \/ because = "kApplicationShutdown" /\ runStopping
            \/ because = "kClientCancel" /\ clientCancel[c] /\ ~runStopping
         /\ why' = [why EXCEPT ![c] = because]
    /\ client' = [client EXCEPT ![c] = "interrupted"]
    /\ UNCHANGED <<queueVars, controlVars, effectVars, workerVars,
                   pendingVars, result, clientCancel, stopVars, outcomeVars>>

WaiterCancels(c) ==
    /\ client[c] = "interrupted"
    /\ RequestCancellation({c}, why[c])
    /\ client' = [client EXCEPT ![c] = "reconciling"]
    /\ UNCHANGED <<queueVars, stop, unconfirmed, effectVars, workerVars,
                   pendingVars, why, result, clientCancel, stopVars,
                   outcomeVars>>

\* Mutant: an expired reconciliation is answered as a plain timeout.
ReconciliationTimesOut(c) ==
    /\ client[c] = "reconciling"
    /\ mutex = NoCommand
    /\ pending[c] = "waiting"
    /\ pending' = [pending EXCEPT ![c] = "detached"]
    /\ client' = [client EXCEPT ![c] = "answered"]
    /\ result' = [result EXCEPT ![c] = "kTimedOut"]
    /\ stopAsked' = TRUE
    /\ UNCHANGED <<queueVars, controlVars, effectVars, workerVars,
                   pendingOutcome, mutex, why, clientCancel, runStarted,
                   runStopping, rpcStop, stopper, drained, outcomeVars>>

\* The reconciliation bound expires with no outcome. A short mutation that won
\* admission is awaited without a bound instead.
ReconciliationExpires(c) ==
    /\ client[c] = "reconciling"
    /\ mutex = NoCommand
    /\ pending[c] = "waiting"
    /\ ~(Kind[c] \in OwnedKinds /\ phase[c] # "kCancelled")
    /\ pending' = [pending EXCEPT ![c] = "detached"]
    /\ client' = [client EXCEPT ![c] = "answered"]
    /\ result' = [result EXCEPT ![c] = "kOutcomeUnconfirmed"]
    /\ stopAsked' = TRUE
    /\ UNCHANGED <<queueVars, controlVars, effectVars, workerVars,
                   pendingOutcome, mutex, why, clientCancel, runStarted,
                   runStopping, rpcStop, stopper, drained, outcomeVars>>

\* A progress report throws out of WaitForCommand: the executor detaches.
DetachPendingCommand(c) ==
    /\ client[c] = "waiting"
    /\ Kind[c] = "node"
    /\ mutex = NoCommand
    /\ pending' = [pending EXCEPT ![c] =
                     IF @ = "waiting" THEN "detached" ELSE "absent"]
    /\ client' = [client EXCEPT ![c] = "abandoned"]
    /\ UNCHANGED <<queueVars, controlVars, effectVars, workerVars,
                   pendingOutcome, mutex, why, result, clientCancel, stopVars,
                   outcomeVars>>

-----------------------------------------------------------------------------
(* The processor thread: Run, the live command handler, the outcome.       *)

StartProcessor ==
    /\ \/ worker = "null" /\ worker' = "created"
       \/ worker = "created" /\ worker' = "pop"
    /\ stopper = "idle"
    /\ UNCHANGED <<queueVars, controlVars, effectVars, current, exit, report,
                   pendingVars, clientVars, stopVars, outcomeVars>>

WaitPop ==
    /\ worker = "pop"
    /\ \/ /\ queue # <<>>
          /\ worker' = "popped"
          /\ current' = Head(queue)
          /\ queue' = Tail(queue)
       \/ /\ queue = <<>> /\ closed
          /\ worker' = "exited"
          /\ UNCHANGED <<current, queue>>
    /\ UNCHANGED <<closed, sequence, next, controlVars, effectVars, exit,
                   report, pendingVars, clientVars, stopVars, outcomeVars>>

\* Mutant: the handler runs without the node mutation lock.
BeginCommandUnlocked ==
    /\ worker = "popped"
    /\ worker' = "handler"
    /\ base' = [base EXCEPT ![current] = generation]
    /\ exit' = "none"
    /\ UNCHANGED <<queueVars, controlVars, published, generation, foreign,
                   lock, current, report, pendingVars, clientVars, stopVars,
                   outcomeVars>>

\* A command whose stop was requested is answered without its handler;
\* otherwise the handler registers its shutdown callback, which runs at once
\* when the stop was already requested, and takes the node mutation lock if
\* its kind needs it.
BeginCommand ==
    /\ worker = "popped"
    /\ IF current \in Controlled /\ stop[current]
       THEN /\ worker' = "report"
            /\ report' = CancellationOutcome(current, "kClientCancel")
            /\ UNCHANGED <<base, lock, phase, cause>>
       ELSE /\ worker' = "handler"
            /\ RequestCancellation(
                 {c \in {current} : rpcStop /\ Kind[c] \in ShutdownCancelled},
                 "kApplicationShutdown")
            /\ base' = [base EXCEPT ![current] = generation]
            /\ lock' = IF Kind[current] \in {"role", "unlocked"}
                       THEN lock ELSE current
            /\ UNCHANGED report
    /\ exit' = "none"
    /\ UNCHANGED <<queueVars, stop, unconfirmed, published, generation, foreign,
                   current, pendingVars, clientVars, stopVars, outcomeVars>>

HandlerUnchanged ==
    UNCHANGED <<queueVars, foreign, lock, base, current, report, pendingVars,
                clientVars, runStarted, runStopping, stopAsked, stopper,
                drained, outcomeVars>>

\* The handler's callback on command_rpc_stop_source.
ShutdownCallback ==
    /\ worker \in {"handler", "committing", "published", "completing"}
    /\ rpcStop
    /\ Kind[current] \in ShutdownCancelled
    /\ phase[current] = "kOpen"
    /\ RequestCancellation({current}, "kApplicationShutdown")
    /\ HandlerUnchanged
    /\ UNCHANGED <<stop, unconfirmed, published, generation, worker, exit,
                   rpcStop>>

\* ThrowIfStopRequested on the combined token, anywhere before the commit. A
\* role mutation past its deadline records that cause on its way out.
HandlerCancelled ==
    /\ worker = "handler"
    /\ rpcStop \/ (current \in Controlled /\ stop[current])
    /\ worker' = "classify"
    /\ exit' = "cancelled"
    /\ \/ UNCHANGED <<phase, cause>>
       \/ /\ Kind[current] = "role" /\ phase[current] = "kOpen"
          /\ RequestCancellation({current}, "kDeadline")
    /\ HandlerUnchanged
    /\ UNCHANGED <<stop, unconfirmed, published, generation, rpcStop>>

\* Any other exception before the commit; a node mutation has rolled back.
HandlerFails ==
    /\ worker = "handler"
    /\ worker' = "classify"
    /\ exit' = "failed"
    /\ HandlerUnchanged
    /\ UNCHANGED <<controlVars, published, generation, rpcStop>>

\* The handler cannot tell what it changed: an unverified rollback, an
\* unreconciled peer mutation, or a process that a failed or cancelled kill or
\* restart left unreconciled. A command without a control stops the run itself.
HandlerUnverified ==
    /\ worker = "handler"
    /\ worker' = "classify"
    /\ \/ /\ Kind[current] \in {"node", "role"}
          /\ exit' = "unconfirmed"
          /\ UNCHANGED <<unconfirmed, rpcStop>>
       \/ /\ Kind[current] = "plain" /\ current \in Controlled
          /\ exit' \in {"failed"} \cup
               (IF rpcStop \/ stop[current] THEN {"cancelled"} ELSE {})
          /\ unconfirmed' = [unconfirmed EXCEPT ![current] = TRUE]
          /\ UNCHANGED rpcStop
       \/ /\ Kind[current] = "plain" /\ current \notin Controlled
          /\ exit' \in {"failed", "unconfirmed"}
          /\ rpcStop' = TRUE
          /\ UNCHANGED unconfirmed
    /\ HandlerUnchanged
    /\ UNCHANGED <<phase, cause, stop, published, generation>>

\* Mutant: the commit is begun without looking at a cancellation.
TryBeginCommitAlways ==
    /\ worker = "handler"
    /\ Kind[current] \in CommitKinds
    /\ worker' = "committing"
    /\ phase' = IF current \in Controlled /\ phase[current] = "kOpen"
                THEN [phase EXCEPT ![current] = "kCommitStarted"] ELSE phase
    /\ HandlerUnchanged
    /\ UNCHANGED <<cause, stop, unconfirmed, published, generation, exit,
                   rpcStop>>

\* Mutant: the mutation is written before the commit is begun.
TryBeginCommitAfterWrite ==
    /\ worker = "handler"
    /\ Kind[current] \in CommitKinds
    /\ published' = published \cup {current}
    /\ IF current \in Controlled /\ phase[current] # "kOpen"
       THEN /\ worker' = "classify" /\ exit' = "cancelled"
            /\ UNCHANGED phase
       ELSE /\ worker' = "committing" /\ UNCHANGED exit
            /\ phase' = IF current \in Controlled
                        THEN [phase EXCEPT ![current] = "kCommitStarted"]
                        ELSE phase
    /\ HandlerUnchanged
    /\ UNCHANGED <<cause, stop, unconfirmed, generation, rpcStop>>

\* TryBeginCommit, in the node transactions and in authorize_resource_mutation.
TryBeginCommit ==
    /\ worker = "handler"
    /\ Kind[current] \in CommitKinds
    /\ IF current \in Controlled /\ phase[current] # "kOpen"
       THEN /\ worker' = "classify" /\ exit' = "cancelled"
            /\ UNCHANGED phase
       ELSE /\ worker' = "committing" /\ UNCHANGED exit
            /\ phase' = IF current \in Controlled
                        THEN [phase EXCEPT ![current] = "kCommitStarted"]
                        ELSE phase
    /\ HandlerUnchanged
    /\ UNCHANGED <<cause, stop, unconfirmed, published, generation, rpcStop>>

\* The write itself. Kinds without an own commit point publish from "handler".
Publish ==
    /\ \/ worker = "committing" /\ worker' = "published"
       \/ /\ worker = "handler" /\ Kind[current] \notin CommitKinds
          /\ worker' = "completing"
    /\ published' = published \cup {current}
    /\ generation' = IF Kind[current] \in {"node", "role"} THEN generation + 1
                                                          ELSE generation
    /\ HandlerUnchanged
    /\ UNCHANGED <<controlVars, exit, rpcStop>>

\* A resource write or a signal delivery fails after admission: restored and
\* failed, or not restored and unconfirmed.
WriteFails ==
    /\ worker = "committing"
    /\ Kind[current] \in OwnedKinds
    /\ worker' = "classify"
    /\ \/ exit' = "failed"
       \/ Kind[current] = "resource" /\ exit' = "unconfirmed"
    /\ HandlerUnchanged
    /\ UNCHANGED <<controlVars, published, generation, rpcStop>>

MarkCommitted ==
    /\ worker = "published"
    /\ worker' = "completing"
    /\ phase' = IF current \in Controlled
                THEN [phase EXCEPT ![current] = "kCommitted"] ELSE phase
    /\ HandlerUnchanged
    /\ UNCHANGED <<cause, stop, unconfirmed, published, generation, exit,
                   rpcStop>>

\* The mutation's own evidence cannot be written after publication.
EvidenceFails ==
    /\ worker = "published"
    /\ Kind[current] \in {"node", "resource"}
    /\ worker' = "classify"
    /\ exit' = "unconfirmed"
    /\ unconfirmed' = IF Kind[current] = "node"
                      THEN [unconfirmed EXCEPT ![current] = TRUE]
                      ELSE unconfirmed
    /\ HandlerUnchanged
    /\ UNCHANGED <<phase, cause, stop, published, generation, rpcStop>>

\* The kOperatorCommandCompleted event, written or not.
CompletionEvent ==
    /\ worker = "completing"
    /\ worker' = "classify"
    /\ \/ exit' = "ok"
       \/ exit' = IF Kind[current] \in {"node", "target", "signal", "role"}
                  THEN "unconfirmed" ELSE "failed"
    /\ HandlerUnchanged
    /\ UNCHANGED <<controlVars, published, generation, rpcStop>>

\* Run's success path and its catch clauses.
Outcome(c, how) ==
    LET because == CancellationCause(c, "kNone") IN
    CASE how = "ok" ->
           [state |-> IF Kind[c] = "node" /\ phase[c] # "kCommitted"
                      THEN "kOutcomeUnconfirmed" ELSE "kSucceeded",
            cause |-> because]
      [] how = "cancelled" -> CancellationOutcome(c, "kNone")
      [] how = "unconfirmed" ->
           [state |-> "kOutcomeUnconfirmed", cause |-> because]
      [] how = "failed" ->
           IF NodeMutationCancellationWon(c)
           THEN CancellationOutcome(c, "kNone")
           ELSE [state |-> IF OutcomeUnconfirmed(c) THEN "kOutcomeUnconfirmed"
                                                   ELSE "kFailed",
                 cause |-> because]

Classify ==
    /\ worker = "classify"
    /\ worker' = "report"
    /\ report' = Outcome(current, exit)
    /\ UNCHANGED <<queueVars, controlVars, effectVars, current, exit,
                   pendingVars, clientVars, stopVars, outcomeVars>>

\* The checks of RecordCommandOutcome on a node mutation, made outside the
\* mutex: the commit phase must agree with the outcome and a success must
\* still own the inventory generation it committed.
PhaseMismatch(c, out) ==
    \/ out.state = "kSucceeded" /\ phase[c] # "kCommitted"
    \/ out.state \in {"kCancelled", "kTimedOut"} /\ phase[c] # "kCancelled"
    \/ out.state = "kFailed" /\ phase[c] # "kOpen"

Validated(c, out) ==
    IF /\ Kind[c] = "node"
       /\ \/ PhaseMismatch(c, out)
          \/ out.state = "kSucceeded" /\ generation # base[c] + 1
    THEN [out EXCEPT !.state = "kOutcomeUnconfirmed"]
    ELSE out

\* The live outcome handler up to RecordCommandOutcome's critical section: an
\* unconfirmed outcome marks the control and stops the simulation.
ValidateOutcome ==
    LET lost == report.state = "kOutcomeUnconfirmed"
        checked == Validated(current, report)
    IN  /\ worker = "report"
        /\ worker' = "record"
        /\ report' = checked
        /\ unconfirmed' = IF lost /\ current \in Controlled
                          THEN [unconfirmed EXCEPT ![current] = TRUE]
                          ELSE unconfirmed
        /\ rpcStop' = (rpcStop \/ lost)
        /\ stopAsked' = (stopAsked \/ checked # report)
        /\ UNCHANGED <<queueVars, phase, cause, stop, effectVars, current,
                       exit, pendingVars, clientVars, runStarted, runStopping,
                       stopper, drained, outcomeVars>>

RecordCommandOutcome(c, state) ==
    /\ mutex = NoCommand
    /\ pending' = [pending EXCEPT ![c] =
                     IF @ \in {"waiting", "completed"} THEN "completed"
                                                       ELSE "absent"]
    /\ pendingOutcome' = [pendingOutcome EXCEPT ![c] =
                            CASE pending[c] = "waiting" -> state
                              [] pending[c] = "completed" -> "kFailed"
                              [] OTHER -> @]
    /\ recorded' = [recorded EXCEPT ![c] = state]
    /\ reports' = [reports EXCEPT ![c] = @ + 1]

\* The outcome handler returns and its mutation lock with it.
ReportOutcome ==
    /\ worker = "record"
    /\ RecordCommandOutcome(current, report.state)
    /\ worker' = "pop"
    /\ current' = NoCommand
    /\ lock' = NoCommand
    /\ UNCHANGED <<queueVars, controlVars, published, generation, base,
                   foreign, exit, report, mutex, clientVars, stopVars>>

\* A role service of an MCP operation mutates the inventory under the lock.
RoleServiceMutates ==
    /\ lock = NoCommand
    /\ foreign < MaxForeign
    /\ foreign' = foreign + 1
    /\ generation' = generation + 1
    /\ UNCHANGED <<queueVars, controlVars, published, base, lock, workerVars,
                   pendingVars, clientVars, stopVars, outcomeVars>>

-----------------------------------------------------------------------------
(* The run's thread: MarkRunStarted once the processor runs, and at the    *)
(* end MarkRunStopping and stop_command_processor. The host's RequestStop. *)

MarkRunStarted ==
    /\ ~runStarted /\ ~runStopping
    /\ worker \notin {"null", "created"}
    /\ runStarted' = TRUE
    /\ UNCHANGED <<queueVars, controlVars, effectVars, workerVars,
                   pendingVars, clientVars, runStopping, rpcStop, stopAsked,
                   stopper, drained, outcomeVars>>

MarkRunStopping ==
    /\ ~runStopping
    /\ runStopping' = TRUE
    /\ UNCHANGED <<queueVars, controlVars, effectVars, workerVars,
                   pendingVars, clientVars, runStarted, rpcStop, stopAsked,
                   stopper, drained, outcomeVars>>

\* RequestHostedStop, called by the operator or through request_run_stop: it
\* stops the simulation and closes the queue, which the processor still
\* empties.
HostedStop ==
    /\ ~(closed /\ rpcStop)
    /\ rpcStop' = TRUE
    /\ closed' = TRUE
    /\ UNCHANGED <<queue, sequence, next, controlVars, effectVars, workerVars,
                   pendingVars, clientVars, runStarted, runStopping,
                   stopAsked, stopper, drained, outcomeVars>>

\* Mutant: Cancel() copies the queue and leaves it to the processor as well.
StopCommandProcessorCopies ==
    /\ stopper = "idle"
    /\ runStopping
    /\ rpcStop' = TRUE
    /\ IF worker = "created"
       THEN stopper' = "done" /\ UNCHANGED <<closed, drained>>
       ELSE stopper' = "cancelling" /\ closed' = TRUE /\ drained' = queue
    /\ UNCHANGED <<queue, sequence, next, controlVars, effectVars, workerVars,
                   pendingVars, clientVars, runStarted, runStopping,
                   stopAsked, outcomeVars>>

\* Mutant: the drained commands are dropped.
StopCommandProcessorDrops ==
    /\ stopper = "idle"
    /\ runStopping
    /\ rpcStop' = TRUE
    /\ IF worker = "created"
       THEN stopper' = "done" /\ UNCHANGED <<queue, closed>>
       ELSE stopper' = "cancelling" /\ closed' = TRUE /\ queue' = <<>>
    /\ UNCHANGED <<drained, sequence, next, controlVars, effectVars,
                   workerVars, pendingVars, clientVars, runStarted,
                   runStopping, stopAsked, outcomeVars>>

\* Stop() returns at once on a processor that was created and never started;
\* otherwise the queue is closed and drained.
StopCommandProcessor ==
    /\ stopper = "idle"
    /\ runStopping
    /\ rpcStop' = TRUE
    /\ IF worker = "created"
       THEN stopper' = "done" /\ UNCHANGED <<queue, closed, drained>>
       ELSE /\ stopper' = "cancelling"
            /\ closed' = TRUE
            /\ drained' = queue
            /\ queue' = <<>>
    /\ UNCHANGED <<sequence, next, controlVars, effectVars, workerVars,
                   pendingVars, clientVars, runStarted, runStopping,
                   stopAsked, outcomeVars>>

Drained == {drained[i] : i \in 1..Len(drained)}

CancelDrained ==
    /\ stopper = "cancelling"
    /\ RequestCancellation(
           {c \in Drained : Kind[c] \in ShutdownCancelled},
           "kApplicationShutdown")
    /\ stopper' = "joining"
    /\ UNCHANGED <<queueVars, stop, unconfirmed, effectVars, workerVars,
                   pendingVars, clientVars, runStarted, runStopping, rpcStop,
                   stopAsked, drained, outcomeVars>>

\* Mutant: the drained commands are answered without joining the processor.
SkipJoin ==
    /\ stopper = "joining"
    /\ stopper' = "reporting"
    /\ UNCHANGED <<queueVars, controlVars, effectVars, workerVars,
                   pendingVars, clientVars, runStarted, runStopping, rpcStop,
                   stopAsked, drained, outcomeVars>>

JoinProcessor ==
    /\ stopper = "joining"
    /\ worker \in {"null", "exited"}
    /\ stopper' = "reporting"
    /\ UNCHANGED <<queueVars, controlVars, effectVars, workerVars,
                   pendingVars, clientVars, runStarted, runStopping, rpcStop,
                   stopAsked, drained, outcomeVars>>

\* The outcome of a drained command; a processor that never existed records
\* the cancellation without consulting the control.
DrainedOutcome(c) ==
    IF worker = "null"
    THEN [state |-> "kCancelled", cause |-> "kApplicationShutdown"]
    ELSE CancellationOutcome(c, "kApplicationShutdown")

ReportDrained ==
    /\ stopper = "reporting"
    /\ drained # <<>>
    /\ LET c == Head(drained)
           out == Validated(c, DrainedOutcome(c))
       IN  /\ RecordCommandOutcome(c, out.state)
           /\ stopAsked' = (stopAsked \/ out # DrainedOutcome(c))
    /\ drained' = Tail(drained)
    /\ UNCHANGED <<queueVars, controlVars, effectVars, workerVars, mutex,
                   clientVars, runStarted, runStopping, rpcStop, stopper>>

StopReturns ==
    /\ stopper = "reporting"
    /\ drained = <<>>
    /\ stopper' = "done"
    /\ UNCHANGED <<queueVars, controlVars, effectVars, workerVars,
                   pendingVars, clientVars, runStarted, runStopping, rpcStop,
                   stopAsked, drained, outcomeVars>>

Settled(c) == client[c] \in {"sent", "answered", "refused", "abandoned"}

\* Every thread has finished: the behaviour stutters from here.
Finished ==
    /\ stopper = "done"
    /\ \A c \in Commands : Settled(c)
    /\ UNCHANGED vars

-----------------------------------------------------------------------------
Init ==
    /\ queue = <<>> /\ closed = FALSE
    /\ sequence = [c \in Commands |-> 0] /\ next = 1
    /\ phase = [c \in Commands |-> "kOpen"]
    /\ cause = [c \in Commands |-> "kNone"]
    /\ stop = [c \in Commands |-> FALSE]
    /\ unconfirmed = [c \in Commands |-> FALSE]
    /\ published = {} /\ generation = 0 /\ foreign = 0 /\ lock = NoCommand
    /\ base = [c \in Commands |-> 0]
    /\ worker = "null" /\ current = NoCommand /\ exit = "none"
    /\ report = NoReport
    /\ pending = [c \in Commands |-> "absent"]
    /\ pendingOutcome = [c \in Commands |-> "none"]
    /\ mutex = NoCommand
    /\ client = [c \in Commands |-> "idle"]
    /\ why = [c \in Commands |-> "kNone"]
    /\ result = [c \in Commands |-> "none"]
    /\ clientCancel = [c \in Commands |-> FALSE]
    /\ runStarted = FALSE /\ runStopping = FALSE
    /\ rpcStop = FALSE /\ stopAsked = FALSE
    /\ stopper = "idle" /\ drained = <<>>
    /\ recorded = [c \in Commands |-> "none"]
    /\ reports = [c \in Commands |-> 0]

WorkerStep ==
    \/ WaitPop \/ BeginCommand
    \/ HandlerCancelled \/ HandlerFails \/ HandlerUnverified
    \/ TryBeginCommit \/ Publish \/ WriteFails \/ MarkCommitted
    \/ EvidenceFails \/ CompletionEvent
    \/ Classify \/ ValidateOutcome \/ ReportOutcome

StopStep ==
    \/ StopCommandProcessor \/ CancelDrained \/ JoinProcessor
    \/ ReportDrained \/ StopReturns

WaiterStep(c) ==
    \/ SubmitCorrelated(c) \/ WaitForCommand(c) \/ WaitInterrupted(c)
    \/ WaiterCancels(c) \/ ReconciliationExpires(c)
    \/ DetachPendingCommand(c)

ClientStep(c) ==
    \/ PushLocal(c) \/ SubmitCommand(c) \/ Refused(c) \/ ClientCancels(c)
    \/ StopCallback(c) \/ RequestStop(c) \/ WaiterStep(c)

Next ==
    \/ \E c \in Commands : ClientStep(c)
    \/ StartProcessor \/ WorkerStep \/ ShutdownCallback
    \/ RoleServiceMutates
    \/ MarkRunStarted \/ MarkRunStopping \/ HostedStop \/ StopStep
    \/ Finished

Spec == Init /\ [][Next]_vars

-----------------------------------------------------------------------------
(* Fairness. Every thread that can move eventually does: the processor and *)
(* the run's thread are never descheduled for ever, and a handler ends     *)
(* because each RPC and each wait in it has its own timeout. The arrival   *)
(* of commands, client cancellations and the end of the run are not fair,  *)
(* except that the run's thread reacts to a stop that was requested.       *)

FairWaiterStep(c) ==
    \/ SubmitCorrelated(c) \/ WaitForCommand(c) \/ WaitInterrupted(c)
    \/ WaiterCancels(c) \/ ReconciliationExpires(c)

Fairness ==
    /\ WF_vars(StartProcessor) /\ WF_vars(WorkerStep) /\ WF_vars(StopStep)
    /\ WF_vars(stopAsked /\ HostedStop)
    /\ WF_vars(rpcStop /\ MarkRunStopping)
    /\ \A c \in Commands : /\ WF_vars(FairWaiterStep(c))
                           /\ WF_vars(RequestStop(c))

FairSpec == Spec /\ Fairness

-----------------------------------------------------------------------------
(* Properties.                                                             *)

Report == [state : States, cause : Causes]

QueueTypeOK ==
    /\ queue \in Seq(Commands)
    /\ closed \in BOOLEAN
    /\ sequence \in [Commands -> Nat]
    /\ next \in Nat

ControlTypeOK ==
    /\ phase \in [Commands -> Phases]
    /\ cause \in [Commands -> Causes]
    /\ stop \in [Commands -> BOOLEAN]
    /\ unconfirmed \in [Commands -> BOOLEAN]

EffectTypeOK ==
    /\ published \subseteq Commands
    /\ generation \in Nat
    /\ base \in [Commands -> Nat]
    /\ foreign \in Nat
    /\ lock \in Commands \cup {NoCommand}

Busy == {"popped", "handler", "committing", "published", "completing",
         "classify", "report", "record"}

WorkerTypeOK ==
    /\ worker \in Busy \cup {"null", "created", "pop", "exited"}
    /\ current \in Commands \cup {NoCommand}
    /\ worker \in Busy => current \in Commands
    /\ exit \in {"none", "ok", "cancelled", "unconfirmed", "failed"}
    /\ worker = "classify" => exit # "none"
    /\ report \in Report

PendingTypeOK ==
    /\ pending \in [Commands -> {"absent", "waiting", "completed", "detached"}]
    /\ pendingOutcome \in [Commands -> States \cup {"none"}]
    /\ mutex \in Commands \cup {NoCommand}

ClientTypeOK ==
    /\ client \in [Commands -> {"idle", "sent", "submitting", "waiting",
                               "interrupted", "reconciling", "answered",
                               "refused", "lost", "abandoned"}]
    /\ why \in [Commands -> Causes]
    /\ result \in [Commands -> States \cup {"none"}]
    /\ clientCancel \in [Commands -> BOOLEAN]

StopTypeOK ==
    /\ runStarted \in BOOLEAN
    /\ runStopping \in BOOLEAN
    /\ rpcStop \in BOOLEAN
    /\ stopAsked \in BOOLEAN
    /\ stopper \in {"idle", "cancelling", "joining", "reporting", "done"}
    /\ drained \in Seq(Commands)

OutcomeTypeOK ==
    /\ recorded \in [Commands -> States \cup {"none"}]
    /\ reports \in [Commands -> Nat]

\* The type invariant: every variable holds a value its C++ counterpart can,
\* and a busy processor has a command in its hands.
TypeOK ==
    /\ QueueTypeOK
    /\ ControlTypeOK
    /\ EffectTypeOK
    /\ WorkerTypeOK
    /\ PendingTypeOK
    /\ ClientTypeOK
    /\ StopTypeOK
    /\ OutcomeTypeOK

Undone == {"kFailed", "kCancelled", "kTimedOut"}
AccountableKinds == {"node", "target", "signal"}

\* A cancellation that won the compare-exchange and a commit exclude each
\* other for ever: a mutation with a commit point is never in effect once
\* RequestCancellation returned true on it.
CancelledIsNeverPublished ==
    \A c \in Controlled :
        Kind[c] \in CommitKinds /\ phase[c] = "kCancelled"
            => c \notin published

\* The strengthening that makes the exclusion inductive: what is published has
\* begun its commit, and the command between TryBeginCommit and MarkCommitted
\* owns the phase kCommitStarted.
PublishedCommitted ==
    \A c \in Controlled :
        c \in published /\ Kind[c] \in CommitKinds
            => phase[c] \in {"kCommitStarted", "kCommitted"}

CommittingOwnsPhase ==
    worker \in {"committing", "published"} /\ current \in Controlled
        => phase[current] = "kCommitStarted"

CommitExclusion == PublishedCommitted /\ CommittingOwnsPhase

\* The published outcome never contradicts the inventory: a node, target or
\* signal command recorded as failed, cancelled or timed out left no effect,
\* now or later, and one recorded as succeeded did take effect.
DefiniteOutcomeIsTrue ==
    \A c \in Commands :
        /\ recorded[c] \in Undone /\ Kind[c] \in AccountableKinds
              => c \notin published
        /\ recorded[c] = "kSucceeded" => c \in published

\* The same of what the MCP caller is told, although its deadline, its
\* cancellation and the run's end race the processor: a definite answer is
\* the truth and stays the truth, every doubtful case is answered
\* kOutcomeUnconfirmed.
DefiniteAnswerIsTrue ==
    \A c \in Mcp :
        /\ result[c] \in Undone /\ Kind[c] \in AccountableKinds
              => c \notin published
        /\ result[c] = "kSucceeded" => c \in published
        /\ result[c] \notin {"none", "kOutcomeUnconfirmed"}
              => result[c] = recorded[c]

\* WaitForCommand never finds its correlation entry missing ("MCP simulation
\* command outcome was lost") and never waits for an outcome that has already
\* been published, although the processor may finish the command before
\* SubmitCommand has inserted the entry.
OutcomeNeverLost ==
    \A c \in Mcp :
        /\ client[c] # "lost"
        /\ pending[c] = "waiting" => reports[c] = 0

\* The processor and the draining Stop() between them publish at most one
\* outcome for a command, and none for one that was never admitted.
AtMostOneOutcome ==
    \A c \in Commands :
        /\ reports[c] <= 1
        /\ reports[c] = 1 => sequence[c] > 0

\* Commands are answered in the order of their sequence numbers.
AnsweredInOrder ==
    \A c, d \in Commands :
        sequence[c] > 0 /\ sequence[c] < sequence[d] /\ reports[d] = 1
            => reports[c] = 1

\* A node mutation whose handler committed and returned is recorded as a
\* success: no role mutation of another thread can slip in before the
\* committed generation is read back.
CommittedSuccessIsRecorded ==
    worker = "record" /\ exit = "ok" => report.state = "kSucceeded"

\* Once the stop of the processor has returned, no admitted command is left
\* without an outcome.
StopAnswersEverything ==
    stopper = "done" =>
        \A c \in Commands : sequence[c] > 0 => reports[c] = 1

\* Every command admitted while the run is active is answered eventually,
\* by the processor or by the shutdown.
AdmittedIsAnswered ==
    \A c \in Commands :
        (sequence[c] > 0 /\ runStarted) ~> reports[c] = 1

\* Every MCP executor returns, and its correlation entry is released.
WaiterReturns ==
    \A c \in Mcp : client[c] = "submitting" ~>
        client[c] \in {"answered", "abandoned"} /\ pending[c] = "absent"

\* An unconfirmed outcome eventually brings the run down.
UnconfirmedStopsRun ==
    \A c \in Commands :
        recorded[c] = "kOutcomeUnconfirmed" ~> stopper = "done"

-----------------------------------------------------------------------------
(* The contract the pipeline implements.                                   *)

Status(c) == IF recorded[c] # "none" THEN recorded[c]
             ELSE IF sequence[c] > 0 THEN "admitted" ELSE "new"

Contract == INSTANCE CommandContract
                WITH status <- [c \in Commands |-> Status(c)],
                     effect <- published,
                     told <- result

\* Every behaviour of queue, control, processor, waiters and shutdown is one
\* of the command contract: one resolution per command, no effect outside the
\* time between admission and resolution, and no answer the resolution does
\* not back.
ImplementsContract == Contract!Spec

\* Every command that was admitted keeps an outcome that can be found, and has
\* at most one.
OneOutcomeEach ==
    /\ OutcomeNeverLost
    /\ AtMostOneOutcome

\* Under fair scheduling an admitted command is answered, whoever waits for it
\* returns, and an outcome that cannot be confirmed stops the run.
CommandsProgress ==
    /\ AdmittedIsAnswered
    /\ WaiterReturns
    /\ UnconfirmedStopsRun

=============================================================================
