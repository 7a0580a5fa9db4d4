------------------------ MODULE CommandPipelineProofs ------------------------
(***************************************************************************)
(* Theorems about CommandPipeline for any set of commands, any assignment  *)
(* of kinds and any capacities: type correctness, no publication after a   *)
(* cancellation, one outcome for each command in the order of admission.   *)
(***************************************************************************)
EXTENDS CommandPipeline, TLAPS

\* The initial state is well typed.
LEMMA InitTypeOK == Init => TypeOK
<1>. SUFFICES ASSUME Init PROVE TypeOK
  OBVIOUS
<1>1. QueueTypeOK
  <2>1. queue \in Seq(Commands) BY DEF Init
  <2>2. closed \in BOOLEAN BY DEF Init
  <2>3. sequence \in [Commands -> Nat] /\ next \in Nat BY DEF Init
  <2>. QED BY <2>1, <2>2, <2>3 DEF QueueTypeOK
<1>2. ControlTypeOK BY DEF Init, ControlTypeOK, Phases, Causes
<1>3. EffectTypeOK BY DEF Init, EffectTypeOK
<1>4. WorkerTypeOK
  BY DEF Init, WorkerTypeOK, Busy, Report, NoReport, States, Causes
<1>5. PendingTypeOK BY DEF Init, PendingTypeOK
<1>6. ClientTypeOK BY DEF Init, ClientTypeOK, Causes
<1>7. StopTypeOK
  <2>1. drained \in Seq(Commands) BY DEF Init
  <2>2. /\ runStarted \in BOOLEAN /\ runStopping \in BOOLEAN
        /\ rpcStop \in BOOLEAN /\ stopAsked \in BOOLEAN
        /\ stopper \in {"idle", "cancelling", "joining", "reporting", "done"}
    BY DEF Init
  <2>. QED BY <2>1, <2>2 DEF StopTypeOK
<1>8. OutcomeTypeOK BY DEF Init, OutcomeTypeOK
<1>. QED BY <1>1, <1>2, <1>3, <1>4, <1>5, <1>6, <1>7, <1>8 DEF TypeOK

\* The compare-exchange of RequestCancellation keeps phases and causes typed.
LEMMA CancellationTyped ==
    ASSUME ControlTypeOK, NEW S, NEW because \in Causes,
           RequestCancellation(S, because)
    PROVE  /\ phase' \in [Commands -> Phases]
           /\ cause' \in [Commands -> Causes]
  BY DEF ControlTypeOK, RequestCancellation, Phases

\* Every outcome the processor computes is a well-formed report.
LEMMA OutcomeTyped ==
    ASSUME ControlTypeOK, NEW c \in Commands
    PROVE  /\ \A fallback \in Causes : CancellationOutcome(c, fallback) \in Report
           /\ \A how \in {"ok", "cancelled", "unconfirmed", "failed"} :
                 Outcome(c, how) \in Report
           /\ \A out \in Report : Validated(c, out) \in Report
           /\ DrainedOutcome(c) \in Report
<1>1. \A fallback \in Causes : CancellationCause(c, fallback) \in Causes
  BY DEF ControlTypeOK, CancellationCause
<1>2. \A fallback \in Causes : CancellationOutcome(c, fallback) \in Report
  BY <1>1 DEF CancellationOutcome, Report, States
<1>3. "kNone" \in Causes /\ "kApplicationShutdown" \in Causes
  BY DEF Causes
<1>4. \A how \in {"ok", "cancelled", "unconfirmed", "failed"} :
         Outcome(c, how) \in Report
  BY <1>1, <1>2, <1>3 DEF Outcome, Report, States
<1>5. \A out \in Report : Validated(c, out) \in Report
  BY DEF Validated, Report, States
<1>6. DrainedOutcome(c) \in Report
  BY <1>2, <1>3 DEF DrainedOutcome, Report, States
<1>. QED BY <1>2, <1>4, <1>5, <1>6

\* A group of variables that a step leaves alone keeps its type.
LEMMA StableTypes ==
    ASSUME TypeOK
    PROVE  /\ UNCHANGED queueVars => QueueTypeOK'
           /\ UNCHANGED controlVars => ControlTypeOK'
           /\ UNCHANGED effectVars => EffectTypeOK'
           /\ UNCHANGED workerVars => WorkerTypeOK'
           /\ UNCHANGED pendingVars => PendingTypeOK'
           /\ UNCHANGED clientVars => ClientTypeOK'
           /\ UNCHANGED stopVars => StopTypeOK'
           /\ UNCHANGED outcomeVars => OutcomeTypeOK'
<1>1. UNCHANGED queueVars => QueueTypeOK'
  BY DEF TypeOK, queueVars, QueueTypeOK
<1>2. UNCHANGED controlVars => ControlTypeOK'
  BY DEF TypeOK, controlVars, ControlTypeOK
<1>3. UNCHANGED effectVars => EffectTypeOK'
  BY DEF TypeOK, effectVars, EffectTypeOK
<1>4. UNCHANGED workerVars => WorkerTypeOK'
  BY DEF TypeOK, workerVars, WorkerTypeOK
<1>5. UNCHANGED pendingVars => PendingTypeOK'
  BY DEF TypeOK, pendingVars, PendingTypeOK
<1>6. UNCHANGED clientVars => ClientTypeOK'
  BY DEF TypeOK, clientVars, ClientTypeOK
<1>7. UNCHANGED stopVars => StopTypeOK'
  BY DEF TypeOK, stopVars, StopTypeOK
<1>8. UNCHANGED outcomeVars => OutcomeTypeOK'
  BY DEF TypeOK, outcomeVars, OutcomeTypeOK
<1>. QED BY <1>1, <1>2, <1>3, <1>4, <1>5, <1>6, <1>7, <1>8

\* RecordCommandOutcome keeps the correlation table and the outcomes typed.
LEMMA RecordTyped ==
    ASSUME TypeOK, NEW c \in Commands, NEW state \in States,
           RecordCommandOutcome(c, state)
    PROVE  /\ pending' \in [Commands -> {"absent", "waiting", "completed",
                                         "detached"}]
           /\ pendingOutcome' \in [Commands -> States \cup {"none"}]
           /\ OutcomeTypeOK'
<1>1. pending' \in [Commands -> {"absent", "waiting", "completed", "detached"}]
  BY DEF TypeOK, RecordCommandOutcome, PendingTypeOK
<1>2. pendingOutcome' \in [Commands -> States \cup {"none"}]
  BY DEF TypeOK, RecordCommandOutcome, PendingTypeOK, States
<1>3. OutcomeTypeOK'
  BY DEF TypeOK, RecordCommandOutcome, OutcomeTypeOK
<1>. QED BY <1>1, <1>2, <1>3

\* Every step keeps the state well typed.
LEMMA StepTypeOK == TypeOK /\ [Next]_vars => TypeOK'
<1>. SUFFICES ASSUME TypeOK, [Next]_vars PROVE TypeOK'
  OBVIOUS
<1>. /\ QueueTypeOK /\ ControlTypeOK /\ EffectTypeOK /\ WorkerTypeOK
     /\ PendingTypeOK /\ ClientTypeOK /\ StopTypeOK /\ OutcomeTypeOK
  BY DEF TypeOK
<1>1. ASSUME NEW c \in Commands, PushLocal(c) PROVE TypeOK'
  <2>1. QueueTypeOK'
    BY <1>1 DEF PushLocal, Push, QueueTypeOK
  <2>2. ClientTypeOK'
    BY <1>1 DEF PushLocal, ClientTypeOK
  <2>3. UNCHANGED <<controlVars, effectVars, workerVars, pendingVars,
                      stopVars, outcomeVars>>
    BY <1>1 DEF PushLocal
  <2>. QED BY <2>1, <2>2, <2>3, StableTypes DEF TypeOK
<1>2. ASSUME NEW c \in Commands, SubmitCommand(c) PROVE TypeOK'
  <2>1. QueueTypeOK'
    BY <1>2 DEF SubmitCommand, Push, QueueTypeOK
  <2>2. PendingTypeOK'
    BY <1>2 DEF SubmitCommand, PendingTypeOK
  <2>3. ClientTypeOK'
    BY <1>2 DEF SubmitCommand, ClientTypeOK
  <2>4. UNCHANGED <<controlVars, effectVars, workerVars, stopVars,
                      outcomeVars>>
    BY <1>2 DEF SubmitCommand
  <2>. QED BY <2>1, <2>2, <2>3, <2>4, StableTypes DEF TypeOK
<1>3. ASSUME NEW c \in Commands, Refused(c) PROVE TypeOK'
  <2>1. ClientTypeOK'
    BY <1>3 DEF Refused, ClientTypeOK
  <2>2. UNCHANGED <<queueVars, controlVars, effectVars, workerVars,
                      pendingVars, stopVars, outcomeVars>>
    BY <1>3 DEF Refused
  <2>. QED BY <2>1, <2>2, StableTypes DEF TypeOK
<1>4. ASSUME NEW c \in Commands, ClientCancels(c) PROVE TypeOK'
  <2>1. ClientTypeOK'
    BY <1>4 DEF ClientCancels, ClientTypeOK
  <2>2. UNCHANGED <<queueVars, controlVars, effectVars, workerVars,
                      pendingVars, stopVars, outcomeVars>>
    BY <1>4 DEF ClientCancels
  <2>. QED BY <2>1, <2>2, StableTypes DEF TypeOK
<1>5. ASSUME NEW c \in Commands, StopCallback(c) PROVE TypeOK'
  <2>1. ControlTypeOK'
    BY <1>5, CancellationTyped DEF StopCallback, ControlTypeOK, Causes
  <2>2. UNCHANGED <<queueVars, effectVars, workerVars, pendingVars,
                      clientVars, stopVars, outcomeVars>>
    BY <1>5 DEF StopCallback
  <2>. QED BY <2>1, <2>2, StableTypes DEF TypeOK
<1>6. ASSUME NEW c \in Commands, RequestStop(c) PROVE TypeOK'
  <2>1. ControlTypeOK'
    BY <1>6 DEF RequestStop, ControlTypeOK
  <2>2. UNCHANGED <<queueVars, effectVars, workerVars, pendingVars,
                      clientVars, stopVars, outcomeVars>>
    BY <1>6 DEF RequestStop
  <2>. QED BY <2>1, <2>2, StableTypes DEF TypeOK
<1>7. ASSUME NEW c \in Commands, SubmitCorrelated(c) PROVE TypeOK'
  <2>1. PendingTypeOK'
    BY <1>7 DEF SubmitCorrelated, PendingTypeOK
  <2>2. ClientTypeOK'
    BY <1>7 DEF SubmitCorrelated, ClientTypeOK
  <2>3. UNCHANGED <<queueVars, controlVars, effectVars, workerVars, stopVars,
                      outcomeVars>>
    BY <1>7 DEF SubmitCorrelated
  <2>. QED BY <2>1, <2>2, <2>3, StableTypes DEF TypeOK
<1>8. ASSUME NEW c \in Commands, WaitForCommand(c) PROVE TypeOK'
  <2>1. PendingTypeOK'
    BY <1>8 DEF WaitForCommand, PendingTypeOK
  <2>2. ClientTypeOK'
    BY <1>8 DEF WaitForCommand, PendingTypeOK, ClientTypeOK
  <2>3. UNCHANGED <<queueVars, controlVars, effectVars, workerVars, stopVars,
                      outcomeVars>>
    BY <1>8 DEF WaitForCommand
  <2>. QED BY <2>1, <2>2, <2>3, StableTypes DEF TypeOK
<1>9. ASSUME NEW c \in Commands, WaitInterrupted(c) PROVE TypeOK'
  <2>1. ClientTypeOK'
    BY <1>9 DEF WaitInterrupted, ClientTypeOK
  <2>2. UNCHANGED <<queueVars, controlVars, effectVars, workerVars,
                      pendingVars, stopVars, outcomeVars>>
    BY <1>9 DEF WaitInterrupted
  <2>. QED BY <2>1, <2>2, StableTypes DEF TypeOK
<1>10. ASSUME NEW c \in Commands, WaiterCancels(c) PROVE TypeOK'
  <2>1. ControlTypeOK'
    BY <1>10, CancellationTyped DEF WaiterCancels, ControlTypeOK, ClientTypeOK
  <2>2. ClientTypeOK'
    BY <1>10 DEF WaiterCancels, ClientTypeOK
  <2>3. UNCHANGED <<queueVars, effectVars, workerVars, pendingVars, stopVars,
                      outcomeVars>>
    BY <1>10 DEF WaiterCancels
  <2>. QED BY <2>1, <2>2, <2>3, StableTypes DEF TypeOK
<1>11. ASSUME NEW c \in Commands, ReconciliationExpires(c) PROVE TypeOK'
  <2>1. PendingTypeOK'
    BY <1>11 DEF ReconciliationExpires, PendingTypeOK
  <2>2. ClientTypeOK'
    BY <1>11 DEF ReconciliationExpires, ClientTypeOK, States
  <2>3. StopTypeOK'
    BY <1>11 DEF ReconciliationExpires, StopTypeOK
  <2>4. UNCHANGED <<queueVars, controlVars, effectVars, workerVars,
                      outcomeVars>>
    BY <1>11 DEF ReconciliationExpires
  <2>. QED BY <2>1, <2>2, <2>3, <2>4, StableTypes DEF TypeOK
<1>12. ASSUME NEW c \in Commands, DetachPendingCommand(c) PROVE TypeOK'
  <2>1. PendingTypeOK'
    BY <1>12 DEF DetachPendingCommand, PendingTypeOK
  <2>2. ClientTypeOK'
    BY <1>12 DEF DetachPendingCommand, ClientTypeOK
  <2>3. UNCHANGED <<queueVars, controlVars, effectVars, workerVars, stopVars,
                      outcomeVars>>
    BY <1>12 DEF DetachPendingCommand
  <2>. QED BY <2>1, <2>2, <2>3, StableTypes DEF TypeOK
<1>13. ASSUME StartProcessor PROVE TypeOK'
  <2>1. WorkerTypeOK'
    BY <1>13 DEF StartProcessor, WorkerTypeOK, Busy
  <2>2. UNCHANGED <<queueVars, controlVars, effectVars, pendingVars,
                      clientVars, stopVars, outcomeVars>>
    BY <1>13 DEF StartProcessor
  <2>. QED BY <2>1, <2>2, StableTypes DEF TypeOK
<1>14. ASSUME WaitPop PROVE TypeOK'
  <2>1. QueueTypeOK'
    <3>1. queue' \in Seq(Commands) BY <1>14 DEF WaitPop, QueueTypeOK
    <3>2. closed' \in BOOLEAN BY <1>14 DEF WaitPop, QueueTypeOK
    <3>3. UNCHANGED <<sequence, next>> BY <1>14 DEF WaitPop
    <3>. QED BY <3>1, <3>2, <3>3 DEF QueueTypeOK
  <2>2. WorkerTypeOK'
    BY <1>14 DEF WaitPop, WorkerTypeOK, QueueTypeOK, Busy
  <2>3. UNCHANGED <<controlVars, effectVars, pendingVars, clientVars,
                      stopVars, outcomeVars>>
    BY <1>14 DEF WaitPop
  <2>. QED BY <2>1, <2>2, <2>3, StableTypes DEF TypeOK
<1>15. ASSUME BeginCommand PROVE TypeOK'
  <2>1. ControlTypeOK'
    BY <1>15, CancellationTyped DEF BeginCommand, ControlTypeOK, Causes
  <2>2. EffectTypeOK'
    BY <1>15 DEF BeginCommand, EffectTypeOK, WorkerTypeOK, Busy
  <2>3. WorkerTypeOK'
    BY <1>15, OutcomeTyped DEF BeginCommand, WorkerTypeOK, Busy, Causes
  <2>4. UNCHANGED <<queueVars, pendingVars, clientVars, stopVars,
                      outcomeVars>>
    BY <1>15 DEF BeginCommand
  <2>. QED BY <2>1, <2>2, <2>3, <2>4, StableTypes DEF TypeOK
<1>16. ASSUME ShutdownCallback PROVE TypeOK'
  <2>1. ControlTypeOK'
    BY <1>16, CancellationTyped DEF ShutdownCallback, ControlTypeOK, Causes
  <2>2. EffectTypeOK'
    BY <1>16 DEF ShutdownCallback, HandlerUnchanged, EffectTypeOK
  <2>3. WorkerTypeOK'
    BY <1>16 DEF ShutdownCallback, HandlerUnchanged, WorkerTypeOK
  <2>4. StopTypeOK'
    BY <1>16 DEF ShutdownCallback, HandlerUnchanged, StopTypeOK
  <2>5. UNCHANGED <<queueVars, pendingVars, clientVars, outcomeVars>>
    BY <1>16 DEF ShutdownCallback, HandlerUnchanged
  <2>. QED BY <2>1, <2>2, <2>3, <2>4, <2>5, StableTypes DEF TypeOK
<1>17. ASSUME HandlerCancelled PROVE TypeOK'
  <2>1. ControlTypeOK'
    BY <1>17, CancellationTyped DEF HandlerCancelled, ControlTypeOK, Causes
  <2>2. EffectTypeOK'
    BY <1>17 DEF HandlerCancelled, HandlerUnchanged, EffectTypeOK
  <2>3. WorkerTypeOK'
    BY <1>17 DEF HandlerCancelled, HandlerUnchanged, WorkerTypeOK, Busy
  <2>4. StopTypeOK'
    BY <1>17 DEF HandlerCancelled, HandlerUnchanged, StopTypeOK
  <2>5. UNCHANGED <<queueVars, pendingVars, clientVars, outcomeVars>>
    BY <1>17 DEF HandlerCancelled, HandlerUnchanged
  <2>. QED BY <2>1, <2>2, <2>3, <2>4, <2>5, StableTypes DEF TypeOK
<1>18. ASSUME HandlerFails PROVE TypeOK'
  <2>1. EffectTypeOK'
    BY <1>18 DEF HandlerFails, HandlerUnchanged, EffectTypeOK
  <2>2. WorkerTypeOK'
    BY <1>18 DEF HandlerFails, HandlerUnchanged, WorkerTypeOK, Busy
  <2>3. StopTypeOK'
    BY <1>18 DEF HandlerFails, HandlerUnchanged, StopTypeOK
  <2>4. UNCHANGED <<queueVars, controlVars, pendingVars, clientVars,
                      outcomeVars>>
    BY <1>18 DEF HandlerFails, HandlerUnchanged
  <2>. QED BY <2>1, <2>2, <2>3, <2>4, StableTypes DEF TypeOK
<1>19. ASSUME HandlerUnverified PROVE TypeOK'
  <2>1. ControlTypeOK'
    BY <1>19 DEF HandlerUnverified, ControlTypeOK
  <2>2. EffectTypeOK'
    BY <1>19 DEF HandlerUnverified, HandlerUnchanged, EffectTypeOK
  <2>3. WorkerTypeOK'
    BY <1>19 DEF HandlerUnverified, HandlerUnchanged, WorkerTypeOK, Busy
  <2>4. StopTypeOK'
    BY <1>19 DEF HandlerUnverified, HandlerUnchanged, StopTypeOK
  <2>5. UNCHANGED <<queueVars, pendingVars, clientVars, outcomeVars>>
    BY <1>19 DEF HandlerUnverified, HandlerUnchanged
  <2>. QED BY <2>1, <2>2, <2>3, <2>4, <2>5, StableTypes DEF TypeOK
<1>20. ASSUME TryBeginCommit PROVE TypeOK'
  <2>1. ControlTypeOK'
    BY <1>20 DEF TryBeginCommit, ControlTypeOK, Phases
  <2>2. EffectTypeOK'
    BY <1>20 DEF TryBeginCommit, HandlerUnchanged, EffectTypeOK
  <2>3. WorkerTypeOK'
    BY <1>20 DEF TryBeginCommit, HandlerUnchanged, WorkerTypeOK, Busy
  <2>4. StopTypeOK'
    BY <1>20 DEF TryBeginCommit, HandlerUnchanged, StopTypeOK
  <2>5. UNCHANGED <<queueVars, pendingVars, clientVars, outcomeVars>>
    BY <1>20 DEF TryBeginCommit, HandlerUnchanged
  <2>. QED BY <2>1, <2>2, <2>3, <2>4, <2>5, StableTypes DEF TypeOK
<1>21. ASSUME Publish PROVE TypeOK'
  <2>1. EffectTypeOK'
    BY <1>21 DEF Publish, HandlerUnchanged, EffectTypeOK, WorkerTypeOK, Busy
  <2>2. WorkerTypeOK'
    BY <1>21 DEF Publish, HandlerUnchanged, WorkerTypeOK, Busy
  <2>3. StopTypeOK'
    BY <1>21 DEF Publish, HandlerUnchanged, StopTypeOK
  <2>4. UNCHANGED <<queueVars, controlVars, pendingVars, clientVars,
                      outcomeVars>>
    BY <1>21 DEF Publish, HandlerUnchanged
  <2>. QED BY <2>1, <2>2, <2>3, <2>4, StableTypes DEF TypeOK
<1>22. ASSUME WriteFails PROVE TypeOK'
  <2>1. EffectTypeOK'
    BY <1>22 DEF WriteFails, HandlerUnchanged, EffectTypeOK
  <2>2. WorkerTypeOK'
    BY <1>22 DEF WriteFails, HandlerUnchanged, WorkerTypeOK, Busy
  <2>3. StopTypeOK'
    BY <1>22 DEF WriteFails, HandlerUnchanged, StopTypeOK
  <2>4. UNCHANGED <<queueVars, controlVars, pendingVars, clientVars,
                      outcomeVars>>
    BY <1>22 DEF WriteFails, HandlerUnchanged
  <2>. QED BY <2>1, <2>2, <2>3, <2>4, StableTypes DEF TypeOK
<1>23. ASSUME MarkCommitted PROVE TypeOK'
  <2>1. ControlTypeOK'
    BY <1>23 DEF MarkCommitted, ControlTypeOK, Phases
  <2>2. EffectTypeOK'
    BY <1>23 DEF MarkCommitted, HandlerUnchanged, EffectTypeOK
  <2>3. WorkerTypeOK'
    BY <1>23 DEF MarkCommitted, HandlerUnchanged, WorkerTypeOK, Busy
  <2>4. StopTypeOK'
    BY <1>23 DEF MarkCommitted, HandlerUnchanged, StopTypeOK
  <2>5. UNCHANGED <<queueVars, pendingVars, clientVars, outcomeVars>>
    BY <1>23 DEF MarkCommitted, HandlerUnchanged
  <2>. QED BY <2>1, <2>2, <2>3, <2>4, <2>5, StableTypes DEF TypeOK
<1>24. ASSUME EvidenceFails PROVE TypeOK'
  <2>1. ControlTypeOK'
    BY <1>24 DEF EvidenceFails, ControlTypeOK
  <2>2. EffectTypeOK'
    BY <1>24 DEF EvidenceFails, HandlerUnchanged, EffectTypeOK
  <2>3. WorkerTypeOK'
    BY <1>24 DEF EvidenceFails, HandlerUnchanged, WorkerTypeOK, Busy
  <2>4. StopTypeOK'
    BY <1>24 DEF EvidenceFails, HandlerUnchanged, StopTypeOK
  <2>5. UNCHANGED <<queueVars, pendingVars, clientVars, outcomeVars>>
    BY <1>24 DEF EvidenceFails, HandlerUnchanged
  <2>. QED BY <2>1, <2>2, <2>3, <2>4, <2>5, StableTypes DEF TypeOK
<1>25. ASSUME CompletionEvent PROVE TypeOK'
  <2>1. EffectTypeOK'
    BY <1>25 DEF CompletionEvent, HandlerUnchanged, EffectTypeOK
  <2>2. WorkerTypeOK'
    BY <1>25 DEF CompletionEvent, HandlerUnchanged, WorkerTypeOK, Busy
  <2>3. StopTypeOK'
    BY <1>25 DEF CompletionEvent, HandlerUnchanged, StopTypeOK
  <2>4. UNCHANGED <<queueVars, controlVars, pendingVars, clientVars,
                      outcomeVars>>
    BY <1>25 DEF CompletionEvent, HandlerUnchanged
  <2>. QED BY <2>1, <2>2, <2>3, <2>4, StableTypes DEF TypeOK
<1>26. ASSUME Classify PROVE TypeOK'
  <2>1. WorkerTypeOK'
    BY <1>26, OutcomeTyped DEF Classify, WorkerTypeOK, Busy
  <2>2. UNCHANGED <<queueVars, controlVars, effectVars, pendingVars,
                      clientVars, stopVars, outcomeVars>>
    BY <1>26 DEF Classify
  <2>. QED BY <2>1, <2>2, StableTypes DEF TypeOK
<1>27. ASSUME ValidateOutcome PROVE TypeOK'
  <2>1. ControlTypeOK'
    BY <1>27 DEF ValidateOutcome, ControlTypeOK
  <2>2. WorkerTypeOK'
    BY <1>27, OutcomeTyped DEF ValidateOutcome, WorkerTypeOK, Busy
  <2>3. StopTypeOK'
    BY <1>27 DEF ValidateOutcome, StopTypeOK
  <2>4. UNCHANGED <<queueVars, effectVars, pendingVars, clientVars,
                      outcomeVars>>
    BY <1>27 DEF ValidateOutcome
  <2>. QED BY <2>1, <2>2, <2>3, <2>4, StableTypes DEF TypeOK
<1>28. ASSUME ReportOutcome PROVE TypeOK'
  <2>1. EffectTypeOK'
    BY <1>28 DEF ReportOutcome, EffectTypeOK
  <2>2. WorkerTypeOK'
    BY <1>28 DEF ReportOutcome, WorkerTypeOK, Busy
  <2>3. PendingTypeOK'
    BY <1>28, RecordTyped DEF ReportOutcome, WorkerTypeOK, Busy, Report,
      PendingTypeOK
  <2>4. OutcomeTypeOK'
    BY <1>28, RecordTyped DEF ReportOutcome, WorkerTypeOK, Busy, Report
  <2>5. UNCHANGED <<queueVars, controlVars, clientVars, stopVars>>
    BY <1>28 DEF ReportOutcome
  <2>. QED BY <2>1, <2>2, <2>3, <2>4, <2>5, StableTypes DEF TypeOK
<1>29. ASSUME RoleServiceMutates PROVE TypeOK'
  <2>1. EffectTypeOK'
    BY <1>29 DEF RoleServiceMutates, EffectTypeOK
  <2>2. UNCHANGED <<queueVars, controlVars, workerVars, pendingVars,
                      clientVars, stopVars, outcomeVars>>
    BY <1>29 DEF RoleServiceMutates
  <2>. QED BY <2>1, <2>2, StableTypes DEF TypeOK
<1>30. ASSUME MarkRunStarted PROVE TypeOK'
  <2>1. StopTypeOK'
    BY <1>30 DEF MarkRunStarted, StopTypeOK
  <2>2. UNCHANGED <<queueVars, controlVars, effectVars, workerVars,
                      pendingVars, clientVars, outcomeVars>>
    BY <1>30 DEF MarkRunStarted
  <2>. QED BY <2>1, <2>2, StableTypes DEF TypeOK
<1>31. ASSUME MarkRunStopping PROVE TypeOK'
  <2>1. StopTypeOK'
    BY <1>31 DEF MarkRunStopping, StopTypeOK
  <2>2. UNCHANGED <<queueVars, controlVars, effectVars, workerVars,
                      pendingVars, clientVars, outcomeVars>>
    BY <1>31 DEF MarkRunStopping
  <2>. QED BY <2>1, <2>2, StableTypes DEF TypeOK
<1>32. ASSUME HostedStop PROVE TypeOK'
  <2>1. QueueTypeOK'
    BY <1>32 DEF HostedStop, QueueTypeOK
  <2>2. StopTypeOK'
    BY <1>32 DEF HostedStop, StopTypeOK
  <2>3. UNCHANGED <<controlVars, effectVars, workerVars, pendingVars,
                      clientVars, outcomeVars>>
    BY <1>32 DEF HostedStop
  <2>. QED BY <2>1, <2>2, <2>3, StableTypes DEF TypeOK
<1>33. ASSUME StopCommandProcessor PROVE TypeOK'
  <2>1. QueueTypeOK'
    <3>1. queue' \in Seq(Commands)
      <4>1. queue' = queue \/ queue' = <<>>
        BY <1>33 DEF StopCommandProcessor
      <4>2. queue \in Seq(Commands) BY DEF QueueTypeOK
      <4>3. <<>> \in Seq(Commands) OBVIOUS
      <4>. QED BY <4>1, <4>2, <4>3
    <3>2. closed' \in BOOLEAN
      <4>1. closed' = closed \/ closed' = TRUE
        BY <1>33 DEF StopCommandProcessor
      <4>2. closed \in BOOLEAN BY DEF QueueTypeOK
      <4>. QED BY <4>1, <4>2
    <3>3. UNCHANGED <<sequence, next>> BY <1>33 DEF StopCommandProcessor
    <3>. QED BY <3>1, <3>2, <3>3 DEF QueueTypeOK
  <2>2. StopTypeOK'
    BY <1>33 DEF StopCommandProcessor, StopTypeOK, QueueTypeOK
  <2>3. UNCHANGED <<controlVars, effectVars, workerVars, pendingVars,
                      clientVars, outcomeVars>>
    BY <1>33 DEF StopCommandProcessor
  <2>. QED BY <2>1, <2>2, <2>3, StableTypes DEF TypeOK
<1>34. ASSUME CancelDrained PROVE TypeOK'
  <2>1. ControlTypeOK'
    BY <1>34, CancellationTyped DEF CancelDrained, ControlTypeOK, Causes
  <2>2. StopTypeOK'
    BY <1>34 DEF CancelDrained, StopTypeOK
  <2>3. UNCHANGED <<queueVars, effectVars, workerVars, pendingVars,
                      clientVars, outcomeVars>>
    BY <1>34 DEF CancelDrained
  <2>. QED BY <2>1, <2>2, <2>3, StableTypes DEF TypeOK
<1>35. ASSUME JoinProcessor PROVE TypeOK'
  <2>1. StopTypeOK'
    BY <1>35 DEF JoinProcessor, StopTypeOK
  <2>2. UNCHANGED <<queueVars, controlVars, effectVars, workerVars,
                      pendingVars, clientVars, outcomeVars>>
    BY <1>35 DEF JoinProcessor
  <2>. QED BY <2>1, <2>2, StableTypes DEF TypeOK
<1>36. ASSUME ReportDrained PROVE TypeOK'
  <2>. DEFINE c == Head(drained)
  <2>1. c \in Commands /\ Tail(drained) \in Seq(Commands)
    BY <1>36 DEF ReportDrained, StopTypeOK
  <2>2. Validated(c, DrainedOutcome(c)).state \in States
    BY <2>1, OutcomeTyped DEF Report
  <2>3. RecordCommandOutcome(c, Validated(c, DrainedOutcome(c)).state)
    BY <1>36 DEF ReportDrained
  <2>4. PendingTypeOK' /\ OutcomeTypeOK'
    <3>. HIDE DEF c
    <3>1. mutex' = mutex BY <1>36 DEF ReportDrained
    <3>. QED BY <2>1, <2>2, <2>3, <3>1, RecordTyped DEF PendingTypeOK
  <2>5. StopTypeOK'
    <3>1. drained' \in Seq(Commands) BY <1>36, <2>1 DEF ReportDrained
    <3>2. stopAsked' \in BOOLEAN BY <1>36 DEF ReportDrained, StopTypeOK
    <3>. QED BY <1>36, <3>1, <3>2 DEF ReportDrained, StopTypeOK
  <2>6. UNCHANGED <<queueVars, controlVars, effectVars, workerVars,
                    clientVars>>
    BY <1>36 DEF ReportDrained
  <2>. QED BY <2>4, <2>5, <2>6, StableTypes DEF TypeOK
<1>37. ASSUME StopReturns PROVE TypeOK'
  <2>1. StopTypeOK'
    BY <1>37 DEF StopReturns, StopTypeOK
  <2>2. UNCHANGED <<queueVars, controlVars, effectVars, workerVars,
                      pendingVars, clientVars, outcomeVars>>
    BY <1>37 DEF StopReturns
  <2>. QED BY <2>1, <2>2, StableTypes DEF TypeOK
<1>38. CASE UNCHANGED vars BY <1>38, StableTypes DEF vars, TypeOK
<1>. QED
  BY <1>1, <1>2, <1>3, <1>4, <1>5, <1>6, <1>7, <1>8, <1>9, <1>10, <1>11,
      <1>12, <1>13, <1>14, <1>15, <1>16, <1>17, <1>18, <1>19, <1>20, <1>21,
      <1>22, <1>23, <1>24, <1>25, <1>26, <1>27, <1>28, <1>29, <1>30, <1>31,
      <1>32, <1>33, <1>34, <1>35, <1>36, <1>37, <1>38
  DEF Next, ClientStep, WaiterStep, WorkerStep, StopStep, Finished

\* In every reachable state each variable has its type and a busy processor
\* holds a command, whatever the commands, their kinds and the capacities.
THEOREM TypeCorrect == Spec => []TypeOK
  BY InitTypeOK, StepTypeOK, PTL DEF Spec

-----------------------------------------------------------------------------
\* Initially no command has been cancelled, committed or published.
LEMMA InitCommitExclusion == Init => CommitExclusion
  BY DEF Init, CommitExclusion, PublishedCommitted, CommittingOwnsPhase

\* A step that neither commits nor publishes: phases leave kOpen only, and the
\* processor does not enter or extend a commit.
LEMMA QuietStep ==
    ASSUME CommitExclusion,
           published' = published,
           \A c \in Commands : phase[c] # "kOpen" => phase'[c] = phase[c],
           worker' \in {"committing", "published"} =>
               worker' = worker /\ current' = current,
           TypeOK
    PROVE  CommitExclusion'
<1>1. Controlled \subseteq Commands
  BY CommandsAssumption DEF Controlled
<1>2. PublishedCommitted'
  BY <1>1 DEF CommitExclusion, PublishedCommitted
<1>3. CommittingOwnsPhase'
  BY <1>1 DEF CommitExclusion, CommittingOwnsPhase
<1>. QED BY <1>2, <1>3 DEF CommitExclusion

\* A cancellation changes the phase of open commands only.
LEMMA CancellationQuiet ==
    ASSUME NEW S, NEW because, RequestCancellation(S, because)
    PROVE  \A c \in Commands : phase[c] # "kOpen" => phase'[c] = phase[c]
  BY DEF RequestCancellation

\* Every step preserves the exclusion of cancellation and commit.
LEMMA StepCommitExclusion ==
    TypeOK /\ CommitExclusion /\ [Next]_vars => CommitExclusion'
<1>. SUFFICES ASSUME TypeOK, CommitExclusion, [Next]_vars
              PROVE  CommitExclusion'
  OBVIOUS
<1>. WorkerTypeOK BY DEF TypeOK
<1>. DEFINE Kept == \A c \in Commands :
                        phase[c] # "kOpen" => phase'[c] = phase[c]
<1>1. ASSUME NEW c \in Commands, StopCallback(c) PROVE CommitExclusion'
  BY <1>1, CancellationQuiet, QuietStep DEF StopCallback, effectVars, workerVars
<1>2. ASSUME NEW c \in Commands, WaiterCancels(c) PROVE CommitExclusion'
  BY <1>2, CancellationQuiet, QuietStep
     DEF WaiterCancels, effectVars, workerVars
<1>3. CASE BeginCommand
  <2>1. Kept BY <1>3, CancellationQuiet DEF BeginCommand
  <2>2. worker' \notin {"committing", "published"} /\ published' = published
    BY <1>3 DEF BeginCommand
  <2>. QED BY <2>1, <2>2, QuietStep
<1>4. CASE ShutdownCallback
  BY <1>4, CancellationQuiet, QuietStep DEF ShutdownCallback, HandlerUnchanged
<1>5. CASE HandlerCancelled
  <2>1. Kept BY <1>5, CancellationQuiet DEF HandlerCancelled
  <2>. QED BY <1>5, <2>1, QuietStep DEF HandlerCancelled
<1>6. CASE CancelDrained
  BY <1>6, CancellationQuiet, QuietStep DEF CancelDrained, effectVars, workerVars
<1>7. CASE TryBeginCommit
  <2>1. /\ worker = "handler" /\ current \in Commands
        /\ published' = published /\ current' = current
    BY <1>7 DEF TryBeginCommit, HandlerUnchanged, WorkerTypeOK, Busy
  <2>2. CASE current \in Controlled /\ phase[current] # "kOpen"
    <3>1. phase' = phase /\ worker' = "classify"
      BY <1>7, <2>2 DEF TryBeginCommit
    <3>. QED BY <2>1, <3>1, QuietStep
  <2>3. CASE current \in Controlled /\ phase[current] = "kOpen"
    <3>1. phase' = [phase EXCEPT ![current] = "kCommitStarted"]
      BY <1>7, <2>3 DEF TryBeginCommit
    <3>2. PublishedCommitted'
      BY <2>1, <2>3, <3>1
         DEF CommitExclusion, PublishedCommitted, TypeOK, ControlTypeOK
    <3>3. CommittingOwnsPhase'
      BY <2>1, <2>3, <3>1 DEF CommittingOwnsPhase, TypeOK, ControlTypeOK
    <3>. QED BY <3>2, <3>3 DEF CommitExclusion
  <2>4. CASE current \notin Controlled
    <3>1. phase' = phase BY <1>7, <2>4 DEF TryBeginCommit
    <3>2. PublishedCommitted'
      BY <2>1, <3>1 DEF CommitExclusion, PublishedCommitted
    <3>3. CommittingOwnsPhase'
      BY <2>1, <2>4, <3>1 DEF CommittingOwnsPhase
    <3>. QED BY <3>2, <3>3 DEF CommitExclusion
  <2>. QED BY <2>2, <2>3, <2>4
<1>8. CASE Publish
  <2>1. /\ published' = published \cup {current} /\ current' = current
        /\ phase' = phase
    BY <1>8 DEF Publish, HandlerUnchanged, controlVars
  <2>2. CASE worker = "committing"
    <3>1. worker' = "published" BY <1>8, <2>2 DEF Publish
    <3>2. CommittingOwnsPhase'
      BY <2>1, <2>2 DEF CommitExclusion, CommittingOwnsPhase
    <3>3. PublishedCommitted'
      BY <2>1, <2>2
         DEF CommitExclusion, CommittingOwnsPhase, PublishedCommitted
    <3>. QED BY <3>2, <3>3 DEF CommitExclusion
  <2>3. CASE worker = "handler" /\ Kind[current] \notin CommitKinds
    <3>1. worker' = "completing" BY <1>8, <2>3 DEF Publish
    <3>2. CommittingOwnsPhase' BY <3>1 DEF CommittingOwnsPhase
    <3>3. PublishedCommitted'
      BY <2>1, <2>3 DEF CommitExclusion, PublishedCommitted
    <3>. QED BY <3>2, <3>3 DEF CommitExclusion
  <2>. QED BY <1>8, <2>2, <2>3 DEF Publish
<1>9. CASE MarkCommitted
  <2>1. /\ worker = "published" /\ worker' = "completing"
        /\ published' = published /\ current \in Commands
    BY <1>9 DEF MarkCommitted, WorkerTypeOK, Busy
  <2>2. CommittingOwnsPhase' BY <2>1 DEF CommittingOwnsPhase
  <2>3. PublishedCommitted'
    BY <1>9, <2>1 DEF MarkCommitted, CommitExclusion, PublishedCommitted,
                      TypeOK, ControlTypeOK
  <2>. QED BY <2>2, <2>3 DEF CommitExclusion
<1>10. CASE \/ \E c \in Commands :
                 \/ PushLocal(c) \/ SubmitCommand(c) \/ Refused(c)
                 \/ ClientCancels(c) \/ RequestStop(c) \/ SubmitCorrelated(c)
                 \/ WaitForCommand(c) \/ WaitInterrupted(c)
                 \/ ReconciliationExpires(c) \/ DetachPendingCommand(c)
            \/ RoleServiceMutates \/ MarkRunStarted \/ MarkRunStopping
            \/ HostedStop \/ StopCommandProcessor \/ JoinProcessor
            \/ ReportDrained \/ StopReturns \/ UNCHANGED vars
  <2>1. UNCHANGED <<phase, published, worker, current>>
    BY <1>10 DEF PushLocal, SubmitCommand, Refused, ClientCancels, RequestStop,
         SubmitCorrelated, WaitForCommand, WaitInterrupted,
         ReconciliationExpires, DetachPendingCommand, RoleServiceMutates,
         MarkRunStarted, MarkRunStopping, HostedStop, StopCommandProcessor,
         JoinProcessor, ReportDrained, StopReturns, vars, controlVars,
         effectVars, workerVars
  <2>. QED BY <2>1, QuietStep
<1>11. CASE \/ StartProcessor \/ WaitPop \/ HandlerFails \/ HandlerUnverified
            \/ WriteFails \/ EvidenceFails \/ CompletionEvent \/ Classify
            \/ ValidateOutcome \/ ReportOutcome
  <2>1. /\ UNCHANGED <<phase, published>>
        /\ worker' \notin {"committing", "published"}
    BY <1>11 DEF StartProcessor, WaitPop, HandlerFails, HandlerUnverified,
         WriteFails, EvidenceFails, CompletionEvent, Classify,
         ValidateOutcome, ReportOutcome, controlVars, effectVars
  <2>. QED BY <2>1, QuietStep
<1>. QED
  BY <1>1, <1>2, <1>3, <1>4, <1>5, <1>6, <1>7, <1>8, <1>9, <1>10, <1>11
  DEF Next, ClientStep, WaiterStep, WorkerStep, StopStep, Finished

\* A mutation with a commit point is never in effect once a cancellation won
\* the compare-exchange on its SimulationCommandControl, for any number of
\* commands, client threads and capacities.
THEOREM CancellationExcludesCommit == Spec => []CancelledIsNeverPublished
<1>1. TypeOK /\ CommitExclusion => CancelledIsNeverPublished
  BY DEF CommitExclusion, PublishedCommitted, CancelledIsNeverPublished
<1>. QED
  BY <1>1, TypeCorrect, InitCommitExclusion, StepCommitExclusion, PTL DEF Spec

-----------------------------------------------------------------------------
(* Where a command is between its admission and its outcome, and what      *)
(* follows: one outcome each, in the order of the sequence numbers, none   *)
(* lost between SubmitCommand and WaitForCommand.                          *)

Elements(s) == {s[i] : i \in 1..Len(s)}

Held(c) == worker \in Busy /\ current = c

Stopping == {"cancelling", "joining", "reporting"}

Ascending(s) ==
    \A i, j \in 1..Len(s) : i < j => sequence[s[i]] < sequence[s[j]]

\* An admitted command is in exactly one place: the queue, the processor's
\* hands, the vector that Stop() drained, or among the answered ones.
OnePlace ==
    \A c \in Commands :
        /\ c \in Elements(queue) \cup Elements(drained) \/ Held(c)
              => sequence[c] > 0 /\ reports[c] = 0
        /\ Held(c) => c \notin Elements(queue) \cup Elements(drained)
        /\ sequence[c] = 0 => reports[c] = 0
        /\ reports[c] \in {0, 1}
        /\ sequence[c] > 0 /\ reports[c] = 0
              => c \in Elements(queue) \cup Elements(drained) \/ Held(c)

\* The places are ordered: what is answered precedes what is held, and both
\* precede what still waits, which waits in order.
PlacesInOrder ==
    /\ \A c \in Commands : sequence[c] < next
    /\ Ascending(queue)
    /\ Ascending(drained)
    /\ \A c, d \in Commands :
         /\ reports[c] = 1 \/ Held(c)
         /\ d \in Elements(queue) \cup Elements(drained)
         => sequence[c] < sequence[d]
    /\ \A c, d \in Commands :
         reports[c] = 1 /\ Held(d) => sequence[c] < sequence[d]

\* Stop() empties the queue for good before it joins the processor, and
\* answers the drained commands after it.
DrainOrder ==
    /\ drained # <<>> => stopper \in Stopping
    /\ stopper \in Stopping => closed /\ queue = <<>>
    /\ stopper = "reporting" => worker \in {"null", "exited"}

\* A command that nobody has submitted yet has no sequence number.
UnsentIsNew ==
    \A c \in Commands : client[c] \in {"idle", "refused"} => sequence[c] = 0

PlaceInv == OnePlace /\ PlacesInOrder /\ DrainOrder /\ UnsentIsNew

-----------------------------------------------------------------------------
(* The sequences.                                                          *)

\* Append adds one element at the end.
LEMMA ElementsOfAppend ==
    ASSUME NEW s \in Seq(Commands), NEW c \in Commands
    PROVE  Elements(Append(s, c)) = Elements(s) \cup {c}
<1>1. /\ Len(Append(s, c)) = Len(s) + 1 /\ Len(s) \in Nat
      /\ \A i \in 1..Len(s) : Append(s, c)[i] = s[i]
      /\ Append(s, c)[Len(s) + 1] = c
  OBVIOUS
<1>. QED BY <1>1 DEF Elements

\* Head and Tail partition a sequence.
LEMMA ElementsOfTail ==
    ASSUME NEW s \in Seq(Commands), s # <<>>
    PROVE  /\ Head(s) \in Commands
           /\ Tail(s) \in Seq(Commands)
           /\ Elements(s) = {Head(s)} \cup Elements(Tail(s))
<1>1. /\ Len(Tail(s)) = Len(s) - 1 /\ Len(s) \in Nat \ {0}
      /\ \A i \in 1..Len(Tail(s)) : Tail(s)[i] = s[i + 1]
      /\ Head(s) = s[1] /\ Head(s) \in Commands /\ Tail(s) \in Seq(Commands)
  OBVIOUS
<1>2. \A i \in 1..Len(s) :
        i = 1 \/ (i - 1 \in 1..Len(Tail(s)) /\ s[i] = Tail(s)[i - 1])
  BY <1>1
<1>3. Elements(s) \subseteq {Head(s)} \cup Elements(Tail(s))
  BY <1>1, <1>2 DEF Elements
<1>4. {Head(s)} \cup Elements(Tail(s)) \subseteq Elements(s)
  BY <1>1 DEF Elements
<1>. QED BY <1>1, <1>3, <1>4

\* The head of an ascending sequence precedes the rest of it.
LEMMA AscendingTail ==
    ASSUME NEW s \in Seq(Commands), s # <<>>, Ascending(s)
    PROVE  /\ Ascending(Tail(s))
           /\ \A d \in Elements(Tail(s)) : sequence[Head(s)] < sequence[d]
<1>1. /\ Len(Tail(s)) = Len(s) - 1 /\ Len(s) \in Nat \ {0}
      /\ \A i \in 1..Len(Tail(s)) : Tail(s)[i] = s[i + 1]
      /\ Head(s) = s[1]
  OBVIOUS
<1>2. Ascending(Tail(s)) BY <1>1 DEF Ascending
<1>3. \A i \in 1..Len(Tail(s)) : sequence[Head(s)] < sequence[Tail(s)[i]]
  BY <1>1 DEF Ascending
<1>. QED BY <1>2, <1>3 DEF Elements

\* The empty sequence.
LEMMA EmptyElements == Elements(<<>>) = {} /\ Ascending(<<>>)
  BY DEF Elements, Ascending

\* The elements of a sequence of commands are commands.
LEMMA ElementsAreCommands ==
    ASSUME NEW s \in Seq(Commands)
    PROVE  Elements(s) \subseteq Commands
  BY DEF Elements

-----------------------------------------------------------------------------
(* The places.                                                             *)

\* Initially every command is new.
LEMMA InitPlace == Init => PlaceInv
<1>. SUFFICES ASSUME Init PROVE PlaceInv
  OBVIOUS
<1>. Elements(queue) = {} /\ Elements(drained) = {}
     /\ Ascending(queue) /\ Ascending(drained)
  BY EmptyElements DEF Init
<1>1. OnePlace BY DEF Init, OnePlace, Held, Busy
<1>2. PlacesInOrder BY DEF Init, PlacesInOrder, Held, Busy
<1>3. DrainOrder BY DEF Init, DrainOrder, Stopping
<1>4. UnsentIsNew BY DEF Init, UnsentIsNew
<1>. QED BY <1>1, <1>2, <1>3, <1>4 DEF PlaceInv

\* A step that moves no command, and submits none.
LEMMA PlaceStays ==
    ASSUME PlaceInv,
           UNCHANGED <<queue, sequence, next, drained, reports, closed>>,
           worker' \in Busy <=> worker \in Busy,
           worker \in Busy => current' = current,
           \/ stopper' = stopper
           \/ stopper' = "joining" /\ stopper = "cancelling",
           worker \in {"null", "exited"} =>
               worker' = worker \/ stopper' \notin Stopping,
           \A c \in Commands : client'[c] \in {"idle", "refused"} =>
                                   client[c] \in {"idle", "refused"}
    PROVE  PlaceInv'
<1>1. \A c \in Commands : Held(c)' <=> Held(c) BY DEF Held
<1>2. OnePlace' BY <1>1 DEF PlaceInv, OnePlace, Elements
<1>3. PlacesInOrder' BY <1>1 DEF PlaceInv, PlacesInOrder, Elements, Ascending
<1>4. DrainOrder' BY DEF PlaceInv, DrainOrder, Stopping
<1>5. UnsentIsNew' BY DEF PlaceInv, UnsentIsNew
<1>. QED BY <1>2, <1>3, <1>4, <1>5 DEF PlaceInv

\* Admission puts a new command at the end of the queue, with the highest
\* sequence number.
LEMMA PlaceAdmitted ==
    ASSUME TypeOK, PlaceInv, NEW c \in Commands, Push(c), client[c] = "idle",
           UNCHANGED <<workerVars, stopVars, outcomeVars>>,
           client' \in [Commands -> {"idle", "sent", "submitting", "waiting",
                               "interrupted", "reconciling", "answered",
                               "refused", "lost", "abandoned"}],
           client'[c] \notin {"idle", "refused"},
           \A d \in Commands : d # c => client'[d] = client[d]
    PROVE  PlaceInv'
<1>. /\ queue \in Seq(Commands) /\ drained \in Seq(Commands)
     /\ sequence \in [Commands -> Nat] /\ next \in Nat
     /\ Elements(queue) \subseteq Commands
     /\ Elements(drained) \subseteq Commands
  BY ElementsAreCommands DEF TypeOK, QueueTypeOK, StopTypeOK
<1>1. /\ sequence[c] = 0 /\ sequence'[c] = next /\ next' = next + 1
      /\ \A d \in Commands : d # c => sequence'[d] = sequence[d]
      /\ UNCHANGED <<worker, current, reports, drained, stopper>>
      /\ ~closed /\ ~closed'
      /\ queue' = Append(queue, c)
  BY DEF PlaceInv, UnsentIsNew, Push, workerVars, stopVars, outcomeVars
<1>2. /\ Elements(queue') = Elements(queue) \cup {c}
      /\ Elements(drained') = Elements(drained)
  BY <1>1, ElementsOfAppend
<1>3. /\ c \notin Elements(queue) /\ c \notin Elements(drained)
      /\ ~Held(c) /\ reports[c] = 0
      /\ \A d \in Commands : Held(d)' <=> Held(d)
  BY <1>1 DEF PlaceInv, OnePlace, Held
<1>4. next > 0 BY <1>1 DEF PlaceInv, PlacesInOrder
<1>5. OnePlace'
  BY <1>1, <1>2, <1>3, <1>4 DEF PlaceInv, OnePlace
<1>6. PlacesInOrder'
  <2>1. \A d \in Commands : sequence'[d] < next'
    <3>1. \A d \in Commands : sequence[d] < next
      BY DEF PlaceInv, PlacesInOrder
    <3>2. \A d \in Commands : sequence[d] \in Nat
      OBVIOUS
    <3>3. \A d \in Commands \ {c} : sequence'[d] < next'
      BY <3>1, <3>2, <1>1
    <3>4. sequence'[c] < next' BY <1>1
    <3>. QED BY <3>3, <3>4
  <2>2. Ascending(queue)'
    <3>1. /\ Len(queue') = Len(queue) + 1 /\ Len(queue) \in Nat
          /\ \A i \in 1..Len(queue) : queue'[i] = queue[i] /\ queue[i] # c
                                      /\ queue[i] \in Commands
          /\ queue'[Len(queue) + 1] = c
      BY <1>1, <1>3 DEF Elements
    <3>2. \A i \in 1..Len(queue) : sequence'[queue'[i]] = sequence[queue[i]]
                                   /\ sequence[queue[i]] < next
      BY <1>1, <3>1 DEF PlaceInv, PlacesInOrder
    <3>3. \A i, j \in 1..Len(queue) :
            i < j => sequence[queue[i]] < sequence[queue[j]]
      BY DEF PlaceInv, PlacesInOrder, Ascending
    <3>. QED BY <1>1, <3>1, <3>2, <3>3 DEF Ascending
  <2>3. Ascending(drained)'
    <3>1. \A i \in 1..Len(drained) : drained[i] # c /\ drained[i] \in Commands
      BY <1>3 DEF Elements
    <3>. QED BY <1>1, <3>1 DEF PlaceInv, PlacesInOrder, Ascending
  <2>4. ASSUME NEW a \in Commands, reports[a] = 1 \/ Held(a)
        PROVE  sequence'[a] = sequence[a] /\ sequence[a] < next
    <3>1. a # c BY <1>3, <2>4
    <3>. QED BY <1>1, <3>1 DEF PlaceInv, PlacesInOrder
  <2>5. ASSUME NEW a \in Commands, NEW d \in Commands,
               reports[a] = 1 \/ Held(a),
               d \in Elements(queue) \cup Elements(drained) \cup {c}
        PROVE  sequence'[a] < sequence'[d]
    <3>1. CASE d = c BY <1>1, <2>4, <2>5, <3>1
    <3>2. CASE d # c
      <4>1. sequence[a] < sequence[d]
        BY <2>5, <3>2 DEF PlaceInv, PlacesInOrder
      <4>. QED BY <1>1, <2>4, <2>5, <3>2, <4>1
    <3>. QED BY <3>1, <3>2
  <2>6. ASSUME NEW a \in Commands, NEW d \in Commands,
               reports[a] = 1, Held(d)
        PROVE  sequence'[a] < sequence'[d]
    <3>1. sequence[a] < sequence[d] BY <2>6 DEF PlaceInv, PlacesInOrder
    <3>. QED BY <2>4, <2>6, <3>1
  <2>7. /\ \A a, d \in Commands :
             /\ reports'[a] = 1 \/ Held(a)'
             /\ d \in Elements(queue') \cup Elements(drained')
             => sequence'[a] < sequence'[d]
        /\ \A a, d \in Commands :
             reports'[a] = 1 /\ Held(d)' => sequence'[a] < sequence'[d]
    BY <1>1, <1>2, <1>3, <2>5, <2>6
  <2>. QED BY <2>1, <2>2, <2>3, <2>7 DEF PlacesInOrder, Elements
<1>7. DrainOrder' BY <1>1 DEF PlaceInv, DrainOrder, Stopping
<1>8. UnsentIsNew' BY <1>1 DEF PlaceInv, UnsentIsNew
<1>. QED BY <1>5, <1>6, <1>7, <1>8 DEF PlaceInv

\* WaitPop moves the oldest command from the queue into the processor's hands.
LEMMA PlacePopped ==
    ASSUME TypeOK, PlaceInv, WaitPop
    PROVE  PlaceInv'
<1>. /\ queue \in Seq(Commands) /\ drained \in Seq(Commands)
     /\ sequence \in [Commands -> Nat] /\ next \in Nat
     /\ worker = "pop" /\ worker \notin Busy
     /\ UNCHANGED <<sequence, next, closed, reports, drained, stopper, client>>
  BY DEF TypeOK, QueueTypeOK, StopTypeOK, WaitPop, stopVars, outcomeVars,
         clientVars, Busy
<1>1. CASE queue = <<>>
  <2>1. queue' = queue /\ worker' = "exited" BY <1>1 DEF WaitPop
  <2>2. worker' \notin Busy BY <2>1 DEF Busy
  <2>. QED BY <1>1, <2>1, <2>2, PlaceStays
<1>2. CASE queue # <<>>
  <2>. DEFINE h == Head(queue)
  <2>1. /\ queue' = Tail(queue) /\ worker' = "popped" /\ current' = h
        /\ worker' \in Busy
    BY <1>2 DEF WaitPop, Busy
  <2>2. /\ h \in Commands
        /\ Elements(queue) = {h} \cup Elements(Tail(queue))
    BY <1>2, ElementsOfTail
  <2>3. /\ Ascending(Tail(queue))
        /\ \A d \in Elements(Tail(queue)) : sequence[h] < sequence[d]
    BY <1>2, AscendingTail DEF PlaceInv, PlacesInOrder
  <2>4. stopper \notin Stopping /\ drained = <<>> /\ Elements(drained) = {}
    BY <1>2, EmptyElements DEF PlaceInv, DrainOrder
  <2>5. /\ \A d \in Commands : Held(d)' <=> d = h
        /\ \A d \in Commands : ~Held(d)
    BY <2>1 DEF Held
  <2>6. h \notin Elements(Tail(queue)) BY <2>2, <2>3
  <2>. HIDE DEF h
  <2>7. OnePlace'
    <3>1. \A c \in Commands :
            /\ c \in Elements(Tail(queue)) \/ c = h
                  => sequence[c] > 0 /\ reports[c] = 0
            /\ c = h => c \notin Elements(Tail(queue))
            /\ sequence[c] = 0 => reports[c] = 0
            /\ reports[c] \in {0, 1}
            /\ sequence[c] > 0 /\ reports[c] = 0
                  => c \in Elements(Tail(queue)) \/ c = h
      BY <2>2, <2>4, <2>5, <2>6 DEF PlaceInv, OnePlace
    <3>2. Elements(queue)' = Elements(Tail(queue)) /\ Elements(drained)' = {}
      BY <2>1, <2>4 DEF Elements
    <3>. QED BY <2>5, <3>1, <3>2 DEF OnePlace
  <2>8. PlacesInOrder'
    <3>1. \A c, d \in Commands :
            /\ reports[c] = 1 \/ c = h
            /\ d \in Elements(Tail(queue))
            => sequence[c] < sequence[d]
      BY <2>2, <2>3 DEF PlaceInv, PlacesInOrder
    <3>2. \A c, d \in Commands :
            reports[c] = 1 /\ d = h => sequence[c] < sequence[d]
      BY <2>2 DEF PlaceInv, PlacesInOrder
    <3>3. Elements(queue)' = Elements(Tail(queue)) /\ Elements(drained)' = {}
      BY <2>1, <2>4 DEF Elements
    <3>4. Ascending(queue)' /\ Ascending(drained)'
      BY <2>1, <2>3 DEF PlaceInv, PlacesInOrder, Ascending
    <3>5. \A c \in Commands : sequence[c] < next
      BY DEF PlaceInv, PlacesInOrder
    <3>. QED BY <2>5, <3>1, <3>2, <3>3, <3>4, <3>5 DEF PlacesInOrder
  <2>9. DrainOrder' BY <2>4 DEF DrainOrder, Stopping
  <2>10. UnsentIsNew' BY DEF PlaceInv, UnsentIsNew
  <2>. QED BY <2>7, <2>8, <2>9, <2>10 DEF PlaceInv
<1>. QED BY <1>1, <1>2

\* The processor publishes the outcome of the command in its hands.
LEMMA PlaceReported ==
    ASSUME TypeOK, PlaceInv, ReportOutcome
    PROVE  PlaceInv'
<1>. /\ sequence \in [Commands -> Nat] /\ reports \in [Commands -> Nat]
     /\ UNCHANGED <<queue, sequence, next, closed, drained, stopper, client>>
     /\ worker \in Busy /\ current \in Commands /\ worker' = "pop"
     /\ worker' \notin Busy
     /\ reports' = [reports EXCEPT ![current] = @ + 1]
  BY DEF TypeOK, QueueTypeOK, OutcomeTypeOK, WorkerTypeOK, ReportOutcome,
         RecordCommandOutcome, stopVars, queueVars, clientVars, Busy
<1>1. Held(current) /\ \A d \in Commands : ~Held(d)' BY DEF Held
<1>2. /\ Elements(queue)' = Elements(queue)
      /\ Elements(drained)' = Elements(drained)
  BY DEF Elements
<1>3. reports[current] = 0 /\ reports'[current] = 1
      /\ \A d \in Commands : d # current => reports'[d] = reports[d]
  BY <1>1 DEF PlaceInv, OnePlace
<1>4. OnePlace'
  <2>1. \A d \in Commands : Held(d) => d = current BY DEF Held
  <2>. QED BY <1>1, <1>2, <1>3, <2>1 DEF PlaceInv, OnePlace
<1>5. PlacesInOrder'
  <2>1. ASSUME NEW c \in Commands, NEW d \in Commands, reports'[c] = 1,
               d \in Elements(queue) \cup Elements(drained)
        PROVE  sequence[c] < sequence[d]
    <3>1. reports[c] = 1 \/ Held(c) BY <1>1, <1>3, <2>1
    <3>. QED BY <2>1, <3>1 DEF PlaceInv, PlacesInOrder
  <2>2. Ascending(queue)' /\ Ascending(drained)'
    BY DEF PlaceInv, PlacesInOrder, Ascending
  <2>3. \A c \in Commands : sequence[c] < next
    BY DEF PlaceInv, PlacesInOrder
  <2>. QED BY <1>1, <1>2, <2>1, <2>2, <2>3 DEF PlacesInOrder
<1>6. DrainOrder' BY DEF PlaceInv, DrainOrder, Stopping, Busy
<1>7. UnsentIsNew' BY DEF PlaceInv, UnsentIsNew
<1>. QED BY <1>4, <1>5, <1>6, <1>7 DEF PlaceInv

\* Stop() moves the queue into its own vector.
LEMMA PlaceDrained ==
    ASSUME TypeOK, PlaceInv, StopCommandProcessor
    PROVE  PlaceInv'
<1>. /\ stopper = "idle" /\ drained = <<>>
     /\ UNCHANGED <<sequence, next, reports, worker, current, client>>
  BY DEF StopCommandProcessor, PlaceInv, DrainOrder, Stopping, outcomeVars,
         workerVars, clientVars
<1>1. CASE worker = "created"
  <2>1. UNCHANGED <<queue, closed, drained>> /\ stopper' = "done"
    BY <1>1 DEF StopCommandProcessor
  <2>2. OnePlace' BY <2>1 DEF PlaceInv, OnePlace, Elements, Held
  <2>3. PlacesInOrder'
    BY <2>1 DEF PlaceInv, PlacesInOrder, Elements, Held, Ascending
  <2>4. DrainOrder' BY <2>1 DEF DrainOrder, Stopping
  <2>5. UnsentIsNew' BY DEF PlaceInv, UnsentIsNew
  <2>. QED BY <2>2, <2>3, <2>4, <2>5 DEF PlaceInv
<1>2. CASE worker # "created"
  <2>1. queue' = <<>> /\ drained' = queue /\ stopper' = "cancelling" /\ closed'
    BY <1>2 DEF StopCommandProcessor
  <2>2. /\ Elements(drained) = {} /\ Elements(queue)' = {}
        /\ Elements(drained)' = Elements(queue)
        /\ Ascending(queue)' /\ Ascending(drained)'
        /\ \A c \in Commands : Held(c)' <=> Held(c)
    BY <2>1, EmptyElements
       DEF Elements, Ascending, Held, PlaceInv, PlacesInOrder
  <2>3. OnePlace' BY <2>2 DEF PlaceInv, OnePlace
  <2>4. PlacesInOrder' BY <2>2 DEF PlaceInv, PlacesInOrder
  <2>5. DrainOrder' BY <2>1 DEF DrainOrder, Stopping
  <2>6. UnsentIsNew' BY DEF PlaceInv, UnsentIsNew
  <2>. QED BY <2>3, <2>4, <2>5, <2>6 DEF PlaceInv
<1>. QED BY <1>1, <1>2

\* Stop() answers the oldest of the commands it drained.
LEMMA PlaceDrainReported ==
    ASSUME TypeOK, PlaceInv, ReportDrained
    PROVE  PlaceInv'
<1>. DEFINE h == Head(drained)
<1>. /\ drained \in Seq(Commands) /\ drained # <<>> /\ stopper = "reporting"
     /\ sequence \in [Commands -> Nat] /\ reports \in [Commands -> Nat]
     /\ UNCHANGED <<queue, sequence, next, closed, stopper, client, worker,
                    current>>
     /\ drained' = Tail(drained)
     /\ reports' = [reports EXCEPT ![h] = @ + 1]
  BY DEF TypeOK, QueueTypeOK, OutcomeTypeOK, StopTypeOK, ReportDrained,
         RecordCommandOutcome, queueVars, clientVars, workerVars
<1>1. /\ worker \in {"null", "exited"} /\ worker \notin Busy
      /\ queue = <<>> /\ Elements(queue) = {} /\ Elements(queue)' = {}
      /\ \A c \in Commands : ~Held(c) /\ ~Held(c)'
  BY EmptyElements DEF PlaceInv, DrainOrder, Stopping, Busy, Held, Elements
<1>2. /\ h \in Commands
      /\ Elements(drained) = {h} \cup Elements(Tail(drained))
      /\ Elements(drained)' = Elements(Tail(drained))
  BY ElementsOfTail DEF Elements
<1>3. /\ Ascending(Tail(drained))
      /\ \A d \in Elements(Tail(drained)) : sequence[h] < sequence[d]
  BY AscendingTail DEF PlaceInv, PlacesInOrder
<1>4. h \notin Elements(Tail(drained)) BY <1>2, <1>3
<1>. HIDE DEF h
<1>5. /\ reports[h] = 0 /\ reports'[h] = 1
      /\ \A d \in Commands : d # h => reports'[d] = reports[d]
  BY <1>2 DEF PlaceInv, OnePlace
<1>6. OnePlace'
  BY <1>1, <1>2, <1>4, <1>5 DEF PlaceInv, OnePlace
<1>7. PlacesInOrder'
  <2>1. ASSUME NEW c \in Commands, NEW d \in Commands, reports'[c] = 1,
               d \in Elements(Tail(drained))
        PROVE  sequence[c] < sequence[d]
    <3>1. CASE c = h BY <1>3, <2>1, <3>1
    <3>2. CASE c # h
      BY <1>2, <1>5, <2>1, <3>2 DEF PlaceInv, PlacesInOrder
    <3>. QED BY <3>1, <3>2
  <2>2. Ascending(queue)' /\ Ascending(drained)'
    BY <1>3 DEF PlaceInv, PlacesInOrder, Ascending
  <2>3. \A c \in Commands : sequence[c] < next
    BY DEF PlaceInv, PlacesInOrder
  <2>. QED BY <1>1, <1>2, <2>1, <2>2, <2>3 DEF PlacesInOrder
<1>8. DrainOrder' BY <1>1 DEF PlaceInv, DrainOrder, Stopping
<1>9. UnsentIsNew' BY DEF PlaceInv, UnsentIsNew
<1>. QED BY <1>6, <1>7, <1>8, <1>9 DEF PlaceInv

\* Every step keeps the commands in their places.
LEMMA StepPlace == TypeOK /\ PlaceInv /\ [Next]_vars => PlaceInv'
<1>. SUFFICES ASSUME TypeOK, PlaceInv, [Next]_vars PROVE PlaceInv'
  OBVIOUS
<1>. /\ client \in [Commands -> {"idle", "sent", "submitting", "waiting",
                               "interrupted", "reconciling", "answered",
                               "refused", "lost", "abandoned"}]
     /\ worker \in Busy \cup {"null", "created", "pop", "exited"}
  BY DEF TypeOK, ClientTypeOK, WorkerTypeOK
<1>1. ASSUME NEW c \in Commands, PushLocal(c) \/ SubmitCommand(c)
      PROVE  PlaceInv'
  <2>1. /\ Push(c) /\ client[c] = "idle"
        /\ UNCHANGED <<workerVars, stopVars, outcomeVars>>
        /\ \E to \in {"sent", "submitting"} :
               client' = [client EXCEPT ![c] = to]
    BY <1>1 DEF PushLocal, SubmitCommand
  <2>. QED BY <2>1, PlaceAdmitted
<1>2. ASSUME NEW c \in Commands,
             \/ Refused(c) \/ SubmitCorrelated(c) \/ WaitForCommand(c)
             \/ WaitInterrupted(c) \/ WaiterCancels(c)
             \/ ReconciliationExpires(c) \/ DetachPendingCommand(c)
      PROVE  PlaceInv'
  <2>1. /\ UNCHANGED <<queue, sequence, next, closed, worker, current, stopper,
                       drained, reports>>
        /\ \E to \in {"waiting", "interrupted", "reconciling", "answered",
                      "lost", "abandoned", "refused"} :
               /\ client' = [client EXCEPT ![c] = to]
               /\ to = "refused" => client[c] = "idle"
    BY <1>2 DEF Refused, SubmitCorrelated, WaitForCommand, WaitInterrupted,
         WaiterCancels, ReconciliationExpires, DetachPendingCommand, queueVars,
         workerVars, stopVars, outcomeVars
  <2>. QED BY <2>1, PlaceStays
<1>3. CASE StartProcessor
  <2>1. /\ UNCHANGED <<queue, sequence, next, closed, stopper, drained, reports,
                       client>>
        /\ worker \notin Busy /\ worker' \notin Busy
        /\ stopper = "idle"
    BY <1>3 DEF StartProcessor, queueVars, stopVars, outcomeVars, clientVars,
                Busy
  <2>. QED BY <2>1, PlaceStays DEF Stopping
<1>4. CASE WaitPop BY <1>4, PlacePopped
<1>5. CASE ReportOutcome BY <1>5, PlaceReported
<1>6. CASE StopCommandProcessor BY <1>6, PlaceDrained
<1>7. CASE ReportDrained BY <1>7, PlaceDrainReported
<1>8. CASE \/ BeginCommand \/ HandlerCancelled \/ HandlerFails
           \/ HandlerUnverified \/ TryBeginCommit \/ Publish \/ WriteFails
           \/ MarkCommitted \/ EvidenceFails \/ CompletionEvent \/ Classify
           \/ ValidateOutcome \/ ShutdownCallback
  <2>1. /\ UNCHANGED <<queue, sequence, next, closed, current, stopper, drained,
                       reports, client>>
        /\ worker \in Busy /\ worker' \in Busy
    BY <1>8 DEF BeginCommand, HandlerCancelled, HandlerFails,
         HandlerUnverified, TryBeginCommit, Publish, WriteFails, MarkCommitted,
         EvidenceFails, CompletionEvent, Classify, ValidateOutcome,
         ShutdownCallback, HandlerUnchanged, queueVars, stopVars, outcomeVars,
         clientVars, Busy
  <2>2. worker \notin {"null", "exited"} BY <2>1 DEF Busy
  <2>. QED BY <2>1, <2>2, PlaceStays
<1>9. CASE \/ \E c \in Commands :
                 ClientCancels(c) \/ StopCallback(c) \/ RequestStop(c)
           \/ RoleServiceMutates \/ MarkRunStarted \/ MarkRunStopping
           \/ CancelDrained \/ UNCHANGED vars
  <2>1. /\ UNCHANGED <<queue, sequence, next, closed, worker, current, drained,
                       reports, client>>
        /\ stopper' = stopper
             \/ (stopper' = "joining" /\ stopper = "cancelling")
    BY <1>9 DEF ClientCancels, StopCallback, RequestStop, RoleServiceMutates,
         MarkRunStarted, MarkRunStopping, CancelDrained, vars, queueVars,
         workerVars, stopVars, outcomeVars, clientVars
  <2>. QED BY <2>1, PlaceStays
<1>10. CASE HostedStop \/ JoinProcessor \/ StopReturns
  <2>1. /\ UNCHANGED <<queue, sequence, next, worker, current, drained, reports,
                       client>>
        /\ closed' = closed \/ closed'
    BY <1>10 DEF HostedStop, JoinProcessor, StopReturns, queueVars, workerVars,
         stopVars, outcomeVars, clientVars
  <2>2. OnePlace' BY <2>1 DEF PlaceInv, OnePlace, Elements, Held
  <2>3. PlacesInOrder'
    BY <2>1 DEF PlaceInv, PlacesInOrder, Elements, Held, Ascending
  <2>4. DrainOrder'
    BY <1>10, <2>1 DEF PlaceInv, DrainOrder, Stopping, HostedStop,
         JoinProcessor, StopReturns, queueVars
  <2>5. UnsentIsNew' BY <2>1 DEF PlaceInv, UnsentIsNew
  <2>. QED BY <2>2, <2>3, <2>4, <2>5 DEF PlaceInv
<1>. QED
  BY <1>1, <1>2, <1>3, <1>4, <1>5, <1>6, <1>7, <1>8, <1>9, <1>10
  DEF Next, ClientStep, WaiterStep, WorkerStep, StopStep, Finished

\* Commands are answered in the order of their sequence numbers, although the
\* processor and the draining Stop() answer them on two threads.
THEOREM AnswersKeepOrder == Spec => []AnsweredInOrder
<1>1. TypeOK /\ PlaceInv => AnsweredInOrder
  <2>. SUFFICES ASSUME TypeOK, PlaceInv, NEW c \in Commands, NEW d \in Commands,
                       sequence[c] > 0, sequence[c] < sequence[d],
                       reports[d] = 1, reports[c] # 1
                PROVE  FALSE
    BY DEF AnsweredInOrder
  <2>1. c \in Elements(queue) \cup Elements(drained) \/ Held(c)
    BY DEF PlaceInv, OnePlace
  <2>2. sequence[d] < sequence[c] BY <2>1 DEF PlaceInv, PlacesInOrder
  <2>. QED BY <2>2 DEF TypeOK, QueueTypeOK
<1>. QED BY <1>1, TypeCorrect, InitPlace, StepPlace, PTL DEF Spec

-----------------------------------------------------------------------------
(* The correlation table.                                                  *)

\* Who has submitted has an entry, which is completed exactly by the outcome.
Correlated ==
    \A c \in Commands :
        /\ client[c] = "submitting" <=> mutex = c
        /\ client[c] = "submitting" => reports[c] = 0
        /\ c \notin Mcp => client[c] \in {"idle", "sent", "refused"}
        /\ client[c] \in {"idle", "sent", "refused", "submitting"}
              => pending[c] = "absent"
        /\ client[c] \in {"waiting", "interrupted", "reconciling"}
              => pending[c] \in {"waiting", "completed"}
        /\ client[c] # "lost"
        /\ pending[c] = "waiting" => reports[c] = 0
        /\ pending[c] = "completed"
              => reports[c] = 1 /\ pendingOutcome[c] = recorded[c]

\* An outcome is recorded once, and an executor that was given a definite
\* answer was given that outcome.
Answered ==
    \A c \in Commands :
        /\ recorded[c] # "none" <=> reports[c] = 1
        /\ result[c] # "none" => client[c] = "answered"
        /\ result[c] \notin {"none", "kOutcomeUnconfirmed"}
              => result[c] = recorded[c]

CorrelationInv == Correlated /\ Answered

\* Initially nothing is correlated.
LEMMA InitCorrelation == Init => CorrelationInv
  BY CommandsAssumption DEF Init, CorrelationInv, Correlated, Answered

\* A step that leaves the table, the executors and the outcomes alone.
LEMMA CorrelationStays ==
    ASSUME CorrelationInv, UNCHANGED <<client, pending, pendingOutcome, mutex,
                                       result, recorded, reports>>
    PROVE  CorrelationInv'
  BY DEF CorrelationInv, Correlated, Answered

\* RecordCommandOutcome completes the entry of a command without an outcome.
LEMMA CorrelationRecorded ==
    ASSUME TypeOK, CorrelationInv, NEW c \in Commands, NEW state \in States,
           reports[c] = 0, RecordCommandOutcome(c, state),
           UNCHANGED <<client, mutex, result>>
    PROVE  CorrelationInv'
<1>. /\ reports \in [Commands -> Nat]
     /\ recorded \in [Commands -> States \cup {"none"}]
     /\ pending \in [Commands -> {"absent", "waiting", "completed", "detached"}]
     /\ pendingOutcome \in [Commands -> States \cup {"none"}]
  BY DEF TypeOK, PendingTypeOK, OutcomeTypeOK
<1>1. /\ mutex = NoCommand /\ mutex' = NoCommand
      /\ NoCommand \notin Commands /\ state # "none"
  BY CommandsAssumption DEF RecordCommandOutcome, States
<1>2. \A d \in Commands : d # c =>
         /\ pending'[d] = pending[d] /\ pendingOutcome'[d] = pendingOutcome[d]
         /\ recorded'[d] = recorded[d] /\ reports'[d] = reports[d]
  BY DEF RecordCommandOutcome
<1>3. /\ recorded'[c] = state /\ reports'[c] = 1 /\ pending[c] # "completed"
      /\ pending'[c] = IF pending[c] = "waiting" THEN "completed" ELSE "absent"
      /\ pending[c] = "waiting" => pendingOutcome'[c] = state
      /\ client[c] # "submitting"
      /\ result[c] \in {"none", "kOutcomeUnconfirmed"}
  BY <1>1 DEF RecordCommandOutcome, CorrelationInv, Correlated, Answered
<1>4. Correlated'
  <2>1. \A d \in Commands : d # c =>
         /\ client'[d] = "submitting" <=> mutex' = d
         /\ client'[d] = "submitting" => reports'[d] = 0
         /\ d \notin Mcp => client'[d] \in {"idle", "sent", "refused"}
         /\ client'[d] \in {"idle", "sent", "refused", "submitting"}
               => pending'[d] = "absent"
         /\ client'[d] \in {"waiting", "interrupted", "reconciling"}
               => pending'[d] \in {"waiting", "completed"}
         /\ client'[d] # "lost"
         /\ pending'[d] = "waiting" => reports'[d] = 0
         /\ pending'[d] = "completed"
               => reports'[d] = 1 /\ pendingOutcome'[d] = recorded'[d]
    BY <1>2 DEF CorrelationInv, Correlated
  <2>. QED BY <1>1, <1>3, <2>1 DEF CorrelationInv, Correlated
<1>5. Answered'
  BY <1>1, <1>2, <1>3 DEF CorrelationInv, Answered
<1>. QED BY <1>4, <1>5 DEF CorrelationInv

\* Every step keeps the table correlated.
LEMMA StepCorrelation ==
    TypeOK /\ PlaceInv /\ CorrelationInv /\ [Next]_vars => CorrelationInv'
<1>. SUFFICES ASSUME TypeOK, PlaceInv, CorrelationInv, [Next]_vars
              PROVE  CorrelationInv'
  OBVIOUS
<1>. /\ ClientTypeOK /\ PendingTypeOK /\ OutcomeTypeOK /\ WorkerTypeOK
     /\ NoCommand \notin Commands
     /\ Correlated /\ Answered
  BY CommandsAssumption DEF TypeOK, CorrelationInv
<1>1. ASSUME NEW c \in Commands, PushLocal(c) PROVE CorrelationInv'
  <2>1. /\ client[c] = "idle" /\ c \notin Mcp
        /\ client' = [client EXCEPT ![c] = "sent"]
        /\ UNCHANGED <<pending, pendingOutcome, mutex, result, recorded,
                       reports>>
    BY <1>1 DEF PushLocal, pendingVars, outcomeVars
  <2>. QED BY <2>1 DEF CorrelationInv, Correlated, Answered, ClientTypeOK
<1>2. ASSUME NEW c \in Commands, SubmitCommand(c) PROVE CorrelationInv'
  <2>1. /\ client[c] = "idle" /\ c \in Mcp /\ mutex = NoCommand /\ mutex' = c
        /\ client' = [client EXCEPT ![c] = "submitting"]
        /\ UNCHANGED <<pending, pendingOutcome, result, recorded, reports>>
    BY <1>2 DEF SubmitCommand, pendingVars, outcomeVars
  <2>2. reports[c] = 0
    BY <2>1 DEF PlaceInv, UnsentIsNew, OnePlace
  <2>. QED BY <2>1, <2>2 DEF CorrelationInv, Correlated, Answered, ClientTypeOK
<1>3. ASSUME NEW c \in Commands, SubmitCorrelated(c) PROVE CorrelationInv'
  <2>1. /\ client[c] = "submitting" /\ mutex' = NoCommand
        /\ client' = [client EXCEPT ![c] = "waiting"]
        /\ pending' = [pending EXCEPT ![c] = "waiting"]
        /\ UNCHANGED <<pendingOutcome, result, recorded, reports>>
    BY <1>3 DEF SubmitCorrelated, pendingVars, outcomeVars
  <2>2. mutex = c /\ c \in Mcp /\ reports[c] = 0
    BY <2>1 DEF Correlated
  <2>. QED BY <2>1, <2>2
       DEF CorrelationInv, Correlated, Answered, ClientTypeOK, PendingTypeOK
<1>4. ASSUME NEW c \in Commands, Refused(c) PROVE CorrelationInv'
  <2>1. /\ client[c] = "idle" /\ client' = [client EXCEPT ![c] = "refused"]
        /\ UNCHANGED <<pending, pendingOutcome, mutex, result, recorded,
                       reports>>
    BY <1>4 DEF Refused, pendingVars, outcomeVars
  <2>. QED BY <2>1 DEF CorrelationInv, Correlated, Answered, ClientTypeOK
<1>5. ASSUME NEW c \in Commands, WaitForCommand(c) PROVE CorrelationInv'
  <2>1. /\ client[c] \in {"waiting", "reconciling"} /\ pending[c] # "waiting"
        /\ UNCHANGED <<pendingOutcome, mutex, recorded, reports>>
        /\ pending' = [pending EXCEPT ![c] = "absent"]
        /\ result' = [result EXCEPT ![c] = pendingOutcome[c]]
    BY <1>5 DEF WaitForCommand, outcomeVars
  <2>2. pending[c] = "completed" BY <2>1 DEF Correlated
  <2>3. client' = [client EXCEPT ![c] = "answered"]
    BY <1>5, <2>2 DEF WaitForCommand
  <2>4. pendingOutcome[c] = recorded[c] BY <2>2 DEF Correlated
  <2>5. Correlated'
    BY <2>1, <2>3 DEF Correlated, ClientTypeOK, PendingTypeOK
  <2>6. Answered'
    BY <2>1, <2>3, <2>4 DEF Answered, ClientTypeOK
  <2>. QED BY <2>5, <2>6 DEF CorrelationInv
<1>6. ASSUME NEW c \in Commands, WaitInterrupted(c) \/ WaiterCancels(c)
      PROVE  CorrelationInv'
  <2>1. /\ client[c] \in {"waiting", "interrupted"}
        /\ \E to \in {"interrupted", "reconciling"} :
               client' = [client EXCEPT ![c] = to]
        /\ UNCHANGED <<pending, pendingOutcome, mutex, result, recorded,
                       reports>>
    BY <1>6 DEF WaitInterrupted, WaiterCancels, pendingVars, outcomeVars
  <2>. QED BY <2>1 DEF CorrelationInv, Correlated, Answered, ClientTypeOK
<1>7. ASSUME NEW c \in Commands, ReconciliationExpires(c) PROVE CorrelationInv'
  <2>1. /\ client[c] = "reconciling"
        /\ client' = [client EXCEPT ![c] = "answered"]
        /\ pending' = [pending EXCEPT ![c] = "detached"]
        /\ result' = [result EXCEPT ![c] = "kOutcomeUnconfirmed"]
        /\ UNCHANGED <<pendingOutcome, mutex, recorded, reports>>
    BY <1>7 DEF ReconciliationExpires, outcomeVars
  <2>2. Correlated'
    BY <2>1 DEF Correlated, ClientTypeOK, PendingTypeOK
  <2>3. Answered'
    BY <2>1 DEF Answered, ClientTypeOK
  <2>. QED BY <2>2, <2>3 DEF CorrelationInv
<1>8. ASSUME NEW c \in Commands, DetachPendingCommand(c) PROVE CorrelationInv'
  <2>1. /\ client[c] = "waiting"
        /\ client' = [client EXCEPT ![c] = "abandoned"]
        /\ \E to \in {"detached", "absent"} :
               pending' = [pending EXCEPT ![c] = to]
        /\ UNCHANGED <<pendingOutcome, mutex, result, recorded, reports>>
    BY <1>8 DEF DetachPendingCommand, PendingTypeOK, outcomeVars
  <2>2. Correlated'
    BY <2>1 DEF Correlated, ClientTypeOK, PendingTypeOK
  <2>3. Answered'
    BY <2>1 DEF Answered, ClientTypeOK
  <2>. QED BY <2>2, <2>3 DEF CorrelationInv
<1>9. CASE ReportOutcome
  <2>1. /\ RecordCommandOutcome(current, report.state) /\ current \in Commands
        /\ report.state \in States /\ UNCHANGED <<client, mutex, result>>
    BY <1>9 DEF ReportOutcome, WorkerTypeOK, Busy, Report, clientVars
  <2>2. reports[current] = 0
    BY <1>9, <2>1 DEF ReportOutcome, PlaceInv, OnePlace, Held, Busy
  <2>. QED BY <2>1, <2>2, CorrelationRecorded
<1>10. CASE ReportDrained
  <2>. DEFINE c == Head(drained)
              out == Validated(c, DrainedOutcome(c))
  <2>1. /\ RecordCommandOutcome(c, out.state)
        /\ UNCHANGED <<client, mutex, result>>
        /\ drained \in Seq(Commands) /\ drained # <<>>
    BY <1>10 DEF ReportDrained, clientVars, TypeOK, StopTypeOK
  <2>2. c \in Commands /\ c \in Elements(drained) BY <2>1, ElementsOfTail
  <2>3. out.state \in States
    BY <2>2, OutcomeTyped DEF TypeOK, Report
  <2>4. reports[c] = 0 BY <2>2 DEF PlaceInv, OnePlace
  <2>. QED
    <3>. HIDE DEF c, out
    <3>. QED BY <2>1, <2>2, <2>3, <2>4, CorrelationRecorded
<1>11. CASE \/ \E c \in Commands :
                 ClientCancels(c) \/ StopCallback(c) \/ RequestStop(c)
            \/ StartProcessor \/ WaitPop \/ BeginCommand \/ HandlerCancelled
            \/ HandlerFails \/ HandlerUnverified \/ TryBeginCommit \/ Publish
            \/ WriteFails \/ MarkCommitted \/ EvidenceFails
            \/ CompletionEvent \/ Classify \/ ValidateOutcome
            \/ ShutdownCallback \/ RoleServiceMutates \/ MarkRunStarted
            \/ MarkRunStopping \/ HostedStop \/ StopCommandProcessor
            \/ CancelDrained \/ JoinProcessor \/ StopReturns
            \/ UNCHANGED vars
  <2>1. UNCHANGED <<client, pending, pendingOutcome, mutex, result, recorded,
                    reports>>
    BY <1>11 DEF ClientCancels, StopCallback, RequestStop, StartProcessor,
         WaitPop, BeginCommand, HandlerCancelled, HandlerFails,
         HandlerUnverified, TryBeginCommit, Publish, WriteFails, MarkCommitted,
         EvidenceFails, CompletionEvent, Classify, ValidateOutcome,
         ShutdownCallback, RoleServiceMutates, MarkRunStarted,
         MarkRunStopping, HostedStop, StopCommandProcessor, CancelDrained,
         JoinProcessor, StopReturns, HandlerUnchanged, vars, pendingVars,
         clientVars, outcomeVars
  <2>. QED BY <2>1, CorrelationStays
<1>. QED
  BY <1>1, <1>2, <1>3, <1>4, <1>5, <1>6, <1>7, <1>8, <1>9, <1>10, <1>11
  DEF Next, ClientStep, WaiterStep, WorkerStep, StopStep, Finished

\* The types, the places and the correlation hold together in every reachable
\* state.
THEOREM PlacesAreKept == Spec => [](TypeOK /\ PlaceInv /\ CorrelationInv)
  BY TypeCorrect, InitPlace, StepPlace, InitCorrelation, StepCorrelation, PTL
  DEF Spec

\* The processor and the draining Stop() publish at most one outcome for a
\* command between them, and WaitForCommand never finds the entry of its
\* command missing, nor waits for an outcome that was already published.
THEOREM OneOutcomeForEach == Spec => []OneOutcomeEach
<1>1. TypeOK /\ PlaceInv /\ CorrelationInv => OneOutcomeEach
  <2>. SUFFICES ASSUME TypeOK, PlaceInv, CorrelationInv
                PROVE  OutcomeNeverLost /\ AtMostOneOutcome
    BY DEF OneOutcomeEach
  <2>1. OutcomeNeverLost
    BY CommandsAssumption DEF OutcomeNeverLost, CorrelationInv, Correlated
  <2>2. AtMostOneOutcome
    BY DEF AtMostOneOutcome, PlaceInv, OnePlace, TypeOK, QueueTypeOK
  <2>. QED BY <2>1, <2>2
<1>. QED BY <1>1, PlacesAreKept, PTL

-----------------------------------------------------------------------------
(***************************************************************************)
(* What an outcome says is what happened: the recorded outcome and the     *)
(* answer of the MCP caller never contradict the mutation, a committed     *)
(* node mutation is recorded as a success, and the pipeline implements the *)
(* command contract.                                                       *)
(***************************************************************************)

\* The outcome a state claims for a command agrees with its effect.
Truthful(c, state) ==
    /\ state \in Undone /\ Kind[c] \in AccountableKinds => c \notin published
    /\ state = "kSucceeded" => c \in published

\* What the handler's way out says about the command in its hands.
ExitTruthful ==
    /\ exit = "ok" => current \in published
    /\ exit \in {"cancelled", "failed"} /\ Kind[current] \in AccountableKinds
          => current \notin published

\* Where the effect of each command stands: none before the handler, and the
\* step, the way out and the report of the processor agree with it.
EffectInv ==
    /\ \A c \in Commands :
          sequence[c] = 0 \/ c \in Elements(queue) \cup Elements(drained)
              => c \notin published
    /\ \A c \in Commands : recorded[c] # "none" => Truthful(c, recorded[c])
    /\ worker \in {"popped", "handler", "committing"}
          => current \notin published
    /\ worker \in {"published", "completing"} => current \in published
    /\ worker = "classify" => ExitTruthful
    /\ worker \in {"report", "record"} => Truthful(current, report.state)

-----------------------------------------------------------------------------
\* Initially nothing has taken effect.
LEMMA InitEffect == Init => EffectInv
  BY DEF Init, EffectInv

\* A step that neither publishes nor records, and only hands commands over.
LEMMA EffectStays ==
    ASSUME EffectInv, UNCHANGED <<published, recorded>>,
           \A c \in Commands :
               sequence'[c] = 0
                 \/ c \in Elements(queue') \cup Elements(drained')
               => sequence[c] = 0
                    \/ c \in Elements(queue) \cup Elements(drained),
           \/ /\ worker' = worker /\ current' = current
              /\ exit' = exit /\ report' = report
           \/ worker' \in {"created", "pop", "exited"}
    PROVE  EffectInv'
<1>1. \A c \in Commands :
        sequence'[c] = 0 \/ c \in Elements(queue') \cup Elements(drained')
            => c \notin published'
  BY DEF EffectInv
<1>2. \A c \in Commands : recorded'[c] # "none" => Truthful(c, recorded[c])'
  BY DEF EffectInv, Truthful
<1>3. CASE worker' \in {"created", "pop", "exited"}
  BY <1>1, <1>2, <1>3 DEF EffectInv, Elements
<1>4. CASE worker' = worker /\ current' = current
             /\ exit' = exit /\ report' = report
  BY <1>1, <1>2, <1>4 DEF EffectInv, ExitTruthful, Truthful, Elements
<1>. QED BY <1>3, <1>4

\* A step of the processor on the command in its hands that records nothing:
\* the command is in no other place, so only its own claim has to be checked.
LEMMA EffectOfStep ==
    ASSUME TypeOK, PlaceInv, CorrelationInv, EffectInv,
           worker \in Busy, current' = current,
           UNCHANGED <<queue, drained, sequence, recorded>>,
           published' = published \/ published' = published \cup {current},
           worker' \in {"popped", "handler", "committing"}
               => current \notin published',
           worker' \in {"published", "completing"} => current \in published',
           worker' = "classify" => ExitTruthful',
           worker' \in {"report", "record"} => Truthful(current, report.state)'
    PROVE  EffectInv'
<1>1. /\ Held(current) /\ current \in Commands
      /\ sequence[current] > 0 /\ sequence[current] # 0
      /\ current \notin Elements(queue) \cup Elements(drained)
      /\ recorded[current] = "none"
  <2>1. Held(current) /\ current \in Commands
    BY DEF Held, TypeOK, WorkerTypeOK
  <2>2. /\ sequence[current] > 0 /\ reports[current] = 0
        /\ current \notin Elements(queue) \cup Elements(drained)
    BY <2>1 DEF PlaceInv, OnePlace
  <2>3. sequence[current] # 0
    BY <2>1, <2>2 DEF TypeOK, QueueTypeOK
  <2>. QED BY <2>1, <2>2, <2>3 DEF CorrelationInv, Answered
<1>2. \A c \in Commands :
        sequence[c] = 0 \/ c \in Elements(queue) \cup Elements(drained)
            => c \notin published'
  BY <1>1 DEF EffectInv
<1>3. \A c \in Commands : recorded'[c] # "none" => Truthful(c, recorded[c])'
  BY <1>1 DEF EffectInv, Truthful
<1>4. /\ Elements(queue)' = Elements(queue)
      /\ Elements(drained)' = Elements(drained)
  BY DEF Elements
<1>. QED BY <1>2, <1>3, <1>4 DEF EffectInv

\* Recording the outcome of a command tells the truth about it.
LEMMA EffectRecorded ==
    ASSUME TypeOK, EffectInv, NEW c \in Commands, NEW state \in States,
           RecordCommandOutcome(c, state), Truthful(c, state),
           published' = published
    PROVE  \A d \in Commands :
               recorded'[d] # "none" => Truthful(d, recorded[d])'
<1>1. recorded'[c] = state
      /\ \A d \in Commands : d # c => recorded'[d] = recorded[d]
  BY DEF RecordCommandOutcome, TypeOK, OutcomeTypeOK
<1>. QED BY <1>1 DEF EffectInv, Truthful

\* A cancellation is never reported as a success, and reports a denial.
LEMMA CancellationState ==
    \A c, fallback : CancellationOutcome(c, fallback).state
                         \in {"kOutcomeUnconfirmed", "kTimedOut", "kCancelled"}
  BY DEF CancellationOutcome

\* The way out of the handler determines the kind of outcome.
LEMMA OutcomeState ==
    ASSUME NEW c
    PROVE  /\ Outcome(c, "ok").state \in {"kOutcomeUnconfirmed", "kSucceeded"}
           /\ Outcome(c, "cancelled").state # "kSucceeded"
           /\ Outcome(c, "unconfirmed").state = "kOutcomeUnconfirmed"
           /\ Outcome(c, "failed").state # "kSucceeded"
  BY CancellationState DEF Outcome

\* The checks of RecordCommandOutcome only ever withdraw a claim.
LEMMA ValidatedState ==
    ASSUME NEW c, NEW out \in Report
    PROVE  Validated(c, out).state \in {out.state, "kOutcomeUnconfirmed"}
  BY DEF Validated, Report

\* Every step keeps effects and claims in agreement.
LEMMA StepEffect ==
    TypeOK /\ PlaceInv /\ CorrelationInv /\ EffectInv /\ [Next]_vars
        => EffectInv'
<1>. SUFFICES ASSUME TypeOK, PlaceInv, CorrelationInv, EffectInv, [Next]_vars
              PROVE  EffectInv'
  OBVIOUS
<1>. /\ QueueTypeOK /\ WorkerTypeOK /\ StopTypeOK /\ ControlTypeOK
     /\ Kind \in [Commands -> Kinds]
  BY CommandsAssumption DEF TypeOK
<1>1. ASSUME NEW c \in Commands, PushLocal(c) \/ SubmitCommand(c)
      PROVE  EffectInv'
  <2>1. /\ Push(c) /\ client[c] = "idle"
        /\ UNCHANGED <<published, recorded, worker, current, exit, report,
                       drained>>
    BY <1>1 DEF PushLocal, SubmitCommand, effectVars, workerVars, stopVars,
                outcomeVars
  <2>2. sequence[c] = 0 BY <2>1 DEF PlaceInv, UnsentIsNew
  <2>3. /\ Elements(queue') = Elements(queue) \cup {c}
        /\ Elements(drained') = Elements(drained)
        /\ \A d \in Commands : d # c => sequence'[d] = sequence[d]
    BY <2>1, ElementsOfAppend DEF Push, QueueTypeOK
  <2>. QED BY <2>1, <2>2, <2>3, EffectStays
<1>2. CASE WaitPop
  <2>1. CASE queue = <<>>
    <3>1. /\ UNCHANGED <<queue, drained, sequence, published, recorded>>
          /\ worker' = "exited"
      BY <1>2, <2>1 DEF WaitPop, effectVars, stopVars, outcomeVars
    <3>. QED BY <3>1, EffectStays
  <2>2. CASE queue # <<>>
    <3>1. /\ UNCHANGED <<drained, sequence, published, recorded>>
          /\ worker' = "popped" /\ current' = Head(queue)
          /\ queue' = Tail(queue)
      BY <1>2, <2>2 DEF WaitPop, effectVars, stopVars, outcomeVars
    <3>2. /\ Elements(queue) = {Head(queue)} \cup Elements(Tail(queue))
          /\ Head(queue) \in Commands
      BY <2>2, ElementsOfTail DEF QueueTypeOK
    <3>3. Elements(queue)' = Elements(Tail(queue))
          /\ Elements(drained)' = Elements(drained)
      BY <3>1 DEF Elements
    <3>4. current' \notin published' BY <3>1, <3>2 DEF EffectInv
    <3>5. \A c \in Commands : recorded'[c] # "none" => Truthful(c, recorded[c])'
      BY <3>1 DEF EffectInv, Truthful
    <3>6. \A c \in Commands :
            sequence'[c] = 0
              \/ c \in Elements(Tail(queue)) \cup Elements(drained)
            => c \notin published'
      BY <3>1, <3>2 DEF EffectInv
    <3>. QED BY <3>1, <3>3, <3>4, <3>5, <3>6 DEF EffectInv
  <2>. QED BY <2>1, <2>2
<1>3. CASE BeginCommand
  <2>1. /\ worker = "popped" /\ worker \in Busy /\ current' = current
        /\ UNCHANGED <<queue, drained, sequence, recorded, published>>
        /\ current \notin published
        /\ worker' \in {"report", "handler"}
        /\ worker' = "report" =>
               report' = CancellationOutcome(current, "kClientCancel")
    BY <1>3 DEF BeginCommand, queueVars, stopVars, outcomeVars, Busy, EffectInv
  <2>2. worker' = "report" => Truthful(current, report.state)'
    BY <2>1, CancellationState DEF Truthful
  <2>. QED BY <2>1, <2>2, EffectOfStep
<1>4. CASE \/ HandlerCancelled \/ HandlerFails \/ HandlerUnverified
           \/ WriteFails
  <2>1. /\ worker \in {"handler", "committing"} /\ worker' = "classify"
        /\ current' = current
        /\ UNCHANGED <<queue, drained, sequence, recorded, published>>
        /\ exit' # "ok"
    BY <1>4 DEF HandlerCancelled, HandlerFails, HandlerUnverified, WriteFails,
         HandlerUnchanged, queueVars, outcomeVars
  <2>2. worker \in Busy /\ current \notin published
    BY <2>1 DEF Busy, EffectInv
  <2>3. ExitTruthful' BY <2>1, <2>2 DEF ExitTruthful
  <2>. QED BY <2>1, <2>2, <2>3, EffectOfStep
<1>5. CASE TryBeginCommit
  <2>1. /\ worker = "handler" /\ worker' \in {"classify", "committing"}
        /\ current' = current
        /\ UNCHANGED <<queue, drained, sequence, recorded, published>>
        /\ worker' = "classify" => exit' = "cancelled"
    BY <1>5 DEF TryBeginCommit, HandlerUnchanged, queueVars, outcomeVars
  <2>2. worker \in Busy /\ current \notin published
    BY <2>1 DEF Busy, EffectInv
  <2>3. worker' = "classify" => ExitTruthful' BY <2>1, <2>2 DEF ExitTruthful
  <2>. QED BY <2>1, <2>2, <2>3, EffectOfStep
<1>6. CASE Publish
  <2>1. /\ worker \in {"handler", "committing"}
        /\ worker' \in {"published", "completing"} /\ current' = current
        /\ UNCHANGED <<queue, drained, sequence, recorded>>
        /\ published' = published \cup {current}
    BY <1>6 DEF Publish, HandlerUnchanged, queueVars, outcomeVars
  <2>2. worker \in Busy BY <2>1 DEF Busy
  <2>. QED BY <2>1, <2>2, EffectOfStep
<1>7. CASE MarkCommitted
  <2>1. /\ worker = "published" /\ worker' = "completing" /\ current' = current
        /\ UNCHANGED <<queue, drained, sequence, recorded, published>>
    BY <1>7 DEF MarkCommitted, HandlerUnchanged, queueVars, outcomeVars
  <2>2. worker \in Busy /\ current \in published
    BY <2>1 DEF Busy, EffectInv
  <2>. QED BY <2>1, <2>2, EffectOfStep
<1>8. CASE EvidenceFails \/ CompletionEvent
  <2>1. /\ worker \in {"published", "completing"} /\ worker' = "classify"
        /\ current' = current
        /\ UNCHANGED <<queue, drained, sequence, recorded, published>>
        /\ exit' \in {"ok", "unconfirmed", "failed"}
        /\ exit' = "failed" => Kind[current] \notin AccountableKinds
    BY <1>8 DEF EvidenceFails, CompletionEvent, HandlerUnchanged, queueVars,
         outcomeVars, AccountableKinds
  <2>2. worker \in Busy /\ current \in published
    BY <2>1 DEF Busy, EffectInv
  <2>3. ExitTruthful' BY <2>1, <2>2 DEF ExitTruthful
  <2>. QED BY <2>1, <2>2, <2>3, EffectOfStep
<1>9. CASE Classify
  <2>1. /\ worker = "classify" /\ worker' = "report" /\ current' = current
        /\ UNCHANGED <<queue, drained, sequence, recorded, published>>
        /\ report' = Outcome(current, exit)
        /\ exit \in {"ok", "cancelled", "unconfirmed", "failed"}
    BY <1>9 DEF Classify, queueVars, stopVars, outcomeVars, effectVars,
         WorkerTypeOK
  <2>2. worker \in Busy /\ ExitTruthful BY <2>1 DEF Busy, EffectInv
  <2>3. Truthful(current, report.state)'
    BY <2>1, <2>2, OutcomeState DEF Truthful, ExitTruthful, Undone
  <2>. QED BY <2>1, <2>2, <2>3, EffectOfStep
<1>10. CASE ValidateOutcome
  <2>1. /\ worker = "report" /\ worker' = "record" /\ current' = current
        /\ UNCHANGED <<queue, drained, sequence, recorded, published>>
        /\ report' = Validated(current, report) /\ report \in Report
    BY <1>10 DEF ValidateOutcome, queueVars, stopVars, outcomeVars, effectVars,
         WorkerTypeOK
  <2>2. worker \in Busy /\ Truthful(current, report.state)
    BY <2>1 DEF Busy, EffectInv
  <2>3. Truthful(current, report.state)'
    BY <2>1, <2>2, ValidatedState DEF Truthful, Undone
  <2>. QED BY <2>1, <2>2, <2>3, EffectOfStep
<1>11. CASE ReportOutcome
  <2>1. /\ worker = "record" /\ worker' = "pop"
        /\ UNCHANGED <<queue, drained, sequence, published>>
        /\ RecordCommandOutcome(current, report.state)
        /\ current \in Commands /\ report.state \in States
    BY <1>11 DEF ReportOutcome, queueVars, stopVars, WorkerTypeOK, Busy, Report
  <2>2. Truthful(current, report.state) BY <2>1 DEF EffectInv
  <2>3. \A c \in Commands : recorded'[c] # "none" => Truthful(c, recorded[c])'
    BY <2>1, <2>2, EffectRecorded
  <2>4. \A c \in Commands :
          (sequence[c] = 0 \/ c \in Elements(queue) \cup Elements(drained)
              => c \notin published)'
    BY <2>1 DEF EffectInv, Elements
  <2>. QED BY <2>1, <2>3, <2>4 DEF EffectInv
<1>12. CASE StopCommandProcessor
  <2>1. /\ UNCHANGED <<sequence, published, recorded, worker, current, exit,
                       report>>
        /\ Elements(queue') \cup Elements(drained') \subseteq
             Elements(queue) \cup Elements(drained)
    BY <1>12, EmptyElements DEF StopCommandProcessor, effectVars, workerVars,
         outcomeVars
  <2>. QED BY <2>1, EffectStays
<1>13. CASE ReportDrained
  <2>. DEFINE c == Head(drained)
              out == Validated(c, DrainedOutcome(c))
  <2>1. /\ RecordCommandOutcome(c, out.state)
        /\ UNCHANGED <<queue, sequence, published, worker, current, exit,
                       report>>
        /\ drained \in Seq(Commands) /\ drained # <<>>
        /\ drained' = Tail(drained)
    BY <1>13 DEF ReportDrained, queueVars, effectVars, workerVars, StopTypeOK
  <2>2. /\ c \in Commands
        /\ Elements(drained) = {c} \cup Elements(Tail(drained))
        /\ Elements(drained)' = Elements(Tail(drained))
        /\ Elements(queue)' = Elements(queue)
    BY <2>1, ElementsOfTail DEF Elements
  <2>3. DrainedOutcome(c) \in Report /\ out.state \in States
    BY <2>2, OutcomeTyped DEF Report
  <2>4. out.state # "kSucceeded"
    <3>1. DrainedOutcome(c).state # "kSucceeded"
      BY CancellationState DEF DrainedOutcome
    <3>. QED BY <2>3, <3>1, ValidatedState
  <2>5. Truthful(c, out.state)
    <3>1. c \notin published BY <2>2 DEF EffectInv
    <3>. QED BY <2>4, <3>1 DEF Truthful
  <2>. HIDE DEF c, out
  <2>6. \A d \in Commands : recorded'[d] # "none" => Truthful(d, recorded[d])'
    BY <2>1, <2>2, <2>3, <2>5, EffectRecorded
  <2>7. \A d \in Commands :
          (sequence[d] = 0 \/ d \in Elements(queue) \cup Elements(drained)
              => d \notin published)'
    BY <2>1, <2>2 DEF EffectInv
  <2>. QED BY <2>1, <2>6, <2>7 DEF EffectInv, ExitTruthful, Truthful
<1>14. CASE \/ \E c \in Commands :
                 \/ Refused(c) \/ ClientCancels(c) \/ StopCallback(c)
                 \/ RequestStop(c) \/ WaiterStep(c)
            \/ ShutdownCallback \/ RoleServiceMutates \/ MarkRunStarted
            \/ MarkRunStopping \/ HostedStop \/ CancelDrained
            \/ JoinProcessor \/ StopReturns \/ UNCHANGED vars
  <2>1. UNCHANGED <<queue, drained, sequence, published, recorded, worker,
                    current, exit, report>>
    BY <1>14 DEF Refused, ClientCancels, StopCallback, RequestStop, WaiterStep,
         SubmitCorrelated, WaitForCommand, WaitInterrupted, WaiterCancels,
         ReconciliationExpires, DetachPendingCommand, ShutdownCallback,
         HandlerUnchanged, RoleServiceMutates, MarkRunStarted,
         MarkRunStopping, HostedStop, CancelDrained, JoinProcessor,
         StopReturns, vars, queueVars, effectVars, workerVars, stopVars,
         outcomeVars
  <2>. QED BY <2>1, EffectStays
<1>15. CASE StartProcessor
  <2>1. /\ UNCHANGED <<queue, drained, sequence, published, recorded>>
        /\ worker' \in {"created", "pop"}
    BY <1>15 DEF StartProcessor, queueVars, effectVars, stopVars, outcomeVars
  <2>. QED BY <2>1, EffectStays
<1>. QED
  BY <1>1, <1>2, <1>3, <1>4, <1>5, <1>6, <1>7, <1>8, <1>9, <1>10, <1>11,
     <1>12, <1>13, <1>14, <1>15
  DEF Next, ClientStep, WorkerStep, StopStep, Finished

\* Every reachable state satisfies all the invariants so far.
THEOREM ClaimsAgree ==
    Spec => [](TypeOK /\ PlaceInv /\ CorrelationInv /\ EffectInv)
  BY PlacesAreKept, InitEffect, StepEffect, PTL DEF Spec

\* The published outcome never contradicts the inventory: a node, target or
\* signal command recorded as failed, cancelled or timed out has no effect, and
\* one recorded as succeeded has it, whatever raced with the handler.
THEOREM OutcomesAreTrue == Spec => []DefiniteOutcomeIsTrue
<1>1. EffectInv => DefiniteOutcomeIsTrue
  BY DEF EffectInv, Truthful, DefiniteOutcomeIsTrue, Undone
<1>. QED BY <1>1, ClaimsAgree, PTL

\* The same of the answer the MCP caller gets, although deadlines,
\* cancellations and the end of the run race the processor.
THEOREM AnswersAreTrue == Spec => []DefiniteAnswerIsTrue
<1>1. TypeOK /\ CorrelationInv /\ EffectInv => DefiniteAnswerIsTrue
  <2>. SUFFICES ASSUME TypeOK, CorrelationInv, EffectInv, NEW c \in Mcp
                PROVE  /\ result[c] \in Undone /\ Kind[c] \in AccountableKinds
                             => c \notin published
                       /\ result[c] = "kSucceeded" => c \in published
                       /\ result[c] \notin {"none", "kOutcomeUnconfirmed"}
                             => result[c] = recorded[c]
    BY DEF DefiniteAnswerIsTrue
  <2>1. c \in Commands BY CommandsAssumption
  <2>. QED BY <2>1 DEF CorrelationInv, Answered, EffectInv, Truthful, Undone
<1>. QED BY <1>1, ClaimsAgree, PTL

-----------------------------------------------------------------------------
(* The generation a node mutation committed.                               *)

\* The processor is inside the live command handler or its outcome handler.
Handling ==
    \/ worker \in {"handler", "committing", "published", "completing",
                   "classify"}
    \/ worker \in {"report", "record"} /\ exit # "none"

\* The command has committed and its handler returned normally.
Returned == worker \in {"classify", "report", "record"} /\ exit = "ok"

\* A node mutation holds the node mutation lock from its handler to its
\* outcome, so the generation it committed is still the current one.
NodeOwnsGeneration ==
    Handling /\ Kind[current] = "node" =>
        /\ lock = current
        /\ worker \in {"handler", "committing"} => generation = base[current]
        /\ worker \in {"published", "completing"} \/ Returned
              => generation = base[current] + 1
        /\ worker = "completing" \/ Returned => phase[current] = "kCommitted"

SuccessIsReported ==
    worker \in {"report", "record"} /\ exit = "ok"
        => report.state = "kSucceeded"

GenerationInv == NodeOwnsGeneration /\ SuccessIsReported

\* Initially the processor does not exist.
LEMMA InitGeneration == Init => GenerationInv
  BY DEF Init, GenerationInv, NodeOwnsGeneration, SuccessIsReported, Handling,
         Returned

\* A step of another thread: only open phases change, and the generation is
\* left alone while a node mutation is handled.
LEMMA GenerationStays ==
    ASSUME GenerationInv,
           UNCHANGED <<worker, current, exit, report, base, lock>>,
           phase[current] # "kOpen" => phase'[current] = phase[current],
           generation' = generation \/ ~Handling \/ lock # current
    PROVE  GenerationInv'
<1>1. (Handling' <=> Handling) /\ (Returned' <=> Returned)
  BY DEF Handling, Returned
<1>2. worker \in {"handler", "committing", "published", "completing"}
        \/ Returned
      => Handling
  BY DEF Handling, Returned
<1>3. NodeOwnsGeneration'
  BY <1>1, <1>2 DEF GenerationInv, NodeOwnsGeneration
<1>4. SuccessIsReported' BY DEF GenerationInv, SuccessIsReported
<1>. QED BY <1>3, <1>4 DEF GenerationInv

\* The processor lets go of a command or has none yet.
LEMMA GenerationIdle ==
    ASSUME worker' \in {"null", "created", "pop", "exited", "popped"}
    PROVE  GenerationInv'
  BY DEF GenerationInv, NodeOwnsGeneration, SuccessIsReported, Handling,
         Returned

\* The handler fails: the way out is not a success.
LEMMA GenerationGivenUp ==
    ASSUME GenerationInv, worker' = "classify", exit' # "ok",
           UNCHANGED <<current, lock>>, Handling
    PROVE  GenerationInv'
  BY DEF GenerationInv, NodeOwnsGeneration, SuccessIsReported, Handling,
         Returned

\* Every step keeps the committed generation with its owner.
LEMMA StepGeneration ==
    TypeOK /\ GenerationInv /\ [Next]_vars => GenerationInv'
<1>. SUFFICES ASSUME TypeOK, GenerationInv, [Next]_vars PROVE GenerationInv'
  OBVIOUS
<1>. /\ WorkerTypeOK /\ ControlTypeOK /\ EffectTypeOK
     /\ NodeOwnsGeneration /\ SuccessIsReported /\ NoCommand \notin Commands
     /\ worker \in Busy => current \in Commands
  BY CommandsAssumption DEF TypeOK, GenerationInv, WorkerTypeOK
<1>a. ASSUME NEW S, NEW because, RequestCancellation(S, because)
      PROVE  phase[current] # "kOpen" /\ current \in Commands
                 => phase'[current] = phase[current]
  BY <1>a, CancellationQuiet
<1>1. CASE StartProcessor \/ WaitPop \/ ReportOutcome
  <2>1. worker' \in {"created", "pop", "exited", "popped"}
    BY <1>1 DEF StartProcessor, WaitPop, ReportOutcome
  <2>. QED BY <2>1, GenerationIdle
<1>2. CASE BeginCommand
  <2>1. CASE current \in Controlled /\ stop[current]
    <3>1. worker' = "report" /\ exit' = "none" BY <1>2, <2>1 DEF BeginCommand
    <3>. QED BY <3>1 DEF GenerationInv, NodeOwnsGeneration, SuccessIsReported,
                         Handling, Returned
  <2>2. CASE ~(current \in Controlled /\ stop[current])
    <3>1. /\ worker = "popped" /\ worker' = "handler" /\ exit' = "none"
          /\ base' = [base EXCEPT ![current] = generation]
          /\ current \in Commands /\ current' = current
          /\ generation' = generation
          /\ Kind[current] = "node" => lock' = current
      BY <1>2, <2>2 DEF BeginCommand, WorkerTypeOK, Busy
    <3>2. base'[current] = generation BY <3>1 DEF EffectTypeOK
    <3>. QED BY <3>1, <3>2 DEF GenerationInv, NodeOwnsGeneration,
                         SuccessIsReported, Handling, Returned
  <2>. QED BY <2>1, <2>2
<1>3. CASE \/ HandlerCancelled \/ HandlerFails \/ HandlerUnverified
           \/ WriteFails \/ EvidenceFails
  <2>1. /\ worker' = "classify" /\ exit' # "ok" /\ UNCHANGED <<current, lock>>
        /\ worker \in {"handler", "committing", "published"}
    BY <1>3 DEF HandlerCancelled, HandlerFails, HandlerUnverified, WriteFails,
         EvidenceFails, HandlerUnchanged
  <2>. QED BY <2>1, GenerationGivenUp DEF Handling
<1>4. CASE TryBeginCommit
  <2>1. /\ worker = "handler" /\ worker' \in {"classify", "committing"}
        /\ worker' = "classify" => exit' = "cancelled"
        /\ UNCHANGED <<current, lock, base, generation>>
    BY <1>4 DEF TryBeginCommit, HandlerUnchanged
  <2>. QED BY <2>1 DEF GenerationInv, NodeOwnsGeneration, SuccessIsReported,
                       Handling, Returned
<1>5. CASE Publish
  <2>1. /\ worker \in {"handler", "committing"}
        /\ worker' \in {"published", "completing"}
        /\ Kind[current] = "node" => worker' = "published"
        /\ Kind[current] = "node" => generation' = generation + 1
        /\ UNCHANGED <<current, lock, base>>
    BY <1>5 DEF Publish, HandlerUnchanged, CommitKinds
  <2>. QED BY <2>1 DEF GenerationInv, NodeOwnsGeneration, SuccessIsReported,
                       Handling, Returned
<1>6. CASE MarkCommitted
  <2>1. /\ worker = "published" /\ worker' = "completing"
        /\ current \in Commands
        /\ UNCHANGED <<current, lock, base, generation>>
        /\ Kind[current] = "node" => current \in Controlled
        /\ phase' = IF current \in Controlled
                    THEN [phase EXCEPT ![current] = "kCommitted"] ELSE phase
    BY <1>6 DEF MarkCommitted, HandlerUnchanged, WorkerTypeOK, Busy, Controlled
  <2>2. Kind[current] = "node" => phase'[current] = "kCommitted"
    BY <2>1 DEF ControlTypeOK
  <2>. QED BY <2>1, <2>2 DEF GenerationInv, NodeOwnsGeneration,
                             SuccessIsReported, Handling, Returned
<1>7. CASE CompletionEvent
  <2>1. /\ worker = "completing" /\ worker' = "classify"
        /\ UNCHANGED <<current, lock, base, generation, phase>>
    BY <1>7 DEF CompletionEvent, HandlerUnchanged, controlVars
  <2>. QED BY <2>1 DEF GenerationInv, NodeOwnsGeneration, SuccessIsReported,
                       Handling, Returned
<1>8. CASE Classify
  <2>1. /\ worker = "classify" /\ worker' = "report" /\ exit # "none"
        /\ UNCHANGED <<current, exit, lock, base, generation, phase>>
        /\ report' = Outcome(current, exit)
    BY <1>8 DEF Classify, controlVars, effectVars, WorkerTypeOK
  <2>2. NodeOwnsGeneration'
    BY <2>1 DEF NodeOwnsGeneration, Handling, Returned
  <2>3. ASSUME exit = "ok" PROVE report'.state = "kSucceeded"
    <3>1. Kind[current] = "node" => phase[current] = "kCommitted"
      BY <2>1, <2>3 DEF NodeOwnsGeneration, Handling, Returned
    <3>. QED BY <2>1, <2>3, <3>1 DEF Outcome
  <2>. QED BY <2>1, <2>2, <2>3 DEF GenerationInv, SuccessIsReported
<1>9. CASE ValidateOutcome
  <2>1. /\ worker = "report" /\ worker' = "record"
        /\ UNCHANGED <<current, exit, lock, base, generation, phase>>
        /\ report' = Validated(current, report)
    BY <1>9 DEF ValidateOutcome, effectVars
  <2>2. NodeOwnsGeneration'
    BY <2>1 DEF NodeOwnsGeneration, Handling, Returned
  <2>3. ASSUME exit = "ok" PROVE report'.state = "kSucceeded"
    <3>1. report.state = "kSucceeded" BY <2>1, <2>3 DEF SuccessIsReported
    <3>2. Kind[current] = "node" => /\ phase[current] = "kCommitted"
                                    /\ generation = base[current] + 1
      BY <2>1, <2>3 DEF NodeOwnsGeneration, Handling, Returned
    <3>. QED BY <2>1, <3>1, <3>2 DEF Validated, PhaseMismatch
  <2>. QED BY <2>1, <2>2, <2>3 DEF GenerationInv, SuccessIsReported
<1>10. CASE RoleServiceMutates
  <2>1. /\ UNCHANGED <<worker, current, exit, report, base, lock, phase>>
        /\ lock = NoCommand
    BY <1>10 DEF RoleServiceMutates, workerVars, controlVars
  <2>2. Handling => current \in Commands
    BY DEF Handling, WorkerTypeOK, Busy
  <2>. QED BY <2>1, <2>2, GenerationStays
<1>11. ASSUME \/ \E c \in Commands : StopCallback(c) \/ WaiterCancels(c)
              \/ ShutdownCallback \/ CancelDrained
       PROVE  GenerationInv'
  <2>1. /\ UNCHANGED <<worker, current, exit, report, base, lock, generation>>
        /\ \E S, because : RequestCancellation(S, because)
    BY <1>11 DEF StopCallback, WaiterCancels, ShutdownCallback, CancelDrained,
         HandlerUnchanged, workerVars, effectVars
  <2>2. CASE worker \in Busy
    BY <2>1, <2>2, <1>a, GenerationStays DEF WorkerTypeOK
  <2>3. CASE worker \notin Busy
    <3>1. worker' \in {"null", "created", "pop", "exited"}
      BY <2>1, <2>3 DEF WorkerTypeOK
    <3>. QED BY <3>1, GenerationIdle
  <2>. QED BY <2>2, <2>3
<1>12. CASE \/ \E c \in Commands :
                 \/ PushLocal(c) \/ SubmitCommand(c) \/ Refused(c)
                 \/ ClientCancels(c) \/ RequestStop(c) \/ SubmitCorrelated(c)
                 \/ WaitForCommand(c) \/ WaitInterrupted(c)
                 \/ ReconciliationExpires(c) \/ DetachPendingCommand(c)
            \/ MarkRunStarted \/ MarkRunStopping \/ HostedStop
            \/ StopCommandProcessor \/ JoinProcessor \/ ReportDrained
            \/ StopReturns \/ UNCHANGED vars
  <2>1. UNCHANGED <<worker, current, exit, report, base, lock, generation,
                    phase>>
    BY <1>12 DEF PushLocal, SubmitCommand, Refused, ClientCancels, RequestStop,
         SubmitCorrelated, WaitForCommand, WaitInterrupted,
         ReconciliationExpires, DetachPendingCommand, MarkRunStarted,
         MarkRunStopping, HostedStop, StopCommandProcessor, JoinProcessor,
         ReportDrained, StopReturns, vars, controlVars, effectVars, workerVars
  <2>. QED BY <2>1, GenerationStays
<1>. QED
  BY <1>1, <1>2, <1>3, <1>4, <1>5, <1>6, <1>7, <1>8, <1>9, <1>10, <1>11, <1>12
  DEF Next, ClientStep, WaiterStep, WorkerStep, StopStep, Finished

\* A node mutation whose handler committed and returned is recorded as a
\* success: the lock keeps the role service from moving the generation before
\* RecordCommandOutcome has compared it.
THEOREM CommittedIsRecorded == Spec => []CommittedSuccessIsRecorded
<1>1. GenerationInv => CommittedSuccessIsRecorded
  BY DEF GenerationInv, SuccessIsReported, CommittedSuccessIsRecorded
<1>. QED BY <1>1, TypeCorrect, InitGeneration, StepGeneration, PTL DEF Spec

-----------------------------------------------------------------------------
(* The contract.                                                           *)

\* The initial state of the pipeline is one of the contract.
LEMMA InitContract == Init => Contract!Init
<1>. SUFFICES ASSUME Init PROVE Contract!Init
  OBVIOUS
<1>1. \A c \in Commands : Status(c) = "new"
  BY DEF Init, Status
<1>. QED BY <1>1 DEF Init, Contract!Init

\* A step that changes no status, effect or answer is a stutter.
LEMMA ContractStutters ==
    ASSUME UNCHANGED <<sequence, recorded, published, result>>
    PROVE  UNCHANGED Contract!vars
  BY DEF Contract!vars, Status

\* Recording the outcome of an admitted command resolves it.
LEMMA ContractResolves ==
    ASSUME TypeOK, NEW c \in Commands, NEW state \in States,
           RecordCommandOutcome(c, state), recorded[c] = "none",
           sequence[c] > 0, Truthful(c, state),
           UNCHANGED <<sequence, published, result>>
    PROVE  Contract!Resolve(c, state)
<1>1. recorded' = [recorded EXCEPT ![c] = state] /\ state # "none"
  BY DEF RecordCommandOutcome, States
<1>2. /\ Status(c) = "admitted" /\ Status(c)' = state
      /\ \A d \in Commands : d # c => Status(d)' = Status(d)
  BY <1>1 DEF Status, TypeOK, OutcomeTypeOK
<1>3. [d \in Commands |-> Status(d)]' =
          [[d \in Commands |-> Status(d)] EXCEPT ![c] = state]
  BY <1>2
<1>. QED BY <1>2, <1>3 DEF Contract!Resolve, Contract!Denials,
            Contract!Accountable, Truthful, Undone, AccountableKinds

\* Every step of the pipeline is one of the contract or a stutter.
LEMMA StepContract ==
    /\ TypeOK /\ PlaceInv /\ CorrelationInv /\ EffectInv
    /\ [Next]_vars
    => [Contract!Next]_(Contract!vars)
<1>. SUFFICES ASSUME TypeOK, PlaceInv, CorrelationInv, EffectInv, [Next]_vars
              PROVE  Contract!Next \/ UNCHANGED Contract!vars
  OBVIOUS
<1>. /\ QueueTypeOK /\ WorkerTypeOK /\ StopTypeOK /\ OutcomeTypeOK
     /\ ClientTypeOK /\ PendingTypeOK
  BY DEF TypeOK
<1>1. ASSUME NEW c \in Commands, PushLocal(c) \/ SubmitCommand(c)
      PROVE  Contract!Admit(c)
  <2>1. /\ Push(c) /\ client[c] = "idle"
        /\ UNCHANGED <<published, recorded, result>>
    BY <1>1 DEF PushLocal, SubmitCommand, effectVars, outcomeVars
  <2>2. sequence[c] = 0 /\ reports[c] = 0
    BY <2>1 DEF PlaceInv, UnsentIsNew, OnePlace
  <2>3. recorded[c] = "none" BY <2>2 DEF CorrelationInv, Answered
  <2>4. sequence' = [sequence EXCEPT ![c] = next] /\ next > 0
    BY <2>1, <2>2 DEF Push, PlaceInv, PlacesInOrder
  <2>5. /\ Status(c) = "new" /\ Status(c)' = "admitted"
        /\ \A d \in Commands : d # c => Status(d)' = Status(d)
    BY <2>1, <2>2, <2>3, <2>4 DEF Status, QueueTypeOK
  <2>6. [d \in Commands |-> Status(d)]' =
            [[d \in Commands |-> Status(d)] EXCEPT ![c] = "admitted"]
    BY <2>5
  <2>. QED BY <2>1, <2>5, <2>6 DEF Contract!Admit
<1>2. ASSUME Publish PROVE current \in Commands /\ Contract!TakeEffect(current)
  <2>1. /\ worker \in Busy /\ current \in Commands
        /\ published' = published \cup {current}
        /\ UNCHANGED <<sequence, recorded, result>>
    BY <1>2 DEF Publish, HandlerUnchanged, queueVars, outcomeVars, clientVars,
                WorkerTypeOK, Busy
  <2>2. sequence[current] > 0 /\ reports[current] = 0
    BY <2>1 DEF PlaceInv, OnePlace, Held
  <2>3. recorded[current] = "none" BY <2>1, <2>2 DEF CorrelationInv, Answered
  <2>4. Status(current) = "admitted" BY <2>2, <2>3 DEF Status
  <2>. QED BY <2>1, <2>4 DEF Contract!TakeEffect, Status
<1>3. ASSUME ReportOutcome
      PROVE  current \in Commands /\ report.state \in States
             /\ Contract!Resolve(current, report.state)
  <2>1. /\ worker = "record" /\ worker \in Busy /\ current \in Commands
        /\ RecordCommandOutcome(current, report.state)
        /\ report.state \in States
        /\ UNCHANGED <<sequence, published, result>>
    BY <1>3 DEF ReportOutcome, WorkerTypeOK, Busy, Report, queueVars, clientVars
  <2>2. sequence[current] > 0 /\ reports[current] = 0
    BY <2>1 DEF PlaceInv, OnePlace, Held
  <2>3. recorded[current] = "none" BY <2>1, <2>2 DEF CorrelationInv, Answered
  <2>4. Truthful(current, report.state) BY <2>1 DEF EffectInv
  <2>. QED BY <2>1, <2>2, <2>3, <2>4, ContractResolves
<1>4. ASSUME ReportDrained
      PROVE  \E c \in Commands, how \in States : Contract!Resolve(c, how)
  <2>. DEFINE c == Head(drained)
              out == Validated(c, DrainedOutcome(c))
  <2>1. /\ RecordCommandOutcome(c, out.state)
        /\ UNCHANGED <<sequence, published, result>>
        /\ drained \in Seq(Commands) /\ drained # <<>>
    BY <1>4 DEF ReportDrained, queueVars, effectVars, clientVars, StopTypeOK
  <2>2. c \in Commands /\ c \in Elements(drained) BY <2>1, ElementsOfTail
  <2>3. DrainedOutcome(c) \in Report /\ out.state \in States
    BY <2>2, OutcomeTyped DEF Report, TypeOK
  <2>4. out.state # "kSucceeded"
    <3>1. DrainedOutcome(c).state # "kSucceeded"
      BY CancellationState DEF DrainedOutcome
    <3>. QED BY <2>3, <3>1, ValidatedState
  <2>5. c \notin published BY <2>2 DEF EffectInv
  <2>6. sequence[c] > 0 /\ reports[c] = 0 BY <2>2 DEF PlaceInv, OnePlace
  <2>. HIDE DEF c, out
  <2>7. Truthful(c, out.state) BY <2>4, <2>5 DEF Truthful
  <2>8. recorded[c] = "none" BY <2>2, <2>6 DEF CorrelationInv, Answered
  <2>9. Contract!Resolve(c, out.state)
    BY <2>1, <2>2, <2>3, <2>6, <2>7, <2>8, ContractResolves
  <2>. QED BY <2>2, <2>3, <2>9
<1>5. ASSUME NEW c \in Commands, WaitForCommand(c)
      PROVE  recorded[c] \in States /\ Contract!Tell(c, recorded[c])
  <2>1. /\ client[c] \in {"waiting", "reconciling"} /\ pending[c] # "waiting"
        /\ result' = [result EXCEPT ![c] = pendingOutcome[c]]
        /\ UNCHANGED <<sequence, recorded, published>>
    BY <1>5 DEF WaitForCommand, outcomeVars, queueVars, effectVars
  <2>2. pending[c] = "completed" BY <2>1 DEF CorrelationInv, Correlated
  <2>3. reports[c] = 1 /\ pendingOutcome[c] = recorded[c]
    BY <2>2 DEF CorrelationInv, Correlated
  <2>4. recorded[c] # "none" /\ result[c] = "none"
    BY <2>1, <2>3 DEF CorrelationInv, Answered
  <2>5. recorded[c] \in States /\ Status(c) = recorded[c]
    BY <2>4 DEF OutcomeTypeOK, Status
  <2>. QED BY <2>1, <2>3, <2>4, <2>5 DEF Contract!Tell, Status
<1>6. ASSUME NEW c \in Commands, ReconciliationExpires(c)
      PROVE  Contract!Tell(c, "kOutcomeUnconfirmed")
  <2>1. /\ client[c] = "reconciling"
        /\ result' = [result EXCEPT ![c] = "kOutcomeUnconfirmed"]
        /\ UNCHANGED <<sequence, recorded, published>>
    BY <1>6 DEF ReconciliationExpires, outcomeVars, queueVars, effectVars
  <2>2. result[c] = "none" BY <2>1 DEF CorrelationInv, Answered
  <2>. QED BY <2>1, <2>2 DEF Contract!Tell, Status
<1>7. CASE \/ \E c \in Commands :
                \/ Refused(c) \/ ClientCancels(c) \/ StopCallback(c)
                \/ RequestStop(c) \/ SubmitCorrelated(c) \/ WaitInterrupted(c)
                \/ WaiterCancels(c) \/ DetachPendingCommand(c)
           \/ StartProcessor \/ WaitPop \/ BeginCommand \/ HandlerCancelled
           \/ HandlerFails \/ HandlerUnverified \/ TryBeginCommit
           \/ WriteFails \/ MarkCommitted \/ EvidenceFails
           \/ CompletionEvent \/ Classify \/ ValidateOutcome
           \/ ShutdownCallback \/ RoleServiceMutates \/ MarkRunStarted
           \/ MarkRunStopping \/ HostedStop \/ StopCommandProcessor
           \/ CancelDrained \/ JoinProcessor \/ StopReturns \/ UNCHANGED vars
  <2>1. UNCHANGED <<sequence, recorded, published, result>>
    BY <1>7 DEF Refused, ClientCancels, StopCallback, RequestStop,
         SubmitCorrelated, WaitInterrupted, WaiterCancels,
         DetachPendingCommand, StartProcessor, WaitPop, BeginCommand,
         HandlerCancelled, HandlerFails, HandlerUnverified, TryBeginCommit,
         WriteFails, MarkCommitted, EvidenceFails, CompletionEvent, Classify,
         ValidateOutcome, ShutdownCallback, RoleServiceMutates,
         MarkRunStarted, MarkRunStopping, HostedStop, StopCommandProcessor,
         CancelDrained, JoinProcessor, StopReturns, HandlerUnchanged, vars,
         queueVars, effectVars, clientVars, outcomeVars
  <2>. QED BY <2>1, ContractStutters
<1>8. States = Contract!Resolutions BY DEF States, Contract!Resolutions
<1>9. "kOutcomeUnconfirmed" \in States BY DEF States
<1>. QED
  BY <1>1, <1>2, <1>3, <1>4, <1>5, <1>6, <1>7, <1>8, <1>9
  DEF Next, ClientStep, WaiterStep, WorkerStep, StopStep, Finished,
      Contract!Next

\* Every behaviour of queue, control, processor, waiters and shutdown is one of
\* the command contract: one resolution per command, no effect outside the
\* time between admission and resolution, and no answer the resolution does
\* not back.
THEOREM PipelineImplementsContract == Spec => ImplementsContract
<1>1. [](TypeOK /\ PlaceInv /\ CorrelationInv /\ EffectInv) /\ [][Next]_vars
          => [][Contract!Next]_(Contract!vars)
  BY StepContract, PTL
<1>. QED
  BY <1>1, InitContract, ClaimsAgree, PTL
  DEF Spec, ImplementsContract, Contract!Spec
=============================================================================
