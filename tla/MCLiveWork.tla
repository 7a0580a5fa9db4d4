----------------------------- MODULE MCLiveWork -----------------------------
(***************************************************************************)
(* What keeps a simulation busy and measures it: live workloads,           *)
(* transaction loads and instrumentation windows. A behaviour runs one of  *)
(* the components and leaves the others in an initial state: each is       *)
(* checked by itself, in one run of TLC.                                   *)
(***************************************************************************)
EXTENDS LiveWorkloads, TransactionLoad, Instrumentation

CONSTANTS n1, n2, c1, c2

LoadSetup(strategy, limit, capacity, batch, timed, threads, nodes, store, balances, n) ==
    [strategy |-> strategy, limit |-> limit, capacity |-> capacity, batch |-> batch,
     timed |-> timed, threads |-> threads, nodes |-> nodes, store |-> store,
     balances |-> balances, disturbances |-> n]
LoadSetups ==
    {LoadSetup("bruteforce", 2, 2, 1, FALSE, 2, 1, 1, <<1, 1>>, 1),
     LoadSetup("bruteforce", 2, 2, 1, FALSE, 1, 1, 1, <<1, 0>>, 2),
     LoadSetup("fanout", 2, 2, 2, TRUE, 2, 1, 2, <<2, 0>>, 1),
     LoadSetup("fanout", 3, 1, 1, FALSE, 1, 2, 1, <<1, 1>>, 1),
     LoadSetup("fanout", 1, 1, 1, FALSE, 1, 1, 1, <<1, 0>>, 2)}

WindowRequestChoices == {<<{n1}, c2>>, <<{n1, n2}, c2>>, <<{n2}, c1>>}

VARIABLE part   \* the component this behaviour is about

vars == <<part, workVars, loadVars, instVars>>

\* The other components stay in one of their initial states.
Init ==
    /\ part \in {"workloads", "load", "windows"}
    /\ WorkInit /\ LoadInit /\ InstInit
    /\ part # "load" => setup = CHOOSE s \in Setups : TRUE

Next ==
    /\ UNCHANGED part
    /\ \/ /\ part = "workloads" /\ WorkNext
          /\ UNCHANGED <<loadVars, instVars>>
       \/ /\ part = "load" /\ LoadNext
          /\ UNCHANGED <<workVars, instVars>>
       \/ /\ part = "windows" /\ InstNext
          /\ UNCHANGED <<workVars, loadVars>>

Spec == Init /\ [][Next]_vars

-----------------------------------------------------------------------------
\* Fairness is assumed of the component that runs.

\* Every worker is a thread that goes on running, the service's stop callbacks
\* run when it is cancelled, and the shutdown runs in the run's own thread.
WorkFairness ==
    /\ \A w \in Workloads : /\ WF_workVars(part = "workloads" /\ WorkerStep(w))
                            /\ WF_workVars(part = "workloads" /\ ServiceStopCallback(w))
    /\ WF_workVars(part = "workloads" /\ ShutdownStep)

\* The threads of the load run, and every call to a node ends by its timeout.
LoadFairness ==
    /\ WF_loadVars(part = "load" /\ ProducerStep)
    /\ \A w \in Threads : WF_loadVars(part = "load" /\ w \in Submitters /\ SubmitterStep(w))

\* Every thread keeps running: the operations are worker threads of the
\* operation service, the window has a thread of its own, shutdown runs in
\* the application thread.
InstFairness ==
    /\ WF_instVars(part = "windows" /\ WindowStep) /\ WF_instVars(part = "windows" /\ InstShutdownStep)
    /\ \A o \in Ops : WF_instVars(part = "windows" /\ OpStep(o))

FairSpec == Spec /\ WorkFairness /\ LoadFairness /\ InstFairness

\* Ended work stays ended; workloads and windows shut down, a requested stop of
\* a load is honoured, and a window that is due ends.
WorkSettles ==
    /\ TerminalIsFinal
    /\ EndIsFinal
    /\ ShutdownCompletes
    /\ RequestIsHonoured
    /\ DueWindowEnds
    /\ ShutdownEnds
=============================================================================
