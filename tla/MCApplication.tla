--------------------------- MODULE MCApplication ---------------------------
(***************************************************************************)
(* The life of a run in the application and the RPC client of its nodes. A *)
(* behaviour runs one of the components and leaves the others in an        *)
(* initial state: each is checked by itself, in one run of TLC.            *)
(***************************************************************************)
EXTENDS LiveApplication, RpcClient

CONSTANTS first, second   \* calls

LiveBudget(k1, k2, on, f, n) ==
    [kinds |-> [r \in Requests |-> IF r = "q1" THEN k1 ELSE k2],
     stop |-> "stop" \in on, timer |-> "timer" \in on, reader |-> "reader" \in on,
     lease |-> "lease" \in on, subscribe |-> "subscribe" \in on,
     faults |-> f, runs |-> n]
LiveBudgetChoices ==
    {LiveBudget("workload", "none", {"stop"}, 0, 1),
     LiveBudget("workload", "none", {}, 1, 1),
     LiveBudget("readWorkload", "readInstrumentation", {}, 0, 1),
     LiveBudget("instrumentation", "role", {}, 0, 1),
     LiveBudget("instrumentation", "none", {"stop"}, 0, 1),
     LiveBudget("role", "none", {"timer"}, 1, 1),
     LiveBudget("role", "none", {"stop"}, 0, 1),
     LiveBudget("command", "none", {"timer"}, 2, 1),
     LiveBudget("roleCommand", "none", {"stop"}, 1, 1),
     LiveBudget("none", "none", {"stop", "timer", "lease"}, 1, 1),
     LiveBudget("none", "none", {}, 2, 1),
     LiveBudget("view", "none", {"lease"}, 1, 1),
     LiveBudget("view", "none", {"lease"}, 0, 2),
     LiveBudget("report", "report", {}, 0, 1),
     LiveBudget("none", "none", {"reader"}, 0, 2),
     LiveBudget("none", "none", {"subscribe", "stop"}, 1, 1)}

Lists == {<<"basic", "digest">>, <<"digest", "digest">>, <<"sha256">>}
RpcSetup(mode, slots, calls, faults, stops) ==
    [mode |-> mode, slots |-> slots, calls |-> calls, faults |-> faults, stops |-> stops]
RpcSetupChoices ==
    {RpcSetup("cookie", 2, {first, second}, 1, 0),
     RpcSetup("digest", 2, {first, second}, 0, 0), RpcSetup("digest", 1, {first}, 2, 1),
     RpcSetup("basic", 1, {first, second}, 0, 1)}

VARIABLE part   \* the component this behaviour is about

vars == <<part, liveVars, rpcVars>>

\* The other components stay in one of their initial states.
Init ==
    /\ part \in {"application", "rpc"}
    /\ LiveInit /\ RpcInit
    /\ part # "application" => budget = CHOOSE l \in LiveBudgets : TRUE
    /\ part # "rpc" => setup = CHOOSE s \in RpcSetups : TRUE

Next ==
    /\ UNCHANGED part
    /\ \/ /\ part = "application" /\ LiveNext
          /\ UNCHANGED <<rpcVars>>
       \/ /\ part = "rpc" /\ RpcNext
          /\ UNCHANGED <<liveVars>>

Spec == Init /\ [][Next]_vars

-----------------------------------------------------------------------------
\* Fairness is assumed of the component that runs.

\* The threads of the program run on; a callback ends once it is asked to, a
\* role command at its deadline, and nothing makes a simulation or a callback
\* end by itself.
LiveFairness ==
    /\ WF_liveVars(part = "application" /\ SimulatorStep)
    /\ \A a \in Actors : WF_liveVars(part = "application" /\ MarkProgress(a))
    /\ \A r \in Requests :
         /\ WF_liveVars(part = "application" /\ (\/ BeginRequest(r) \/ EnterService(r) \/ EnterRead(r)
              \/ EnterReport(r) \/ ReadReturns(r) \/ EndRequest(r) \/ ReleasePlan(r)))
         /\ WF_liveVars(part = "application" /\ RoleCommand(r))
         /\ WF_liveVars(part = "application" /\ req[r].pc \in {"mark", "marking"}
                                       /\ RoleUnconfirmed(r))
         /\ WF_liveVars(part = "application" /\ Cancelled(req[r].kind)
                                       /\ ServiceReturns(r))
    /\ WF_liveVars(part = "application" /\ host # "idle" /\ HostStops)
    /\ WF_liveVars(part = "application" /\ timer = "fired" /\ DurationTimer)
    /\ WF_liveVars(part = "application" /\ ReaperStep)
    /\ WF_liveVars(part = "application" /\ ReleaseLease)

\* Threads run and clocks advance; nothing is expected of the node.
RpcFairness ==
    \A c \in Calls : /\ WF_rpcVars(part = "rpc" /\ CallStep(c))
                     /\ WF_rpcVars(part = "rpc" /\ DeadlinePasses(c))

FairSpec == Spec /\ LiveFairness /\ RpcFairness

\* The state of a run never falls back and its membership is counted; a stop
\* ends the run and answers everyone, shutdown releases it, and RPC calls end.
RunsSettle ==
    /\ RunStateNeverFalls
    /\ MembershipIsCounted
    /\ StopEndsTheRun
    /\ StopAnswersEveryone
    /\ ShutdownReleasesTheRun
    /\ CallEnds
=============================================================================
