--------------------------- MODULE MCNodeControl ---------------------------
(***************************************************************************)
(* What is done to the nodes of a running simulation: starting, stopping   *)
(* and restarting them, their peers, and the roles they are given. A       *)
(* behaviour runs one of the components and leaves the others in an        *)
(* initial state: each is checked by itself, in one run of TLC.            *)
(***************************************************************************)
EXTENDS NodeLifecycle, PeerConnectivity, RoleOperations

LifeSetup(mode, policy, start, stop) ==
    [mode |-> mode, policy |-> policy, start |-> start, stop |-> stop]
LifeSetups ==
    {LifeSetup("scheduled", "on_failure", FALSE, TRUE),
     LifeSetup("native", "always", TRUE, FALSE),
     LifeSetup("native", "never", FALSE, FALSE)}

Bases == {[e \in {<<1, 2>>, <<2, 1>>, <<1, 3>>} |->
             [active |-> e # <<2, 1>>, condition |-> e # <<1, 3>>]]}
Pols == {[min |-> 1, max |-> 1]}
PeerBudget(c, f, o) == [changes |-> c, faults |-> f, outages |-> o]
PeerBudgetChoices == {PeerBudget(2, 1, 0), PeerBudget(1, 0, 1)}

RoleRequest(kind, nodes, count, funder, create) ==
    [kind |-> kind, nodes |-> nodes, count |-> count, funder |-> funder,
     create |-> create]
RoleRequestChoices ==
    {RoleRequest("wallet.add", <<3>>, 1, 0, FALSE),
     RoleRequest("wallet.add", <<>>, 1, 0, FALSE),
     RoleRequest("wallet.add", <<>>, 1, 0, TRUE),
     RoleRequest("wallet.remove", <<1>>, 1, 0, FALSE),
     RoleRequest("miner.add", <<>>, 1, 0, FALSE),
     RoleRequest("miner.add", <<>>, 1, 0, TRUE),
     RoleRequest("miner.remove", <<2>>, 1, 0, FALSE),
     RoleRequest("miner.remove", <<3, 2>>, 2, 0, FALSE),
     RoleRequest("masternode.add", <<2, 1>>, 2, 1, FALSE),
     RoleRequest("masternode.add", <<3>>, 1, 1, FALSE),
     RoleRequest("masternode.add", <<>>, 1, 1, TRUE),
     RoleRequest("masternode.remove", <<2, 1>>, 2, 0, FALSE),
     RoleRequest("masternode.restart", <<2>>, 1, 0, FALSE),
     RoleRequest("mining.stop", <<3>>, 1, 0, FALSE)}
RoleBudget(r, f, c, j) == [requests |-> r, faults |-> f, crashes |-> c, jobs |-> j]
RoleBudgetChoices ==
    {RoleBudget(2, 1, 0, 0), RoleBudget(1, 1, 1, 0), RoleBudget(2, 0, 0, 1)}
FirstMinerList == <<2, 3>>

\* Enough for a miner to be removed under a block of another.
ShiftingBudgets == {RoleBudget(3, 1, 0, 1)}
NoPeerBudgets == {PeerBudget(0, 0, 0)}
OneLifeSetup == {LifeSetup("scheduled", "never", FALSE, FALSE)}

VARIABLE part   \* the component this behaviour is about

vars == <<part, lifeVars, peerVars, roleVars>>

\* The other components stay in one of their initial states.
Init ==
    /\ part \in {"lifecycle", "peers", "roles"}
    /\ LifeInit /\ PeerInit /\ RoleInit
    /\ part # "lifecycle" => setup = CHOOSE s \in Setups : TRUE
    /\ part # "peers" => DOMAIN policies = {} /\ peerBudget = CHOOSE b \in PeerBudgets : TRUE
    /\ part # "roles" => roleBudget = CHOOSE b \in RoleBudgets : TRUE

Next ==
    /\ UNCHANGED part
    /\ \/ /\ part = "lifecycle" /\ LifeNext
          /\ UNCHANGED <<peerVars, roleVars>>
       \/ /\ part = "peers" /\ PeerNext
          /\ UNCHANGED <<lifeVars, roleVars>>
       \/ /\ part = "roles" /\ RoleNext
          /\ UNCHANGED <<lifeVars, peerVars>>

Spec == Init /\ [][Next]_vars

-----------------------------------------------------------------------------
\* Fairness is assumed of the component that runs.

\* Threads run; a daemon that was killed exits; a block that is being
\* produced is finished.  The supervisor's loop gets the lock again and
\* again.  Nothing obliges an operator, a cancellation or a failure.
LifeFairness ==
    /\ WF_lifeVars(part = "lifecycle" /\ OwnerStep)
    /\ WF_lifeVars(part = "lifecycle" /\ Supervise)
    /\ WF_lifeVars(part = "lifecycle" /\ ProduceBlock)
    /\ WF_lifeVars(part = "lifecycle" /\ doomed /\ ProcessExits)

\* The enforcement thread runs until the controller stops, every RPC is
\* bounded by a timeout, and a supervisor restarts what is to run.
PeerFairness ==
    /\ WF_peerVars(part = "peers" /\ Sweep)
    /\ WF_peerVars(part = "peers" /\ TaskStep)

\* The operation's thread runs, and a production handler returns: its RPCs
\* have timeouts.
RoleFairness == WF_roleVars(part = "roles" /\ OpStep) /\ WF_roleVars(part = "roles" /\ BlockDone)

FairSpec == Spec /\ LifeFairness /\ PeerFairness /\ RoleFairness

\* A disconnect is respected and a completion is earned; exits are handled,
\* stop times applied, commands answered, edges restored, peer policies
\* enforced, and role operations end.
ControlSettles ==
    /\ DisconnectIsRespected
    /\ CompletionIsEarned
    /\ ExitIsHandled
    /\ StopTimeIsApplied
    /\ CommandIsAnswered
    /\ RestorationEnds
    /\ PolicyIsEnforced
    /\ RoleOperationEnds
=============================================================================
