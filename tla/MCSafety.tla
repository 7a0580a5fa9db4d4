------------------------------ MODULE MCSafety ------------------------------
(***************************************************************************)
(* The components of which only safety is asked, with larger bounds: what  *)
(* a run takes from its host and must give back (cgroups, network links,   *)
(* run directories, the history it retains), and the history of the        *)
(* operation service. OperationService is checked with fairness too. A     *)
(* behaviour runs one of the components and leaves the others in an        *)
(* initial state: each is checked by itself, in one run of TLC.            *)
(***************************************************************************)
EXTENDS CgroupScope, NodeNetwork, RunRoots, RetainedHistory, OperationService

CONSTANT s1

\* The calls are of one session.
CallerOf == [r \in Requests |-> s1]
ServiceBudgetChoices ==
    {[callers |-> Requests, progress |-> 0, failures |-> 0, published |-> 0,
      removals |-> 1]}

AimedAt(k, id, ns) == [kind |-> k, id |-> id, nodes |-> ns, canonical |-> id = "w1"]
TLists ==
    {<<AimedAt("group", "g", <<"a", "b">>), AimedAt("wallet", "w1", <<"c">>)>>,
     <<AimedAt("node", "a", <<"a">>), AimedAt("group", "g", <<"a", "b">>)>>,
     <<AimedAt("wallet", "x", <<"a">>)>>}
Rounds == {<<0>>, <<1, 0>>}

\* A document of the first version with one finished window of these samples.
Legacy(revision, samples) ==
    [version |-> 1, active |-> 0, records |-> <<
       [id |-> 1, state |-> "succeeded", samples |-> Len(samples),
        targets |-> <<AimedAt("node", "a", <<"a">>)>>, revision |-> revision,
        configs |-> <<>>, completed |-> TRUE, failure |-> FALSE,
        kept |-> Len(samples), dropped |-> 0,
        measured |-> [i \in DOMAIN samples |->
                        [sample |-> samples[i], revision |-> 0, size |-> 1]]]>>]
Legacies == {Legacy(1, <<1, 2>>), Legacy(2, <<1>>)}

VARIABLE part   \* the component this behaviour is about

vars == <<part, scopeVars, netVars, rootVars, histVars, serviceVars>>

\* The other components stay in one of their initial states.
Init ==
    /\ part \in {"scope", "network", "roots", "history", "operations"}
    /\ ScopeInit /\ NetInit /\ RootInit /\ HistoryInit /\ ServiceInit
    /\ part # "history" => up
    /\ part # "scope" => ~tree.found

Next ==
    /\ UNCHANGED part
    /\ \/ /\ part = "scope" /\ ScopeNext
          /\ UNCHANGED <<netVars, rootVars, histVars, serviceVars>>
       \/ /\ part = "network" /\ NetNext
          /\ UNCHANGED <<scopeVars, rootVars, histVars, serviceVars>>
       \/ /\ part = "roots" /\ RootNext
          /\ UNCHANGED <<scopeVars, netVars, histVars, serviceVars>>
       \/ /\ part = "history" /\ HistoryNext
          /\ UNCHANGED <<scopeVars, netVars, rootVars, serviceVars>>
       \/ /\ part = "operations" /\ ServiceNext
          /\ UNCHANGED <<scopeVars, netVars, rootVars, histVars>>

Spec == Init /\ [][Next]_vars
=============================================================================
