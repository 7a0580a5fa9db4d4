---------------------------- MODULE MCRunRecords ----------------------------
(***************************************************************************)
(* The nodes of a run and the records kept of it: additions and removals   *)
(* of nodes, the replacement of a node by a restarted clone, the report    *)
(* drawn from the files of the run, the artifacts read back from its       *)
(* directory and evidence read page by page. A behaviour runs one of the   *)
(* components and leaves the others in an initial state: each is checked   *)
(* by itself, in one run of TLC.                                           *)
(***************************************************************************)
EXTENDS NodeMutation, NodeReplacement, RunReport, ArtifactScans, EvidencePages

CONSTANTS n1, n2, n3

OneInitial == {n1}
TwoInitial == {n1, n2}

Replaced(resources, network, scheduled, native) ==
    [resources |-> resources, network |-> network, scheduled |-> scheduled,
     native |-> native]
ReplacementChoices ==
    {Replaced(TRUE, FALSE, TRUE, FALSE), Replaced(FALSE, TRUE, FALSE, TRUE)}

ReportBudget(focus, records, batch, cancels, rewrites, replaces, failed, torn, locked, grown) ==
    [focus |-> focus, records |-> records, batch |-> batch, cancels |-> cancels,
     rewrites |-> rewrites, replaces |-> replaces, faults |-> failed, torn |-> torn,
     locked |-> locked, grown |-> grown, calm |-> focus # "inventory", errors |-> 1,
     ends |-> IF focus = "inventory" /\ ~grown THEN {"finished", "failed", "cancelled"}
              ELSE {"finished"}]
OneReportBudget == {ReportBudget("other", 1, 1, 0, 0, 0, 0, 0, FALSE, FALSE)}
ReportBudgetChoices ==
    {ReportBudget("inventory", 2, 1, 0, 0, 0, 0, 0, TRUE, FALSE),
     ReportBudget("inventory", 1, 1, 0, 1, 0, 1, 0, TRUE, FALSE),
     ReportBudget("inventory", 1, 1, 0, 0, 0, 0, 1, TRUE, FALSE),
     ReportBudget("inventory", 2, 3, 0, 0, 0, 1, 0, TRUE, TRUE),
     ReportBudget("load", 2, 2, 0, 0, 1, 0, 0, FALSE, FALSE),
     ReportBudget("load", 1, 1, 0, 0, 1, 0, 1, FALSE, FALSE),
     ReportBudget("other", 1, 1, 1, 0, 0, 0, 0, FALSE, FALSE),
     ReportBudget("wallets", 2, 1, 0, 0, 0, 0, 0, TRUE, FALSE),
     ReportBudget("wallets", 2, 1, 0, 1, 0, 0, 0, TRUE, FALSE)}

Query(families, nodes, limit, end, follow) ==
    [families |-> families, nodes |-> nodes, limit |-> limit, end |-> end,
     follow |-> follow]
OneQuery == {Query(<<"events">>, {}, 1, 0, FALSE)}
QueryChoices ==
    {Query(<<"events", "errors">>, {}, 1, 0, FALSE),
     Query(<<"topology", "metrics", "errors", "nodes">>, {"n1"}, 2, 0, FALSE),
     Query(<<"progress", "events", "errors">>, {}, 2, 9, FALSE),
     Query(<<"logs">>, {}, 2, 0, TRUE)}

DirectoryPaths == {<<"nodes">>, <<"nodes", "data">>, <<"nodes", "data", "blocks">>, <<"mcp">>}
LogFiles == {<<"nodes", "data", "debug.log">>, <<"nodes", "out.log">>}
Deep == <<"nodes", "data", "blocks", "x.dat">>
Report == <<"report.json">>
Twin == <<"twin.json">>
Long == <<"nodes", "long.log">>
LongOnes == {Long}
AllPaths == DirectoryPaths \cup LogFiles \cup {Report, Twin, <<"mcp", "token">>, Deep, Long}
TextFiles == LogFiles \cup {Report, Twin}
FirstTree == AllPaths \ {Twin, Deep, Long}
\* The two files are given the same identifier.
Identifiers == [p \in AllPaths |-> IF p = Twin THEN Report ELSE p]
VolatilePaths ==
    {Deep, Long, <<"nodes", "data", "debug.log">>, <<"nodes", "data", "blocks">>, Report, Twin}
WantedPaths == {Report, <<"nodes", "data", "debug.log">>, <<"mcp", "token">>}
ArtifactBudget(changes, scans) == [changes |-> changes, scans |-> scans]
ArtifactBudgetChoices == {ArtifactBudget(2, 1), ArtifactBudget(1, 3)}
OneArtifactBudget == {ArtifactBudget(0, 1)}

VARIABLE part   \* the component this behaviour is about

vars == <<part, mutationVars, replVars, reportVars, artifactVars, evidenceVars>>

\* The other components stay in one of their initial states.
Init ==
    /\ part \in {"mutation", "replacement", "report", "artifacts", "evidence"}
    /\ MutationInit /\ ReplInit /\ InitReport /\ ArtifactInit /\ EvidenceInit
    /\ part # "replacement" => req = CHOOSE r \in Requests : TRUE
    /\ part # "report" => reportBudget = CHOOSE b \in ReportBudgets : TRUE
    /\ part # "artifacts" => \A b \in ArtifactBudgets : artifactUse.scans <= b.scans

Next ==
    /\ UNCHANGED part
    /\ \/ /\ part = "mutation" /\ MutationNext
          /\ UNCHANGED <<replVars, reportVars, artifactVars, evidenceVars>>
       \/ /\ part = "replacement" /\ ReplNext
          /\ UNCHANGED <<mutationVars, reportVars, artifactVars, evidenceVars>>
       \/ /\ part = "report" /\ ReportNext
          /\ UNCHANGED <<mutationVars, replVars, artifactVars, evidenceVars>>
       \/ /\ part = "artifacts" /\ ArtifactNext
          /\ UNCHANGED <<mutationVars, replVars, reportVars, evidenceVars>>
       \/ /\ part = "evidence" /\ EvidenceNext
          /\ UNCHANGED <<mutationVars, replVars, reportVars, artifactVars>>

Spec == Init /\ [][Next]_vars

-----------------------------------------------------------------------------
\* Fairness is assumed of the component that runs.

\* The command processor's thread keeps running its handler.  Nothing is assumed
\* of the readers, of the client or of whoever calls the cleanup.
MutationFairness == WF_mutationVars(part = "mutation" /\ (HandlerStep \/ RootStep))

\* Every call returns or throws, and a daemon told to exit exits.
ReplFairness ==
    /\ WF_replVars(part = "replacement" /\ (ForwardStep \/ BackwardStep))
    /\ WF_replVars(part = "replacement" /\ NodeExits /\ node.doomed)

\* A frontend refreshes again and again, and a thread that has begun a line or a
\* publication goes on with it.
ReportFairness ==
    /\ WF_reportVars(part = "report" /\ RefreshStep)
    /\ WF_reportVars(part = "report" /\ (PublishOwed \/ CompleteLine))

\* The executor thread runs, the follow clock advances, and a client that was
\* told there is more asks for it.
EvidenceFairness ==
    /\ WF_evidenceVars(part = "evidence" /\ QueryStep) /\ WF_evidenceVars(part = "evidence" /\ QueryExpires)
    /\ WF_evidenceVars(part = "evidence" /\ client.truncated /\ Continue)

FairSpec == Spec /\ MutationFairness /\ ReplFairness /\ ReportFairness /\ EvidenceFairness

\* Every line that was written is replayed by the report in the end, where the
\* report is the component that runs.
LinesAreReplayed == part = "report" => ReportCatchesUp

\* A revision shown never falls; mutations and replacements end, every line is
\* replayed, and paged queries end.
RecordsSettle ==
    /\ RevisionNeverFalls
    /\ MutationSettles
    /\ ReplacementIsAnswered
    /\ LinesAreReplayed
    /\ PagingEnds
=============================================================================
