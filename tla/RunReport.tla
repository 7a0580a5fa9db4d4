------------------------------ MODULE RunReport ------------------------------
(***************************************************************************)
(* IncrementalRunReport: the report of a run that the terminal interface,  *)
(* the MCP report and the retained views replay from the files of the run  *)
(* directory (events.jsonl, metrics.jsonl, wallet-metrics.jsonl, the       *)
(* resolved scenario and the manifest of node resources), a bounded number *)
(* of records per refresh, while the simulator goes on appending to them.  *)
(*                                                                         *)
(* A record stands for a JSON line: its kind and the fields that the       *)
(* replay looks at.  Texts, times and the copied parts of a record are     *)
(* left out; a summary is the position of its event in the file.           *)
(***************************************************************************)
EXTENDS Integers, Sequences, FiniteSets, FiniteSetsExt, SequencesExt

CONSTANTS
    FirstNodes,       \* nodes of the scenario
    LaterNodes,       \* nodes an operator may add
    MaxSummaries,     \* kMaximumRunReportSummaryRecords
    MaxSamples,       \* kMaximumNodeMetricHistorySamples
    MaxTail,          \* kMaximumNodeLogTailBytes, in chunks
    ReportBudgets     \* what the simulator writes and what disturbs the reader

ReportNodes == FirstNodes \cup LaterNodes

ASSUME ReportAssumption ==
    /\ IsFiniteSet(ReportNodes)
    /\ FirstNodes \cap LaterNodes = {}
    /\ {MaxSummaries, MaxSamples, MaxTail} \subseteq Nat \ {0}

VARIABLES
    files,     \* the run directory
    world,     \* the simulator that writes it
    report,    \* the report's replayed state
    shown,     \* the summaries of the last UpdateReport, what a frontend sees
    frontend,  \* the snapshot the frontend keeps
    refresh,   \* the refresh in progress and what the last one told
    reportBudget

reportVars == <<files, world, report, shown, frontend, refresh, reportBudget>>

NoFunction == <<>>
Updated(f, k, v) == [x \in DOMAIN f \cup {k} |-> IF x = k THEN v ELSE f[x]]
Without(f, S) == [x \in DOMAIN f \ S |-> f[x]]
Newest(s, n) == SubSeq(s, IF Len(s) > n THEN Len(s) - n + 1 ELSE 1, Len(s))

-----------------------------------------------------------------------------
(* What is kept of one node, one wallet and one transaction load.           *)

FreshNode == [role |-> "none", error |-> "none", state |-> "none", samples |-> 0,
              history |-> <<>>, previous |-> 0, tail |-> [from |-> 0, to |-> 0]]

FreshWallet == [node |-> 0, address |-> "none", sent |-> 0, received |-> 0,
                funded |-> FALSE, metric |-> 0]

FreshLoad == [revision |-> 0, authoritative |-> FALSE, completed |-> FALSE,
              attempted |-> 0, observed |-> 0, last |-> 0]

SummaryKinds == {"blocks", "visibility", "confirmations", "load_attempts",
                 "load_summaries", "partitions", "heals", "edges", "funding",
                 "transactions", "commands"}

\* Reset: the state before the first record.  The configuration and the edges
\* come from the resolved scenario; the wallet identities of the runtime are
\* what the last publication left, which Reset does not clear.
FreshReport(scenario, walletNodes) ==
    [scenario |-> scenario, events |-> 0, metrics |-> 0, marks |-> {},
     nodes |-> NoFunction, wallets |-> NoFunction, loads |-> NoFunction,
     workloads |-> NoFunction, targets |-> NoFunction,
     summaries |-> [k \in SummaryKinds |-> <<>>],
     partitions |-> {}, blockPolicy |-> 0,
     active |-> [known |-> FALSE, ids |-> {}],
     walletNodes |-> walletNodes,
     configs |-> [known |-> TRUE, roles |-> [n \in FirstNodes |-> "base"]],
     edges |-> [known |-> TRUE, active |-> {}],
     inventory |-> "scenario", generation |-> 0, miners |-> {}]

NoWalletNodes == [known |-> FALSE, map |-> NoFunction]

NodeOf(r, n) == IF n \in DOMAIN r.nodes THEN r.nodes[n] ELSE FreshNode
WalletOf(r, w) == IF w \in DOMAIN r.wallets THEN r.wallets[w] ELSE FreshWallet

Append1(r, kind, at) ==
    [r EXCEPT !.summaries[kind] = Newest(Append(@, at), MaxSummaries)]

-----------------------------------------------------------------------------
(* ProcessEvent, kind by kind.                                              *)

RecoverableErrors == {"exited", "unavailable"}

OnRunMark(r, e) == [r EXCEPT !.marks = @ \cup {e.mark}]

OnNodeError(r, e) ==
    [r EXCEPT !.nodes = Updated(@, e.node, [NodeOf(r, e.node) EXCEPT !.error = e.error])]

OnNodeState(r, e) ==
    [r EXCEPT !.nodes = Updated(@, e.node, [NodeOf(r, e.node) EXCEPT !.state = e.state])]

\* An RPC that answers again clears the errors that said it did not.
OnRpcReady(r, e) ==
    IF NodeOf(r, e.node).error \in RecoverableErrors
    THEN [r EXCEPT !.nodes = Updated(@, e.node, [NodeOf(r, e.node) EXCEPT !.error = "none"])]
    ELSE [r EXCEPT !.nodes = Updated(@, e.node, NodeOf(r, e.node))]

\* RememberLogTail: a chunk that continues the kept tail is joined to it, and
\* the front of a tail that has grown too long is dropped.
OnLogTail(r, e) ==
    LET kept   == NodeOf(r, e.node).tail
        start  == IF ~e.reset /\ kept.to = e.from THEN kept.from ELSE e.from
        first  == IF e.to - start > MaxTail THEN e.to - MaxTail ELSE start
    IN  [r EXCEPT !.nodes =
           Updated(@, e.node, [NodeOf(r, e.node) EXCEPT !.tail = [from |-> first, to |-> e.to]])]

OnBlocks(r, e, at) == Append1(r, "blocks", at)

\* LiveTransactionLoad: at most MaxSummaries loads, the least recently updated
\* one makes room.
LoadTable(r, w) ==
    LET oldest == CHOOSE k \in DOMAIN r.loads :
                     \A j \in DOMAIN r.loads : r.loads[k].last <= r.loads[j].last
    IN  IF w \in DOMAIN r.loads THEN r.loads
        ELSE Updated(IF Cardinality(DOMAIN r.loads) >= MaxSummaries
                  THEN Without(r.loads, {oldest}) ELSE r.loads,
                  w, FreshLoad)

\* Attempts are counted here only until the load sends its own totals.
OnLoadAttempt(r, e, at) ==
    LET table == LoadTable(r, e.load)
        live  == table[e.load]
    IN  [Append1(r, "load_attempts", at) EXCEPT
            !.loads = IF live.authoritative THEN table
                      ELSE [table EXCEPT ![e.load].attempted = @ + 1,
                                         ![e.load].last = r.events]]

\* With one node a transaction seen there has been seen everywhere.
OnLoadObservation(r, e, kind, at) ==
    LET counts == /\ r.configs.known
                  /\ Cardinality(DOMAIN r.configs.roles) = 1
                  /\ e.load \in DOMAIN r.loads
                  /\ ~r.loads[e.load].authoritative
    IN  [Append1(r, kind, at) EXCEPT
            !.loads = IF counts
                      THEN [@ EXCEPT ![e.load].observed = @ + 1,
                                     ![e.load].last = r.events]
                      ELSE @]

\* RememberTransactionLoadSnapshot: the newest revision wins (revision 0 stands
\* for a snapshot that carries none), and a completion is never forgotten.
OnLoadSnapshot(r, e, completed) ==
    LET table == LoadTable(r, e.load)
        live  == table[e.load]
        older == e.revision # 0 /\ live.authoritative /\ e.revision < live.revision
        mute  == e.revision = 0 /\ live.authoritative /\ ~completed
    IN  [r EXCEPT !.loads =
           IF older
           THEN [table EXCEPT ![e.load].completed = live.completed \/ completed]
           ELSE IF mute THEN table
           ELSE [table EXCEPT ![e.load] =
                   [live EXCEPT !.revision = IF e.revision = 0 THEN @ ELSE e.revision,
                                !.authoritative = TRUE,
                                !.completed = live.completed \/ completed,
                                !.attempted = e.attempted,
                                !.last = r.events]]]

OnLoadCompleted(r, e, at) == Append1(OnLoadSnapshot(r, e, TRUE), "load_summaries", at)

OnWorkloadState(r, e) == [r EXCEPT !.workloads = Updated(@, e.workload, e.state)]

\* A partition is the same one whichever of its groups is named first.
PartitionKey(e) == {e.groupA, e.groupB}
OnPartition(r, e, at) ==
    [Append1(r, "partitions", at) EXCEPT !.partitions = @ \cup {PartitionKey(e)}]
OnHeal(r, e, at) ==
    [Append1(r, "heals", at) EXCEPT !.partitions = @ \ {PartitionKey(e)}]

OnEdgeUpdate(r, e, at) ==
    [Append1(r, "edges", at) EXCEPT
        !.edges = [known |-> TRUE,
                   active |-> IF e.up THEN @.active \cup {e.edge} ELSE @.active \ {e.edge}]]

\* The published inventory replaces the node set; what was learnt of a node
\* that stays in it is kept.
OnGeneration(r, e) ==
    LET ids == DOMAIN e.roles
    IN  [r EXCEPT
           !.nodes = [n \in ids |-> [NodeOf(r, n) EXCEPT !.role = e.roles[n],
                                                         !.state = "RUNNING"]],
           !.active = [known |-> TRUE, ids |-> ids],
           !.configs = [known |-> TRUE, roles |-> e.roles],
           !.edges = [known |-> TRUE, active |-> e.edges],
           !.inventory = "complete",
           !.generation = e.generation]

\* The published roles must fit the node configurations the report holds.
RoleFits(r, e) == r.configs.known /\ e.nodes = DOMAIN r.configs.roles
OnRoleGeneration(r, e) ==
    LET role(n) == IF n \in e.miners THEN "miner" ELSE "base"
    IN  [r EXCEPT
           !.configs.roles = [n \in DOMAIN @ |-> role(n)],
           !.nodes = [n \in DOMAIN @ \cup e.nodes |->
                        IF n \in e.nodes THEN [NodeOf(r, n) EXCEPT !.role = role(n)]
                        ELSE r.nodes[n]],
           !.miners = e.miners]

\* Mutant: a wallet keeps the totals of its index.
TotalsByIndex(r, e) ==
    LET indexes == 1..Len(e.wallets)
    IN  [r EXCEPT
           !.wallets = [w \in indexes |->
                          [WalletOf(r, w) EXCEPT !.node = e.wallets[w].node,
                                                 !.address = e.wallets[w].address]],
           !.walletNodes = [known |-> TRUE,
                            map |-> [w \in indexes |-> e.wallets[w].node]]]

\* The published wallets replace the wallet table; a wallet keeps its totals
\* under its new index, found by its address.
OnWalletGeneration(r, e) ==
    LET indexes == 1..Len(e.wallets)
        priors(w) == {k \in DOMAIN r.wallets : r.wallets[k].address = e.wallets[w].address}
        kept(w) == IF priors(w) = {} THEN FreshWallet ELSE r.wallets[Min(priors(w))]
    IN  [r EXCEPT
           !.wallets = [w \in indexes |-> [kept(w) EXCEPT !.node = e.wallets[w].node,
                                                          !.address = e.wallets[w].address]],
           !.walletNodes = [known |-> TRUE,
                            map |-> [w \in indexes |-> e.wallets[w].node]]]

OnWalletAddress(r, e) ==
    [r EXCEPT !.wallets =
       Updated(@, e.wallet, [WalletOf(r, e.wallet) EXCEPT !.node = e.node, !.address = e.address])]

OnWalletFunding(r, e, at) ==
    [Append1(r, "funding", at) EXCEPT !.wallets =
       Updated(@, e.wallet, [WalletOf(r, e.wallet) EXCEPT !.node = e.node,
                                                       !.address = e.address,
                                                       !.funded = TRUE])]

TargetOf(r, a) == IF a \in DOMAIN r.targets THEN r.targets[a]
                  ELSE [active |-> FALSE, payments |-> 0]

\* A payment between wallets moves both totals, one to a target address the
\* sender's and the target's; either wallet takes its node and address from it.
Paid(wallets, w, by, total) ==
    LET old == IF w \in DOMAIN wallets THEN wallets[w] ELSE FreshWallet
    IN  Updated(wallets, w, [old EXCEPT ![total] = @ + 1, !.node = by.node,
                                        !.address = by.address])
OnWalletTransaction(r, e, at) ==
    LET sent == Paid(r.wallets, e.from, e.sender, "sent")
    IN  [Append1(r, "transactions", at) EXCEPT
            !.wallets = IF e.to = 0 THEN sent ELSE Paid(sent, e.to, e.receiver, "received"),
            !.targets = IF e.to = 0
                        THEN Updated(@, e.target, [TargetOf(r, e.target) EXCEPT !.payments = @ + 1])
                        ELSE @]

\* RememberTargetAddressCommand, AppendOperatorCommandSummary and
\* ApplyBlockProductionPolicyEvent for a completed command.
OnCommandCompleted(r, e, at) ==
    [Append1(r, "commands", at) EXCEPT
        !.targets = IF e.command \in {"add_target", "remove_target"}
                    THEN Updated(@, e.target, [TargetOf(r, e.target) EXCEPT
                                               !.active = e.command = "add_target"])
                    ELSE @,
        !.blockPolicy = IF e.command = "set_policy" THEN e.policy ELSE @]

OnCommandFailed(r, e, at) == OnNodeError(Append1(r, "commands", at), e)

\* The record makes the callback throw: the refresh ends with an error, and the
\* record is met again by the next one.
ReportThrows(r, e) == e.kind = "role_generation" /\ ~RoleFits(r, e)

Replayed(r, e, at) ==
    CASE e.kind = "mark"            -> OnRunMark(r, e)
      [] e.kind = "node_error"      -> OnNodeError(r, e)
      [] e.kind = "node_state"      -> OnNodeState(r, e)
      [] e.kind = "rpc_ready"       -> OnRpcReady(r, e)
      [] e.kind = "log_tail"        -> OnLogTail(r, e)
      [] e.kind = "blocks"          -> OnBlocks(r, e, at)
      [] e.kind = "load_attempt"    -> OnLoadAttempt(r, e, at)
      [] e.kind = "visible"         -> OnLoadObservation(r, e, "visibility", at)
      [] e.kind = "confirmed"       -> OnLoadObservation(r, e, "confirmations", at)
      [] e.kind = "load_progress"   -> OnLoadSnapshot(r, e, FALSE)
      [] e.kind = "load_completed"  -> OnLoadCompleted(r, e, at)
      [] e.kind = "workload_state"  -> OnWorkloadState(r, e)
      [] e.kind = "partition"       -> OnPartition(r, e, at)
      [] e.kind = "heal"            -> OnHeal(r, e, at)
      [] e.kind = "edge"            -> OnEdgeUpdate(r, e, at)
      [] e.kind = "generation"      -> OnGeneration(r, e)
      [] e.kind = "role_generation" -> OnRoleGeneration(r, e)
      [] e.kind = "wallet_generation" -> OnWalletGeneration(r, e)
      [] e.kind = "wallet_address"  -> OnWalletAddress(r, e)
      [] e.kind = "wallet_funding"  -> OnWalletFunding(r, e, at)
      [] e.kind = "wallet_transaction" -> OnWalletTransaction(r, e, at)
      [] e.kind = "command_completed" -> OnCommandCompleted(r, e, at)
      [] e.kind = "command_failed"  -> OnCommandFailed(r, e, at)
      [] OTHER                      -> r

ProcessEvent(r, e, at) == Replayed([r EXCEPT !.events = @ + 1], e, at)

\* A sample counts for a node of the active inventory only; its rate needs an
\* earlier sample whose counter was not higher (a restarted daemon counts from
\* zero again).
Rate(node, m) == IF node.previous = 0 \/ m.counter < node.previous THEN -1
                 ELSE m.counter - node.previous
ProcessMetric(r, m) ==
    IF r.active.known /\ m.node \notin r.active.ids
    THEN [r EXCEPT !.metrics = @ + 1]
    ELSE LET node == NodeOf(r, m.node)
         IN  [r EXCEPT
                !.metrics = @ + 1,
                !.nodes = Updated(@, m.node,
                    [node EXCEPT !.role = IF @ = "none" THEN "base" ELSE @,
                                 !.samples = @ + 1,
                                 !.history = Newest(Append(@, Rate(node, m)), MaxSamples),
                                 !.previous = m.counter])]

ProcessWalletMetric(r, m) ==
    IF /\ r.walletNodes.known
       /\ \/ m.wallet \notin DOMAIN r.walletNodes.map
          \/ r.walletNodes.map[m.wallet] # m.node
    THEN r
    ELSE [r EXCEPT !.wallets =
            Updated(@, m.wallet, [WalletOf(r, m.wallet) EXCEPT !.node = m.node,
                                                            !.metric = m.value])]

\* RecoverCapacityFromManifest: a manifest whose entries are all settled is the
\* authority on which nodes exist; the rest of what the report says of the
\* inventory is withdrawn when the events do not agree with it.
RecoverFromManifest(r, manifest) ==
    LET published == IF r.active.known THEN r.active.ids
                     ELSE IF r.configs.known THEN DOMAIN r.configs.roles ELSE {}
        live == manifest.live
    IN  IF ~manifest.present \/ ~manifest.settled THEN r
        ELSE IF published = live THEN [r EXCEPT !.active = [known |-> TRUE, ids |-> live]]
        ELSE [r EXCEPT !.active = [known |-> TRUE, ids |-> live],
                       !.inventory = "incomplete",
                       !.generation = 0,
                       !.configs = [known |-> FALSE, roles |-> NoFunction],
                       !.edges = [known |-> FALSE, active |-> {}],
                       !.nodes = [n \in DOMAIN @ \cap live |-> @[n]]]

\* UpdateReport: the status and the summaries a frontend reads.
Finished(r) == /\ {"started", "finished"} \subseteq r.marks
               /\ {"failed", "cancelled"} \cap r.marks = {}
               /\ r.inventory # "incomplete"
Status(r) == IF "failed" \in r.marks THEN "failed"
             ELSE IF "cancelled" \in r.marks THEN "cancelled"
             ELSE IF Finished(r) THEN "finished" ELSE "incomplete"
\* SeedConfiguredNodes: the configured role of a node the report knows.
Seeded(r) == [n \in DOMAIN r.nodes |->
                IF r.configs.known /\ n \in DOMAIN r.configs.roles
                THEN [r.nodes[n] EXCEPT !.role = r.configs.roles[n]] ELSE r.nodes[n]]
View(r) == [state |-> [r EXCEPT !.nodes = Seeded(r)], status |-> Status(r)]

-----------------------------------------------------------------------------
(* BuildRunReport: a new report that reads everything once.                 *)

FoldEvents(r, recs) ==
    FoldLeftDomain(LAMBDA acc, i : ProcessEvent(acc, recs[i], i), r, recs)
FoldMetrics(r, recs) == FoldLeft(ProcessMetric, r, recs)
FoldWalletMetrics(r, recs) == FoldLeft(ProcessWalletMetric, r, recs)

Rebuilt(f) ==
    FoldWalletMetrics(
        FoldMetrics(
            RecoverFromManifest(
                FoldEvents(FreshReport(f.scenario, NoWalletNodes), f.events.recs),
                f.manifest),
            f.metrics.recs),
        f.walletMetrics.recs)

-----------------------------------------------------------------------------
(* The simulator appends.  An operation on the inventory commits the        *)
(* manifest and then owes the events that publish it: an addition under the *)
(* publication lock, a removal after it has released it.                    *)

GenerationEvent(live, g) ==
    [kind |-> "generation", roles |-> [n \in live |-> "base"], edges |-> {}, generation |-> g]
RoleEvent(live, miners) == [kind |-> "role_generation", nodes |-> live, miners |-> miners]
Publication(live, g) == <<GenerationEvent(live, g), RoleEvent(live, {})>>

\* A run that has grown has had its later nodes added to it.
InitReport ==
    \E b \in ReportBudgets :
        /\ reportBudget = b
        /\ files = [scenario |-> 1,
                    events |-> [inode |-> 1, torn |-> FALSE,
                                recs |-> <<[kind |-> "mark", mark |-> "started"]>>
                                         \o IF b.grown THEN Publication(ReportNodes, 1) ELSE <<>>],
                    metrics |-> [inode |-> 1, recs |-> <<>>],
                    walletMetrics |-> [inode |-> 1, recs |-> <<>>],
                    manifest |-> [present |-> b.focus = "inventory", settled |-> TRUE,
                                  live |-> IF b.grown THEN ReportNodes ELSE FirstNodes]]
        /\ world = [live |-> files.manifest.live, past |-> {}, adding |-> "none", leaving |-> FALSE,
                    owed |-> <<>>, generation |-> 1, lost |-> FALSE,
                    wallets |-> <<[node |-> 1, address |-> "a1"], [node |-> 2, address |-> "a2"]>>,
                    written |-> 0, ended |-> FALSE]
        /\ report = FreshReport(1, NoWalletNodes)
        /\ shown = View(FreshReport(1, NoWalletNodes))
        /\ frontend = View(FreshReport(1, NoWalletNodes))
        /\ refresh = [pc |-> "idle", outcome |-> "none", remembered |-> 1, loaded |-> 0,
                      at |-> [events |-> 0, metrics |-> 0, walletMetrics |-> 0],
                      inode |-> [events |-> 0, metrics |-> 0, walletMetrics |-> 0],
                      dirty |-> FALSE, changed |-> FALSE, backlog |-> FALSE,
                      seen |-> [present |-> FALSE, settled |-> FALSE, live |-> {}]]

Writing(focus) == /\ ~world.ended
                  /\ reportBudget.focus = focus
                  /\ world.written < reportBudget.records
                  /\ reportBudget.calm => refresh.pc = "idle"
                  /\ ~files.events.torn
Wrote == world' = [world EXCEPT !.written = @ + 1]
ReportReaders == <<report, shown, frontend, refresh>>

\* A line may be seen before its newline is there.
AppendEvent(e) == files' = [files EXCEPT !.events.recs = Append(@, e)]
TearLine ==
    /\ reportBudget.torn > 0 /\ ~files.events.torn /\ ~world.ended
    /\ files' = [files EXCEPT !.events.torn = TRUE]
    /\ reportBudget' = [reportBudget EXCEPT !.torn = @ - 1]
    /\ UNCHANGED <<world, ReportReaders>>
CompleteLine ==
    /\ files.events.torn
    /\ files' = [files EXCEPT !.events.torn = FALSE,
                             !.events.recs = Append(@, [kind |-> "unknown"])]
    /\ UNCHANGED <<world, ReportReaders, reportBudget>>

\* A publication holds the publication lock, which a refresh in the same process
\* holds too; a reader in another process has no such lock.
Unlocked == reportBudget.locked => refresh.pc = "idle"

Resting == world.owed = <<>> /\ ~world.leaving /\ files.manifest.settled

CommitNodeAdd(n) ==
    /\ Writing("inventory") /\ Unlocked /\ Resting
    /\ n \in LaterNodes \ (world.live \cup world.past)
    /\ files' = [files EXCEPT !.manifest.live = @ \cup {n}]
    /\ world' = [world EXCEPT !.live = @ \cup {n}, !.generation = @ + 1, !.adding = n,
                    !.owed = Publication(world.live \cup {n}, world.generation + 1),
                    !.written = @ + 1]
    /\ UNCHANGED <<ReportReaders, reportBudget>>

\* The manifest lists the node as being removed; the inventory without it is
\* published under the lock; what the node held is cleaned up and the manifest
\* settled without the lock.
BeginNodeRemoval ==
    /\ Writing("inventory") /\ Resting /\ world.live \cap LaterNodes # {}
    /\ files' = [files EXCEPT !.manifest.settled = FALSE]
    /\ UNCHANGED <<world, ReportReaders, reportBudget>>
CommitNodeRemoval(n) ==
    /\ ~world.ended /\ Unlocked /\ ~files.manifest.settled /\ ~world.leaving /\ ~world.lost
    /\ n \in world.live \cap LaterNodes
    /\ world' = [world EXCEPT !.live = @ \ {n}, !.past = @ \cup {n}, !.leaving = TRUE,
                              !.generation = @ + 1, !.written = @ + 1]
    /\ UNCHANGED <<files, ReportReaders, reportBudget>>
FinishNodeRemoval ==
    /\ world.leaving
    /\ files' = [files EXCEPT !.manifest.live = world.live, !.manifest.settled = TRUE]
    /\ world' = [world EXCEPT !.leaving = FALSE,
                              !.owed = Publication(world.live, world.generation)]
    /\ UNCHANGED <<ReportReaders, reportBudget>>

PublishOwed ==
    /\ world.owed # <<>> /\ ~files.events.torn
    /\ AppendEvent(Head(world.owed))
    /\ world' = [world EXCEPT !.owed = Tail(@),
                              !.adding = IF Len(world.owed) = 1 THEN "none" ELSE @]
    /\ UNCHANGED <<ReportReaders, reportBudget>>

\* The cleanup of a removed node or the write of a publication event fails; the
\* rest is skipped and the operation is reported as unconfirmed.
LosePublication ==
    /\ (world.owed # <<>> \/ world.leaving) /\ reportBudget.faults > 0
    /\ world' = [world EXCEPT !.owed = <<>>, !.lost = TRUE, !.adding = "none", !.leaving = FALSE]
    /\ reportBudget' = [reportBudget EXCEPT !.faults = @ - 1]
    /\ UNCHANGED <<files, ReportReaders>>

ChangeRoles ==
    /\ Writing("inventory") /\ Unlocked /\ Resting
    /\ AppendEvent(RoleEvent(world.live, FirstNodes))
    /\ Wrote
    /\ UNCHANGED <<ReportReaders, reportBudget>>

\* Events and samples of a node are written from snapshots of the inventory, also
\* after the node has been removed: a command that failed, a sample or a log that
\* was being read.  What a node that is being added reports is held back until
\* it is published.
Heard(n) == n \in (world.live \cup world.past) \ {world.adding}
NodeReports(n) ==
    /\ Writing("inventory") /\ Heard(n)
    /\ \/ AppendEvent([kind |-> "node_error", node |-> n, error |-> "exited"])
       \/ AppendEvent([kind |-> "rpc_ready", node |-> n])
    /\ Wrote
    /\ UNCHANGED <<ReportReaders, reportBudget>>

\* A counter may have gone back since the last sample.
SampleNode(n) ==
    /\ Writing("inventory") /\ Heard(n)
    /\ files' = [files EXCEPT !.metrics.recs =
                    Append(@, [node |-> n, counter |-> 1 + (world.written % 2)])]
    /\ Wrote
    /\ UNCHANGED <<ReportReaders, reportBudget>>

WalletEvents ==
    LET known == 1..Len(world.wallets)
        of(w) == world.wallets[w]
    IN  UNION {
          {[kind |-> "wallet_address", wallet |-> w, node |-> of(w).node, address |-> of(w).address] : w \in known},
          {[kind |-> "wallet_funding", wallet |-> w, node |-> of(w).node, address |-> of(w).address] : w \in known},
          {[kind |-> "wallet_transaction", from |-> w, sender |-> of(w), to |-> w - 1,
            receiver |-> IF w = 1 THEN of(w) ELSE of(w - 1), target |-> "t1"] : w \in known}}
WalletActs ==
    /\ Writing("wallets")
    /\ \E e \in WalletEvents : AppendEvent(e)
    /\ Wrote
    /\ UNCHANGED <<ReportReaders, reportBudget>>
RemoveWallet ==
    /\ Writing("wallets") /\ Unlocked /\ Len(world.wallets) > 1
    /\ AppendEvent([kind |-> "wallet_generation", wallets |-> Tail(world.wallets)])
    /\ world' = [world EXCEPT !.wallets = Tail(@), !.written = @ + 1]
    /\ UNCHANGED <<ReportReaders, reportBudget>>
SampleWallet ==
    /\ Writing("wallets")
    /\ \E w \in 1..Len(world.wallets) :
          files' = [files EXCEPT !.walletMetrics.recs =
                      Append(@, [wallet |-> w, node |-> world.wallets[w].node,
                                 value |-> world.written + 1])]
    /\ Wrote
    /\ UNCHANGED <<ReportReaders, reportBudget>>

LoadEvents ==
    UNION {
      {[kind |-> k, load |-> 1] : k \in {"load_attempt", "visible", "confirmed"}},
      {[kind |-> "load_attempt", load |-> 2]},
      {[kind |-> k, load |-> 1, revision |-> v, attempted |-> v] :
          k \in {"load_progress", "load_completed"}, v \in 0..2},
      {[kind |-> "load_progress", load |-> 2, revision |-> 1, attempted |-> 1]}}
LoadActs ==
    /\ Writing("load")
    /\ \E e \in LoadEvents : AppendEvent(e)
    /\ Wrote
    /\ UNCHANGED <<ReportReaders, reportBudget>>

OtherEvents ==
    UNION {
      {[kind |-> k, groupA |-> g[1], groupB |-> g[2]] :
          k \in {"partition", "heal"}, g \in {<<{1}, {2}>>, <<{2}, {1}>>}},
      {[kind |-> "edge", edge |-> <<1, 2>>, up |-> b] : b \in BOOLEAN},
      {[kind |-> "workload_state", workload |-> "w1", state |-> x] : x \in {"running", "stopped"}},
      {[kind |-> "log_tail", node |-> "n1", from |-> f, to |-> f + 2, reset |-> b] :
          f \in {0, 2}, b \in BOOLEAN},
      {[kind |-> "command_completed", command |-> c, target |-> "t1", policy |-> 1] :
          c \in {"add_target", "remove_target", "set_policy"}},
      {[kind |-> "command_failed", node |-> "n1", error |-> "rollback"],
       [kind |-> "node_state", node |-> "n1", state |-> "STOPPED"],
       [kind |-> "rpc_ready", node |-> "n1"],
       [kind |-> "blocks"],
       [kind |-> "wallet_transaction", from |-> 1, to |-> 0, target |-> "t1",
        sender |-> [node |-> 1, address |-> "a1"]]}}
OtherActs ==
    /\ Writing("other")
    /\ \E e \in OtherEvents : AppendEvent(e)
    /\ Wrote
    /\ UNCHANGED <<ReportReaders, reportBudget>>

\* PublishRuntimeCapacityDocuments replaces the resolved scenario.
RewriteScenario ==
    /\ reportBudget.rewrites > 0 /\ ~world.ended
    /\ files' = [files EXCEPT !.scenario = @ + 1]
    /\ reportBudget' = [reportBudget EXCEPT !.rewrites = @ - 1]
    /\ UNCHANGED <<world, ReportReaders>>

EndRun ==
    /\ ~world.ended /\ ~files.events.torn /\ (Resting \/ world.lost)
    /\ \E m \in reportBudget.ends : AppendEvent([kind |-> "mark", mark |-> m])
    /\ world' = [world EXCEPT !.ended = TRUE]
    /\ UNCHANGED <<ReportReaders, reportBudget>>

\* A file of an ended run is replaced as a whole, between two refreshes and after
\* the report has read it once.  (Refresh compares the identities of the files
\* when it starts: a replacement between that comparison and the reading, or of
\* a file whose first reading was cancelled, is not noticed.)
ReplaceInput ==
    /\ world.ended /\ reportBudget.replaces > 0
    /\ refresh.pc = "idle" /\ refresh.inode.events # 0
    /\ files' = [files EXCEPT !.events = [inode |-> @.inode + 1,
                                         recs |-> <<[kind |-> "mark", mark |-> "started"]>>,
                                         torn |-> FALSE]]
    /\ reportBudget' = [reportBudget EXCEPT !.replaces = @ - 1]
    /\ UNCHANGED <<world, ReportReaders>>

-----------------------------------------------------------------------------
(* Refresh.                                                                 *)

Inputs == {"events", "metrics", "walletMetrics"}
InputReplaced == \E f \in Inputs : refresh.inode[f] \notin {0, files[f].inode}

\* Under the lock no addition is half done when a refresh starts.
StartRefresh ==
    /\ refresh.pc = "idle"
    /\ reportBudget.locked => world.adding = "none"
    /\ reportBudget.errors > 0
    /\ refresh' = [refresh EXCEPT !.changed = FALSE, !.backlog = FALSE, !.outcome = "none",
                     !.pc = IF files.scenario # refresh.remembered \/ InputReplaced
                            THEN "reset" ELSE "events"]
    /\ UNCHANGED <<files, world, report, shown, frontend, reportBudget>>

LoadScenario ==
    /\ refresh.pc = "reset"
    /\ refresh' = [refresh EXCEPT !.pc = "clear", !.loaded = files.scenario]
    /\ UNCHANGED <<files, world, report, shown, frontend, reportBudget>>

\* The rest of Reset; what is remembered is the scenario file as it is now.
ResetReport ==
    /\ refresh.pc = "clear"
    /\ report' = FreshReport(refresh.loaded, report.walletNodes)
    /\ shown' = View(report')
    /\ refresh' = [refresh EXCEPT !.pc = "events", !.remembered = files.scenario,
                     !.at = [f \in Inputs |-> 0], !.inode = [f \in Inputs |-> 0],
                     !.dirty = FALSE, !.changed = TRUE]
    /\ UNCHANGED <<files, world, frontend, reportBudget>>

\* How many records of the file this refresh may take.
Batch(f) == Min({reportBudget.batch, Len(files[f].recs) - refresh.at[f]})

Taken(f, k) == SubSeq(files[f].recs, refresh.at[f] + 1, refresh.at[f] + k)
AfterEvents(k) ==
    FoldLeftDomain(LAMBDA acc, i : ProcessEvent(acc, files.events.recs[refresh.at.events + i],
                                                refresh.at.events + i),
                   report, Taken("events", k))

\* The first of the next records whose callback throws, or 0.
FirstThrow ==
    LET bad == {k \in 1..Batch("events") :
                  ReportThrows(AfterEvents(k - 1), files.events.recs[refresh.at.events + k])}
    IN  IF bad = {} THEN 0 ELSE Min(bad)

\* ConsumeFile: the position advances with every record that was applied.
Consumed(f, k, torn) ==
    [refresh EXCEPT !.at[f] = @ + k, !.inode[f] = files[f].inode,
                    !.dirty = @ \/ k > 0,
                    !.backlog = @ \/ refresh.at[f] + k < Len(files[f].recs) \/ torn]

ConsumeEvents ==
    /\ refresh.pc = "events" /\ FirstThrow = 0
    /\ report' = AfterEvents(Batch("events"))
    /\ LET done == Consumed("events", Batch("events"), files.events.torn)
       IN  refresh' = [done EXCEPT !.pc = IF done.backlog THEN "metrics" ELSE "manifest"]
    /\ UNCHANGED <<files, world, shown, frontend, reportBudget>>

\* The records before the one that throws stay applied; the one that throws has
\* been counted, and will be counted again.
ConsumeThrows ==
    /\ refresh.pc = "events" /\ FirstThrow # 0
    /\ report' = [AfterEvents(FirstThrow - 1) EXCEPT !.events = @ + 1]
    /\ refresh' = [refresh EXCEPT !.at.events = @ + FirstThrow - 1, !.dirty = TRUE,
                     !.pc = "idle", !.outcome = "error"]
    /\ reportBudget' = [reportBudget EXCEPT !.errors = @ - 1]
    /\ UNCHANGED <<files, world, shown, frontend>>

RecoverCapacity ==
    /\ refresh.pc = "manifest"
    /\ report' = RecoverFromManifest(report, files.manifest)
    /\ refresh' = [refresh EXCEPT !.pc = "metrics", !.dirty = @ \/ report' # report,
                                 !.seen = files.manifest]
    /\ UNCHANGED <<files, world, shown, frontend, reportBudget>>

ConsumeMetrics ==
    /\ refresh.pc = "metrics"
    /\ report' = FoldMetrics(report, Taken("metrics", Batch("metrics")))
    /\ refresh' = [Consumed("metrics", Batch("metrics"), FALSE) EXCEPT !.pc = "wallets"]
    /\ UNCHANGED <<files, world, shown, frontend, reportBudget>>

ConsumeWalletMetrics ==
    /\ refresh.pc = "wallets"
    /\ report' = FoldWalletMetrics(report, Taken("walletMetrics", Batch("walletMetrics")))
    /\ refresh' = [Consumed("walletMetrics", Batch("walletMetrics"), FALSE) EXCEPT !.pc = "update"]
    /\ UNCHANGED <<files, world, shown, frontend, reportBudget>>

\* The end of Refresh, and the frontend that takes the snapshot only when the
\* report says it changed.
UpdateReport ==
    /\ refresh.pc = "update"
    /\ report' = IF refresh.dirty THEN [report EXCEPT !.nodes = Seeded(report)] ELSE report
    /\ shown' = IF refresh.dirty THEN View(report) ELSE shown
    /\ frontend' = IF refresh.dirty \/ refresh.changed THEN shown' ELSE frontend
    /\ refresh' = [refresh EXCEPT !.pc = "idle", !.outcome = "ok", !.dirty = FALSE,
                     !.changed = @ \/ refresh.dirty]
    /\ UNCHANGED <<files, world, reportBudget>>

\* The caller's stop token ends the refresh between two records or two steps.
CancelRefresh ==
    /\ refresh.pc # "idle" /\ reportBudget.cancels > 0
    /\ reportBudget' = [reportBudget EXCEPT !.cancels = @ - 1]
    /\ \/ /\ refresh.pc = "events" /\ FirstThrow = 0
          /\ \E k \in 0..Batch("events") :
               /\ report' = AfterEvents(k)
               /\ refresh' = [refresh EXCEPT !.at.events = @ + k, !.dirty = @ \/ k > 0,
                                            !.pc = "idle", !.outcome = "cancelled"]
       \/ /\ refresh.pc # "events"
          /\ refresh' = [refresh EXCEPT !.pc = "idle", !.outcome = "cancelled"]
          /\ UNCHANGED report
    /\ UNCHANGED <<files, world, shown, frontend>>

WriterStep ==
    \/ TearLine \/ CompleteLine \/ BeginNodeRemoval \/ FinishNodeRemoval \/ PublishOwed \/ LosePublication
    \/ ChangeRoles \/ WalletActs \/ RemoveWallet \/ SampleWallet \/ LoadActs \/ OtherActs
    \/ RewriteScenario \/ EndRun \/ ReplaceInput
    \/ \E n \in ReportNodes : \/ CommitNodeAdd(n) \/ CommitNodeRemoval(n)
                              \/ NodeReports(n) \/ SampleNode(n)
RefreshStep ==
    \/ StartRefresh \/ LoadScenario \/ ResetReport \/ ConsumeEvents \/ ConsumeThrows
    \/ RecoverCapacity \/ ConsumeMetrics \/ ConsumeWalletMetrics \/ UpdateReport

ReportNext == WriterStep \/ RefreshStep \/ CancelRefresh

-----------------------------------------------------------------------------
(* Properties.                                                              *)

ReportTypeOK ==
    /\ refresh.pc \in {"idle", "reset", "clear", "events", "manifest", "metrics", "wallets", "update"}
    /\ \A f \in Inputs : refresh.at[f] \in Nat
    /\ DOMAIN report.nodes \subseteq ReportNodes \cup {"n1"}
    /\ \A k \in SummaryKinds : Len(report.summaries[k]) <= MaxSummaries
    /\ Cardinality(DOMAIN report.loads) <= MaxSummaries

\* The report has read every file to its end and nothing has changed since.
CaughtUp ==
    /\ refresh.pc = "idle" /\ refresh.outcome = "ok" /\ ~refresh.backlog
    /\ \A f \in Inputs : refresh.at[f] = Len(files[f].recs) /\ refresh.inode[f] = files[f].inode
    /\ files.scenario = refresh.remembered /\ ~files.events.torn
    /\ files.manifest = refresh.seen /\ files.manifest.settled

EventNode(n) == [n EXCEPT !.samples = 0, !.history = <<>>, !.previous = 0, !.role = "none"]
\* While the publication of a removal is owed or when it was lost, a report that
\* has noticed the removal keeps what is written of the node since, and a new one
\* leaves it out.
ComparedNodes(r) == IF world.lost \/ world.owed # <<>> THEN DOMAIN r.nodes \ world.past
                    ELSE DOMAIN r.nodes
EventPart(r) ==
    [r EXCEPT !.nodes = [n \in ComparedNodes(r) |-> EventNode(@[n])],
              !.wallets = [w \in DOMAIN @ |-> [@[w] EXCEPT !.metric = 0]],
              !.walletNodes = NoWalletNodes, !.scenario = 0]

\* Reading in batches, between the writer's appends, through cancellations,
\* rewritten scenarios and replaced files, gives what one reading of the files
\* gives: IncrementalRunReport and BuildRunReport agree on all that the events
\* and the manifest say.
CaughtUpIsRebuilt == CaughtUp => EventPart(report) = EventPart(Rebuilt(files))

\* Of the samples the incremental reader may lose those it meets before the
\* event that publishes their node; it never counts one twice.
SamplesAreNotInvented ==
    CaughtUp => /\ ComparedNodes(report) = ComparedNodes(Rebuilt(files))
                /\ report.metrics = Rebuilt(files).metrics
                /\ \A n \in ComparedNodes(report) :
                      report.nodes[n].samples <= Rebuilt(files).nodes[n].samples

\* A frontend that keeps its snapshot whenever a refresh says the report did not
\* change shows the report, also after a refresh that was cancelled half way.
FrontendIsCurrent ==
    refresh.pc = "idle" /\ refresh.outcome = "ok" => frontend = View(report)

\* A refresh that holds the publication lock fails only after a publication
\* event was lost: never because the manifest is ahead of the events read so
\* far.  (A reader in another process has no lock and can meet the roles of an
\* inventory it has already withdrawn.)
OnlyALostPublicationSticks ==
    refresh.outcome = "error" /\ reportBudget.locked => world.lost

\* A run whose inventory was never published in full is not reported finished.
FinishedIsComplete ==
    CaughtUp /\ files.manifest.present /\ frontend.status = "finished"
        => /\ frontend.state.configs.known
           /\ DOMAIN frontend.state.configs.roles = files.manifest.live

\* A wallet's totals are those of its address, whatever index it has after
\* other wallets were removed.
TotalsFollowTheAddress ==
    CaughtUp =>
        \A w \in DOMAIN report.wallets :
            report.wallets[w].address # "none" =>
                report.wallets[w].sent =
                    Cardinality({i \in DOMAIN files.events.recs :
                        /\ files.events.recs[i].kind = "wallet_transaction"
                        /\ files.events.recs[i].sender.address = report.wallets[w].address})

\* The configurations a frontend sees are those of the active inventory, or they
\* are withheld.  A node outside that inventory is shown only because something
\* was written about it after it was removed, and with nothing but that: none of
\* the samples and not the role of its former life.
ShownInventoryIsConsistent ==
    LET r == shown.state IN
    r.active.known /\ ~world.lost =>
        /\ r.configs.known => DOMAIN r.configs.roles = r.active.ids
        /\ \A n \in DOMAIN r.nodes \ r.active.ids :
              n \in world.past /\ r.nodes[n].samples = 0 /\ r.nodes[n].role = "none"

\* A load's totals never go back to an older revision, and a completed load
\* stays completed, until the report is replayed from the start.
RevisionNeverFalls ==
    [][ResetReport \/
       \A l \in DOMAIN report.loads \cap DOMAIN report'.loads :
          /\ report'.loads[l].revision >= report.loads[l].revision
          /\ report.loads[l].completed => report'.loads[l].completed]_reportVars

\* Every line that was written is replayed in the end.
ReportCatchesUp ==
    []<>(\/ \A f \in Inputs : refresh.at[f] = Len(files[f].recs)
         \/ world.lost)

\* The report of a run is the one a full replay of its files would build once
\* it has caught up, invents no sample, shows an inventory that is consistent
\* and is complete when it says finished.
ReportCorrect ==
    /\ ReportTypeOK
    /\ CaughtUpIsRebuilt
    /\ SamplesAreNotInvented
    /\ FrontendIsCurrent
    /\ OnlyALostPublicationSticks
    /\ FinishedIsComplete
    /\ TotalsFollowTheAddress
    /\ ShownInventoryIsConsistent

=============================================================================
