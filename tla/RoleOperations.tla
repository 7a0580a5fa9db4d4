--------------------------- MODULE RoleOperations ---------------------------
(***************************************************************************)
(* The live role operations of a run (wallet.add, wallet.remove,           *)
(* miner.add, miner.remove, masternode.add, masternode.remove and          *)
(* masternode.restart), the role registry they publish to                  *)
(* (RuntimeWalletRegistry) and the scheduled block producer whose miners   *)
(* they change (ProbabilisticBlockScheduler), with its thread.             *)
(*                                                                         *)
(* The node mutation lock serialises the role operations, the operator     *)
(* commands that stop a miner and the lifecycle supervisor, so one         *)
(* operation runs at a time; the block producer, the nodes' processes, the *)
(* wallet workloads and the caller's cancellation run beside it.           *)
(***************************************************************************)
EXTENDS Integers, Sequences, FiniteSets, FiniteSetsExt, SequencesExt

CONSTANTS
    RoleNodes,      \* the nodes, numbered as the inventory numbers them
    WalletCapable,  \* nodes started with wallet support
    FirstWallets,   \* wallet nodes of the scenario
    FirstMiners,    \* miner nodes of the scenario, in configured order
    MinerOverlap,   \* allow_miner_wallet_overlap
    RoleRequests,   \* the requests a client may send
    RoleBudgets     \* how many requests, faults and crashes a run sees

RoleKinds == {"wallet.add", "wallet.remove", "miner.add", "miner.remove",
              "masternode.add", "masternode.remove", "masternode.restart",
              "mining.stop"}

ASSUME RoleAssumption ==
    /\ RoleNodes \subseteq Nat \ {0}
    /\ IsFiniteSet(RoleNodes)
    /\ WalletCapable \subseteq RoleNodes
    /\ FirstWallets \subseteq WalletCapable
    /\ Range(FirstMiners) \subseteq RoleNodes
    /\ MinerOverlap \in BOOLEAN
    /\ \A r \in RoleRequests :
          /\ r.kind \in RoleKinds
          /\ Range(r.nodes) \subseteq RoleNodes
          /\ r.count \in Nat

VARIABLES
    known,      \* nodes of the inventory
    roles,      \* the published generation of the role registry
    configured, \* miner_node_ids, the configured miners
    scheduler,  \* slots of the block scheduler and its flags
    producing,  \* the slot whose production handler runs, or NoBlock
    alive,      \* nodes whose daemon runs
    daemon,     \* nodes whose configuration makes them a masternode
    chain,      \* what the chain says of a node's masternode registration
    walletJob,        \* wallet nodes a running wallet workload sends from
    ending,     \* the run was asked to stop
    op,         \* the operation that holds the node mutation lock
    shifted,    \* a miner was removed while another one's block was in flight
    roleBudget  \* requests, faults and crashes left

roleVars == <<known, roles, configured, scheduler, producing, alive, daemon,
              chain, walletJob, ending, op, shifted, roleBudget>>

NoBlock == [node |-> 0, index |-> 0]

\* The node mutation lock is free; the answer of the last operation stays on
\* record together with what the operation was and what it found.
NoOp == [kind |-> "none", nodes |-> <<>>, funder |-> 0, pc |-> "idle", i |-> 1,
         cancelled |-> FALSE, resume |-> {}, registered |-> {}, unknown |-> FALSE,
         restarted |-> FALSE, answer |-> "none",
         before |-> [roles |-> 0, daemon |-> {}, active |-> {}]]

RoleAnswers == {"none", "ok", "failed", "cancelled", "unconfirmed"}

-----------------------------------------------------------------------------
(* The scheduler's vectors: the ids, which are active and which in flight.  *)

IndexOf(ids, n) == CHOOSE i \in DOMAIN ids : ids[i] = n
ActiveMiners ==
    {scheduler.ids[i] : i \in {j \in DOMAIN scheduler.ids : scheduler.active[j]}}
InFlight(n) == scheduler.inflight[IndexOf(scheduler.ids, n)]

WithActive(s, n, b) == [s EXCEPT !.active[IndexOf(s.ids, n)] = b]

\* PrepareAddMinersInactive: the new miners are appended, inactive, idle.
WithMiners(s, ns) ==
    [s EXCEPT !.ids = @ \o ns,
              !.active = @ \o [i \in DOMAIN ns |-> FALSE],
              !.inflight = @ \o [i \in DOMAIN ns |-> FALSE]]

\* PrepareRemoveMiners: the slots that stay keep their order and their flags.
WithoutMiners(s, ns) ==
    LET Kept == SelectSeq([i \in DOMAIN s.ids |-> i], LAMBDA i : s.ids[i] \notin ns)
    IN  [s EXCEPT !.ids = [k \in DOMAIN Kept |-> s.ids[Kept[k]]],
                  !.active = [k \in DOMAIN Kept |-> s.active[Kept[k]]],
                  !.inflight = [k \in DOMAIN Kept |-> s.inflight[Kept[k]]],
                  !.pending = FALSE]

\* Run: with no membership change pending, an active miner is drawn and its
\* production handler is called without the scheduler's lock.
DrawMiner ==
    /\ ~scheduler.stopped /\ ~scheduler.pending
    /\ producing = NoBlock
    /\ \E i \in DOMAIN scheduler.ids :
          /\ scheduler.active[i]
          /\ scheduler' = [scheduler EXCEPT !.inflight[i] = TRUE]
          /\ producing' = [node |-> scheduler.ids[i], index |-> i]
    /\ UNCHANGED <<known, roles, configured, alive, daemon, chain, walletJob, ending, op,
                   shifted, roleBudget>>

\* The handler has returned, or failed and was reported: the slot with the
\* index drawn then is no longer in flight. Past the end of the vector the
\* write falls into the unused bits of its last word.
BlockDone ==
    /\ producing # NoBlock
    /\ producing' = NoBlock
    /\ scheduler' = IF producing.index \in DOMAIN scheduler.ids
                    THEN [scheduler EXCEPT !.inflight[producing.index] = FALSE]
                    ELSE scheduler
    /\ UNCHANGED <<known, roles, configured, alive, daemon, chain, walletJob, ending, op,
                   shifted, roleBudget>>

\* The failure could not be reported either: the thread ends.
SchedulerFails ==
    /\ producing # NoBlock /\ roleBudget.faults > 0
    /\ producing' = NoBlock
    /\ scheduler' = [scheduler EXCEPT
                        !.stopped = TRUE,
                        !.inflight = [i \in DOMAIN @ |->
                                         @[i] /\ i # producing.index]]
    /\ roleBudget' = [roleBudget EXCEPT !.faults = @ - 1]
    /\ UNCHANGED <<known, roles, configured, alive, daemon, chain, walletJob, ending, op,
                   shifted>>

-----------------------------------------------------------------------------
(* Admission: the lock, the snapshots and the checks made under the lock.   *)

Wallets == {n \in RoleNodes : roles.wallets[n] > 0}
Masternodes == {n \in RoleNodes : roles.funder[n] # 0}
Overlaps(n, others) == ~MinerOverlap /\ n \in others

\* The nodes an add takes by itself when the request names none.
EligibleNodes(kind) ==
    CASE kind = "wallet.add" ->
            {n \in known \cap WalletCapable : ~Overlaps(n, roles.miners)}
      [] kind = "miner.add" ->
            {n \in known \cap alive : n \notin roles.miners /\ ~Overlaps(n, Wallets)}
      [] OTHER -> {n \in known \cap alive : n \notin Masternodes \cup daemon}

Lowest(S, k) == {n \in S : Cardinality({m \in S : m < n}) < k}

\* The nodes of a request: the ones it names, or the first eligible ones.
\* miner.add prefers nodes without a wallet.
Selected(r) ==
    IF r.nodes # <<>> THEN r.nodes
    ELSE LET E == EligibleNodes(r.kind)
             P == IF r.kind = "miner.add" THEN E \ Wallets ELSE E
             first == Lowest(P, r.count)
         IN  SetToSortSeq(first \cup
                 Lowest(E \ P, r.count - Cardinality(first)),
                 LAMBDA a, b : a < b)

RunningMiner == roles.miners \cap alive # {}

\* A registered masternode names one of the wallets as its funding wallet.
FundsMasternode(S) == \E m \in Masternodes : roles.funder[m] \in S

\* wallet.add: no second wallet on a named node, no forbidden overlap, running.
WalletAddFits(r, S) ==
    /\ r.nodes # <<>> => S \cap Wallets = {}
    /\ \A n \in S : ~Overlaps(n, roles.miners)
    /\ S \subseteq WalletCapable \cap alive

\* wallet.remove: registered wallets nothing depends on.
WalletRemoveFits(S) ==
    /\ S \subseteq Wallets
    /\ ~FundsMasternode(S)
    /\ walletJob = {}

\* miner.add: running nodes that are no miners, no forbidden overlap.
MinerAddFits(S) ==
    /\ S \cap roles.miners = {}
    /\ \A n \in S : ~Overlaps(n, Wallets)
    /\ S \subseteq alive

\* miner.remove: miners, and never all of them.
MinerRemoveFits(S) == S \subseteq roles.miners /\ S # roles.miners

\* masternode.add: a running funding wallet, a running miner, and running
\* nodes that are no masternodes.
MasternodeAddFits(r, S) ==
    /\ r.funder \in Wallets \cap alive \cap WalletCapable
    /\ RunningMiner
    /\ S \cap (Masternodes \cup daemon) = {}
    /\ S \subseteq alive

Admissible(r, ns) ==
    LET S == Range(ns) IN
    /\ ns # <<>> /\ S \subseteq known
    /\ (r.nodes = <<>> => Len(ns) = r.count)
    /\ CASE r.kind = "wallet.add" -> WalletAddFits(r, S)
         [] r.kind = "wallet.remove" -> WalletRemoveFits(S)
         [] r.kind = "miner.add" -> MinerAddFits(S)
         [] r.kind = "miner.remove" -> MinerRemoveFits(S)
         [] r.kind = "masternode.add" -> MasternodeAddFits(r, S)
         [] r.kind = "masternode.remove" -> S \subseteq Masternodes \cap daemon /\ RunningMiner
         [] r.kind = "masternode.restart" -> S \subseteq Masternodes \cap daemon
         [] OTHER -> S \subseteq configured

\* The first step of an admitted operation.
FirstPlace(kind) ==
    CASE kind = "wallet.add" -> "address"
      [] kind \in {"wallet.remove", "miner.add"} -> "publish"
      [] kind = "miner.remove" -> "drain"
      [] kind = "masternode.add" -> "fund"
      [] kind = "masternode.remove" -> "revoke"
      [] OTHER -> "quiet"

\* An operation takes the lock, reads its snapshots and checks its selection.
\* miner.remove has told the scheduler of the change when it starts to wait.
Admit(r) ==
    /\ op.pc = "idle" /\ ~ending /\ roleBudget.requests > 0
    /\ ~r.create
    /\ roleBudget' = [roleBudget EXCEPT !.requests = @ - 1]
    /\ LET ns == Selected(r)
           start == [NoOp EXCEPT !.kind = r.kind, !.nodes = ns, !.funder = r.funder,
                                 !.before = [roles |-> roles, daemon |-> daemon,
                                             active |-> ActiveMiners]]
       IN  \/ /\ Admissible(r, ns)
              /\ op' = [start EXCEPT !.pc = FirstPlace(r.kind)]
              /\ scheduler' = [scheduler EXCEPT !.pending = @ \/ r.kind = "miner.remove"]
           \/ /\ ~Admissible(r, ns)
              /\ op' = [start EXCEPT !.answer = "failed"]
              /\ UNCHANGED scheduler
    /\ UNCHANGED <<known, roles, configured, producing, alive, daemon, chain, walletJob,
                   ending, shifted>>

WalletAdd(r) == r.kind = "wallet.add" /\ Admit(r)
WalletRemove(r) == r.kind = "wallet.remove" /\ Admit(r)
MinerAdd(r) == r.kind = "miner.add" /\ Admit(r)
MinerRemove(r) == r.kind = "miner.remove" /\ Admit(r)
MasternodeOperation(r) ==
    r.kind \in {"masternode.add", "masternode.remove", "masternode.restart"} /\ Admit(r)
StopMining(r) == r.kind = "mining.stop" /\ Admit(r)

\* The client cancels, or the operation's deadline passes.
CancelOp ==
    /\ op.pc # "idle" /\ ~op.cancelled /\ roleBudget.faults > 0
    /\ op' = [op EXCEPT !.cancelled = TRUE]
    /\ roleBudget' = [roleBudget EXCEPT !.faults = @ - 1]
    /\ UNCHANGED <<known, roles, configured, scheduler, producing, alive, daemon, chain,
                   walletJob, ending, shifted>>

Answer(a) == op' = [op EXCEPT !.pc = "idle", !.answer = a]

\* An outcome nobody can vouch for ends the run.
Unconfirmed ==
    /\ Answer("unconfirmed")
    /\ ending' = TRUE

Trouble == /\ roleBudget.faults > 0
           /\ roleBudget' = [roleBudget EXCEPT !.faults = @ - 1]

-----------------------------------------------------------------------------
(* Wallets and miners.                                                      *)

\* wallet.add asks every backing node for its addresses; the registry is not
\* touched before all of them have answered.
CreateAddress ==
    /\ op.pc = "address"
    /\ \/ /\ op.cancelled /\ Answer("cancelled") /\ UNCHANGED roleBudget
       \/ /\ ~op.cancelled /\ op.nodes[op.i] \notin alive
          /\ Answer("failed") /\ UNCHANGED roleBudget
       \/ ~op.cancelled /\ Trouble /\ Answer("failed")
       \/ /\ ~op.cancelled /\ op.nodes[op.i] \in alive
          /\ op' = IF op.i < Len(op.nodes) THEN [op EXCEPT !.i = @ + 1]
                   ELSE [op EXCEPT !.pc = "publish"]
          /\ UNCHANGED roleBudget
    /\ UNCHANGED <<known, roles, configured, scheduler, producing, alive, daemon, chain,
                   walletJob, ending, shifted>>

\* A node may carry several wallets; its role goes with all of them.
AddWallets(S) ==
    [roles EXCEPT !.wallets = [n \in RoleNodes |-> @[n] + (IF n \in S THEN 1 ELSE 0)]]
RemoveWalletNodes(S) ==
    [roles EXCEPT !.wallets = [n \in RoleNodes |-> IF n \in S THEN 0 ELSE @[n]]]
AddMinerNodes(S) == [roles EXCEPT !.miners = @ \cup S]
RemoveMinerNodes(S) == [roles EXCEPT !.miners = @ \ S]
AddMasternodes(S, f) ==
    [roles EXCEPT !.funder = [n \in RoleNodes |-> IF n \in S THEN f ELSE @[n]]]
RemoveMasternodeNodes(S) ==
    [roles EXCEPT !.funder = [n \in RoleNodes |-> IF n \in S THEN 0 ELSE @[n]]]

\* The registry the operation prepares from the generation it found.
NextRoles ==
    LET S == Range(op.nodes) IN
    CASE op.kind = "wallet.add" -> AddWallets(S)
      [] op.kind = "wallet.remove" -> RemoveWalletNodes(S)
      [] op.kind = "miner.add" -> AddMinerNodes(S)
      [] op.kind = "miner.remove" -> RemoveMinerNodes(S)
      [] op.kind = "masternode.add" -> AddMasternodes(S, op.funder)
      [] OTHER -> RemoveMasternodeNodes(S)

\* The prepared registry is committed unless the cancellation came first.
PublishWallets ==
    /\ op.pc = "publish" /\ op.kind \in {"wallet.add", "wallet.remove"}
    /\ \/ op.cancelled /\ Answer("cancelled") /\ UNCHANGED roles
       \/ /\ ~op.cancelled
          /\ op' = [op EXCEPT !.pc = "event"]
          /\ roles' = NextRoles
    /\ UNCHANGED <<known, configured, scheduler, producing, alive, daemon, chain, walletJob,
                   ending, shifted, roleBudget>>

\* miner.add: registry, scheduler and configured miners change under their
\* locks. An added miner stays inactive until the event is on disk.
PublishMiners ==
    /\ op.pc = "publish" /\ op.kind = "miner.add"
    /\ \/ /\ op.cancelled /\ Answer("cancelled")
          /\ UNCHANGED <<roles, configured, scheduler>>
       \/ /\ ~op.cancelled
          /\ op' = [op EXCEPT !.pc = "event"]
          /\ roles' = NextRoles
          /\ configured' = configured \cup Range(op.nodes)
          /\ scheduler' = WithMiners(scheduler, op.nodes)
    /\ UNCHANGED <<known, producing, alive, daemon, chain, walletJob, ending, shifted,
                   roleBudget>>

\* selected_in_flight: none of the requested miners has a block in flight.
BlocksDrained == \A n \in Range(op.nodes) : ~InFlight(n)

\* miner.remove waits until none of its miners has a block in flight, with the
\* registry's, the configured miners' and the publication lock held.
DrainMiners ==
    /\ op.pc = "drain"
    /\ \/ /\ op.cancelled /\ Answer("cancelled")
          /\ scheduler' = [scheduler EXCEPT !.pending = FALSE]
          /\ UNCHANGED <<roles, configured, shifted>>
       \/ /\ ~op.cancelled /\ BlocksDrained
          /\ op' = [op EXCEPT !.pc = "event"]
          /\ roles' = NextRoles
          /\ configured' = configured \ Range(op.nodes)
          /\ scheduler' = WithoutMiners(scheduler, Range(op.nodes))
          /\ shifted' = (shifted \/ producing # NoBlock)
    /\ UNCHANGED <<known, producing, alive, daemon, chain, walletJob, ending, roleBudget>>

\* The event of the new generation; miner.add then starts its miners. What
\* fails from here on is an unconfirmed outcome.
WriteRoleEvent ==
    /\ op.pc = "event"
    /\ \/ Trouble /\ Unconfirmed /\ UNCHANGED scheduler
       \/ /\ Answer("ok")
          /\ scheduler' = IF op.kind = "miner.add"
                          THEN [scheduler EXCEPT
                                   !.active = [i \in DOMAIN @ |->
                                       @[i] \/ scheduler.ids[i] \in Range(op.nodes)]]
                          ELSE scheduler
          /\ UNCHANGED <<ending, roleBudget>>
    /\ UNCHANGED <<known, roles, configured, producing, alive, daemon, chain, walletJob,
                   shifted>>

FinishWalletAdd == op.kind = "wallet.add" /\ WriteRoleEvent
FinishWalletRemove == op.kind = "wallet.remove" /\ WriteRoleEvent
FinishMinerAdd == op.kind = "miner.add" /\ WriteRoleEvent
FinishMinerRemove == op.kind = "miner.remove" /\ WriteRoleEvent
FinishMasternodeAdd == op.kind = "masternode.add" /\ WriteRoleEvent
FinishMasternodeRemove == op.kind = "masternode.remove" /\ WriteRoleEvent

\* create_node: AddRuntimeNodesTransactional brings up a new node and publishes
\* it with its role in one step, or leaves nothing behind, or does not know.
CreateNode(r) ==
    /\ op.pc = "idle" /\ ~ending /\ roleBudget.requests > 0
    /\ r.create
    /\ \E n \in RoleNodes \ known :
       LET made == [NoOp EXCEPT !.kind = r.kind, !.nodes = <<n>>, !.funder = r.funder,
                                !.before = [roles |-> roles, daemon |-> daemon,
                                            active |-> ActiveMiners]]
       IN  \/ /\ roleBudget.faults > 0
              /\ roleBudget' = [roleBudget EXCEPT !.requests = @ - 1, !.faults = @ - 1]
              /\ \E a \in {"failed", "cancelled", "unconfirmed"} :
                    /\ op' = [made EXCEPT !.answer = a]
                    /\ ending' = (a = "unconfirmed")
              /\ UNCHANGED <<known, roles, configured, scheduler, alive, daemon, chain>>
           \/ /\ r.kind = "masternode.add" =>
                    r.funder \in Wallets \cap alive /\ RunningMiner
              /\ roleBudget' = [roleBudget EXCEPT !.requests = @ - 1]
              /\ op' = [made EXCEPT !.answer = "ok"]
              /\ known' = known \cup {n}
              /\ alive' = alive \cup {n}
              /\ roles' = CASE r.kind = "wallet.add" -> AddWallets({n})
                            [] r.kind = "miner.add" -> AddMinerNodes({n})
                            [] OTHER -> AddMasternodes({n}, r.funder)
              /\ configured' = IF r.kind = "miner.add" THEN configured \cup {n}
                               ELSE configured
              /\ scheduler' = IF r.kind = "miner.add"
                              THEN WithActive(WithMiners(scheduler, <<n>>), n, TRUE)
                              ELSE scheduler
              /\ daemon' = IF r.kind = "masternode.add" THEN daemon \cup {n} ELSE daemon
              /\ chain' = IF r.kind = "masternode.add" THEN [chain EXCEPT ![n] = "live"]
                          ELSE chain
              /\ UNCHANGED ending
    /\ UNCHANGED <<producing, walletJob, shifted>>

CreateWalletNode(r) == r.kind = "wallet.add" /\ CreateNode(r)
CreateMinerNode(r) == r.kind = "miner.add" /\ CreateNode(r)
CreateMasternode(r) == r.kind = "masternode.add" /\ CreateNode(r)

-----------------------------------------------------------------------------
(* masternode.add, forward.                                                 *)

OnNode == op.nodes[op.i]

\* PrepareMasternodeFunding: blocks are mined to the funding wallet until it
\* can pay. Nothing of the operation has happened yet.
FundMasternodes ==
    /\ op.pc = "fund"
    /\ \/ op.cancelled /\ Answer("cancelled") /\ UNCHANGED roleBudget
       \/ /\ ~op.cancelled
          /\ (op.funder \notin alive \/ ~RunningMiner)
          /\ Answer("failed") /\ UNCHANGED roleBudget
       \/ ~op.cancelled /\ Trouble /\ Answer("failed")
       \/ /\ ~op.cancelled /\ op.funder \in alive /\ RunningMiner
          /\ op' = [op EXCEPT !.pc = "register"] /\ UNCHANGED roleBudget
    /\ UNCHANGED <<known, roles, configured, scheduler, producing, alive, daemon, chain,
                   walletJob, ending, shifted>>

\* After a failure: with registrations known the operation rolls back.
GiveUp(o) ==
    IF o.registered # {} THEN op' = [o EXCEPT !.pc = "undo", !.i = 1] /\ UNCHANGED ending
    ELSE IF o.unknown
         THEN op' = [o EXCEPT !.pc = "idle", !.answer = "unconfirmed"] /\ ending' = TRUE
         ELSE /\ op' = [o EXCEPT !.pc = "idle",
                                 !.answer = IF o.cancelled THEN "cancelled" ELSE "failed"]
              /\ UNCHANGED ending

\* RegisterMasternode sends the registration through the funding node: it is
\* known to be sent, known not to be, or nobody knows.
RegisterMasternode ==
    /\ op.pc = "register"
    /\ \/ /\ op.cancelled /\ GiveUp(op) /\ UNCHANGED <<chain, roleBudget>>
       \/ /\ ~op.cancelled /\ op.funder \in alive
          /\ chain' = [chain EXCEPT ![OnNode] = "sent"]
          /\ op' = [op EXCEPT !.registered = @ \cup {OnNode},
                              !.pc = IF op.i < Len(op.nodes) THEN "register" ELSE "confirm",
                              !.i = IF op.i < Len(op.nodes) THEN @ + 1 ELSE 1]
          /\ UNCHANGED <<ending, roleBudget>>
       \/ /\ ~op.cancelled /\ op.funder \notin alive
          /\ GiveUp(op) /\ UNCHANGED <<chain, roleBudget>>
       \/ /\ ~op.cancelled /\ Trouble
          /\ GiveUp(op) /\ UNCHANGED chain
       \/ /\ ~op.cancelled /\ Trouble
          /\ GiveUp([op EXCEPT !.unknown = TRUE])
          /\ chain' \in {chain, [chain EXCEPT ![OnNode] = "sent"]}
    /\ UNCHANGED <<known, roles, configured, scheduler, producing, alive, daemon, walletJob,
                   shifted>>

\* ConfirmMasternodeTransactions mines until the registrations are confirmed.
\* The cancellation is looked at after the last registration and after that.
ConfirmRegistrations ==
    /\ op.pc = "confirm"
    /\ \/ op.cancelled /\ GiveUp(op) /\ UNCHANGED <<chain, roleBudget>>
       \/ /\ RunningMiner /\ op.funder \in alive
          /\ chain' = [n \in RoleNodes |->
                          IF n \in op.registered THEN "live" ELSE chain[n]]
          /\ IF op.cancelled THEN GiveUp(op)
             ELSE op' = [op EXCEPT !.pc = "quiet", !.i = 1] /\ UNCHANGED ending
          /\ UNCHANGED roleBudget
       \/ /\ ~RunningMiner \/ op.funder \notin alive
          /\ GiveUp(op) /\ UNCHANGED <<chain, roleBudget>>
       \/ Trouble /\ GiveUp(op) /\ UNCHANGED chain
    /\ UNCHANGED <<known, roles, configured, scheduler, producing, alive, daemon, walletJob,
                   shifted>>

-----------------------------------------------------------------------------
(* Stopping the miner of a node, restarting the node, resuming the miner:   *)
(* the loop that masternode.add, .remove and .restart have in common.       *)

IsMiner(n) == n \in op.before.roles.miners

\* masternode.restart looks at the cancellation once, before its first node.
RestartCancelled ==
    /\ op.pc = "quiet" /\ op.kind = "masternode.restart" /\ op.i = 1
    /\ op.cancelled
    /\ Answer("cancelled")
    /\ UNCHANGED <<known, roles, configured, scheduler, producing, alive, daemon, chain,
                   walletJob, ending, shifted, roleBudget>>

\* StopMiner: the miner is drawn no more ...
StopDraws ==
    /\ op.pc = "quiet"
    /\ IF IsMiner(OnNode)
       THEN /\ op' = [op EXCEPT !.pc = "settle",
                                !.resume = IF OnNode \in ActiveMiners THEN @ \cup {OnNode}
                                           ELSE @ \ {OnNode}]
            /\ scheduler' = WithActive(scheduler, OnNode, FALSE)
       ELSE op' = [op EXCEPT !.pc = "restart"] /\ UNCHANGED scheduler
    /\ UNCHANGED <<known, roles, configured, producing, alive, daemon, chain, walletJob, ending,
                   shifted, roleBudget>>

\* ... and the block it may have in flight is waited for, however long that
\* takes. The operator's stop-mining command is this call and nothing else.
AwaitBlock ==
    /\ op.pc = "settle"
    /\ ~InFlight(OnNode)
    /\ IF op.kind = "mining.stop" THEN Answer("ok")
       ELSE op' = [op EXCEPT !.pc = "restart"]
    /\ UNCHANGED <<known, roles, configured, scheduler, producing, alive, daemon, chain,
                   walletJob, ending, shifted, roleBudget>>

\* The daemon's masternode configuration, written before the restart.
NewDaemon == CASE op.kind = "masternode.add" -> daemon \cup {OnNode}
               [] op.kind = "masternode.remove" -> daemon \ {OnNode}
               [] OTHER -> daemon

Resumed == IF OnNode \in op.resume THEN WithActive(scheduler, OnNode, TRUE) ELSE scheduler

\* Where the operation is after one node is done: the next node or the end.
Onward(o, last) ==
    IF o.i < Len(o.nodes) THEN [o EXCEPT !.pc = "quiet", !.i = @ + 1]
    ELSE [o EXCEPT !.pc = last, !.i = 1]

\* What a failed restart means to the operation it belongs to.
RoleRestartFailed(o) ==
    CASE o.kind = "masternode.add" -> GiveUp(o)
      [] o.kind = "masternode.restart" /\ ~o.restarted ->
            op' = [o EXCEPT !.pc = "idle", !.answer = "failed"] /\ UNCHANGED ending
      [] OTHER -> op' = [o EXCEPT !.pc = "idle", !.answer = "unconfirmed"] /\ ending' = TRUE

\* RestartNode, then the wait until the masternode is ready. A restart may be
\* refused before it touches the process, or fail with the daemon down, or
\* the daemon comes up and is not ready; the miner is resumed while the
\* daemon runs. masternode.add checks for cancellation after every node.
RestartTarget ==
    /\ op.pc = "restart"
    /\ daemon' = NewDaemon
    /\ \/ /\ alive' = alive \cup {OnNode}
          /\ scheduler' = Resumed
          /\ IF op.kind = "masternode.add" /\ op.cancelled THEN GiveUp(op)
             ELSE /\ op' = Onward([op EXCEPT !.restarted = TRUE],
                                  CASE op.kind = "masternode.add" -> "publish"
                                    [] op.kind = "masternode.remove" -> "unpublish"
                                    [] OTHER -> "done")
                  /\ UNCHANGED ending
          /\ UNCHANGED roleBudget
       \/ /\ Trouble
          /\ \E up \in BOOLEAN, admitted \in BOOLEAN :
                /\ ~admitted => (up <=> OnNode \in alive)
                /\ alive' = IF up THEN alive \cup {OnNode} ELSE alive \ {OnNode}
                /\ scheduler' = IF up THEN Resumed ELSE scheduler
                /\ RoleRestartFailed([op EXCEPT !.restarted = @ \/ admitted])
    /\ UNCHANGED <<known, roles, configured, producing, chain, walletJob, shifted>>

\* masternode.restart changes no role.
RestartDone ==
    /\ op.pc = "done"
    /\ Answer("ok")
    /\ UNCHANGED <<known, roles, configured, scheduler, producing, alive, daemon, chain,
                   walletJob, ending, shifted, roleBudget>>

\* masternode.add publishes the identities it has seen ready.
PublishMasternodes ==
    /\ op.pc = "publish" /\ op.kind = "masternode.add"
    /\ \/ /\ op.cancelled
          /\ op' = [op EXCEPT !.pc = "undo", !.i = 1]
          /\ UNCHANGED <<roles, roleBudget>>
       \/ Trouble /\ op' = [op EXCEPT !.pc = "undo", !.i = 1] /\ UNCHANGED roles
       \/ /\ ~op.cancelled
          /\ roles' = NextRoles
          /\ op' = [op EXCEPT !.pc = "event"]
          /\ UNCHANGED roleBudget
    /\ UNCHANGED <<known, configured, scheduler, producing, alive, daemon, chain, walletJob,
                   ending, shifted>>

-----------------------------------------------------------------------------
(* masternode.add, backward: the daemons first, then the registrations.     *)

UndoFails == op' = [op EXCEPT !.pc = "surrender"]

\* Every daemon that was given the masternode configuration loses it: its
\* miner is stopped ...
UndoStop ==
    /\ op.pc = "undo"
    /\ IF op.i > Len(op.nodes)
       THEN op' = [op EXCEPT !.pc = "unconfirm"] /\ UNCHANGED scheduler
       ELSE IF OnNode \notin daemon
       THEN op' = [op EXCEPT !.i = @ + 1] /\ UNCHANGED scheduler
       ELSE /\ op' = [op EXCEPT !.pc = "undosettle",
                                !.resume = IF IsMiner(OnNode) /\ OnNode \in ActiveMiners
                                           THEN @ \cup {OnNode} ELSE @]
            /\ scheduler' = IF IsMiner(OnNode) THEN WithActive(scheduler, OnNode, FALSE)
                            ELSE scheduler
    /\ UNCHANGED <<known, roles, configured, producing, alive, daemon, chain, walletJob, ending,
                   shifted, roleBudget>>

\* ... its block waited for, and the node restarted without it.
UndoRestart ==
    /\ op.pc = "undosettle"
    /\ IsMiner(OnNode) => ~InFlight(OnNode)
    /\ daemon' = daemon \ {OnNode}
    /\ \/ /\ alive' = alive \cup {OnNode}
          /\ op' = [op EXCEPT !.pc = "undo", !.i = @ + 1]
          /\ UNCHANGED roleBudget
       \/ /\ Trouble
          /\ \E up \in BOOLEAN :
                alive' = IF up THEN alive ELSE alive \ {OnNode}
          /\ UndoFails
    /\ UNCHANGED <<known, roles, configured, scheduler, producing, chain, walletJob, ending,
                   shifted>>

\* The registrations are confirmed, revoked, and the revocations confirmed.
UndoRegistrations ==
    /\ op.pc = "unconfirm"
    /\ \/ /\ RunningMiner /\ op.funder \in alive
          /\ chain' = [n \in RoleNodes |->
                          IF n \in op.registered THEN "gone" ELSE chain[n]]
          /\ op' = [op EXCEPT !.pc = "resume"]
          /\ UNCHANGED roleBudget
       \/ /\ ~RunningMiner \/ op.funder \notin alive
          /\ UndoFails /\ UNCHANGED <<chain, roleBudget>>
       \/ /\ Trouble
          /\ \E gone \in SUBSET op.registered :
                chain' = [n \in RoleNodes |-> IF n \in gone THEN "gone" ELSE chain[n]]
          /\ UndoFails
    /\ UNCHANGED <<known, roles, configured, scheduler, producing, alive, daemon, walletJob,
                   ending, shifted>>

\* Mutant: a rollback leaves the miners it stopped.
LeaveMiners == scheduler

\* resume_scheduled_miners: the ones whose daemon runs.
ResumeMiners ==
    [scheduler EXCEPT !.active = [i \in DOMAIN @ |->
        @[i] \/ scheduler.ids[i] \in op.resume \cap alive]]

\* The rollback is verified: the first failure is the answer.
UndoDone ==
    /\ op.pc = "resume"
    /\ scheduler' = ResumeMiners
    /\ IF op.unknown THEN Unconfirmed
       ELSE /\ Answer(IF op.cancelled THEN "cancelled" ELSE "failed")
            /\ UNCHANGED ending
    /\ UNCHANGED <<known, roles, configured, producing, alive, daemon, chain, walletJob,
                   shifted, roleBudget>>

Surrender ==
    /\ op.pc = "surrender"
    /\ scheduler' = ResumeMiners
    /\ Unconfirmed
    /\ UNCHANGED <<known, roles, configured, producing, alive, daemon, chain, walletJob,
                   shifted, roleBudget>>

-----------------------------------------------------------------------------
(* masternode.remove and masternode.restart.                                *)

\* The revocations are sent through the funding nodes and confirmed. The
\* cancellation is looked at once, before the first of them.
RevokeMasternodes ==
    /\ op.pc = "revoke"
    /\ LET funders == {roles.funder[n] : n \in Range(op.nodes)}
           first == roles.funder[op.nodes[1]]
       IN  \/ /\ op.cancelled /\ Answer("cancelled")
              /\ UNCHANGED <<chain, ending, roleBudget>>
           \/ /\ ~op.cancelled /\ first \notin alive /\ Answer("failed")
              /\ UNCHANGED <<chain, ending, roleBudget>>
           \/ /\ ~op.cancelled /\ funders \subseteq alive /\ RunningMiner
              /\ chain' = [n \in RoleNodes |->
                              IF n \in Range(op.nodes) THEN "gone" ELSE chain[n]]
              /\ op' = [op EXCEPT !.pc = "quiet", !.i = 1]
              /\ UNCHANGED <<ending, roleBudget>>
           \/ /\ ~op.cancelled /\ first \in alive
              /\ Trouble /\ Unconfirmed
              /\ \E gone \in SUBSET Range(op.nodes) :
                    chain' = [n \in RoleNodes |-> IF n \in gone THEN "gone" ELSE chain[n]]
           \/ /\ ~op.cancelled /\ first \in alive
              /\ (~(funders \subseteq alive) \/ ~RunningMiner)
              /\ Unconfirmed
              /\ \E gone \in SUBSET Range(op.nodes) :
                    chain' = [n \in RoleNodes |-> IF n \in gone THEN "gone" ELSE chain[n]]
              /\ UNCHANGED roleBudget
    /\ UNCHANGED <<known, roles, configured, scheduler, producing, alive, daemon, walletJob,
                   shifted>>

\* The registry without the removed masternodes. The publication lock may not
\* be had before the completion deadline; the revocations are made by then.
Unpublish ==
    /\ op.pc = "unpublish"
    /\ \/ Trouble /\ Unconfirmed /\ UNCHANGED roles
       \/ /\ roles' = NextRoles
          /\ op' = [op EXCEPT !.pc = "event"]
          /\ UNCHANGED <<ending, roleBudget>>
    /\ UNCHANGED <<known, configured, scheduler, producing, alive, daemon, chain, walletJob,
                   shifted>>

-----------------------------------------------------------------------------
(* The rest of the run.                                                     *)

\* A daemon dies by itself.
DaemonDies(n) ==
    /\ n \in alive /\ roleBudget.crashes > 0
    /\ alive' = alive \ {n}
    /\ roleBudget' = [roleBudget EXCEPT !.crashes = @ - 1]
    /\ UNCHANGED <<known, roles, configured, scheduler, producing, daemon, chain, walletJob,
                   ending, op, shifted>>

\* A wallet workload takes its snapshot of the registry and its record under
\* the workloads' lock, which wallet.remove holds from its check to its commit.
StartJob ==
    /\ walletJob = {} /\ ~ending /\ roleBudget.jobs > 0
    /\ ~(op.pc = "publish" /\ op.kind = "wallet.remove")
    /\ Wallets # {}
    /\ walletJob' = Wallets
    /\ roleBudget' = [roleBudget EXCEPT !.jobs = @ - 1]
    /\ UNCHANGED <<known, roles, configured, scheduler, producing, alive, daemon, chain,
                   ending, op, shifted>>

EndJob ==
    /\ walletJob # {}
    /\ walletJob' = {}
    /\ UNCHANGED <<known, roles, configured, scheduler, producing, alive, daemon, chain,
                   ending, op, shifted, roleBudget>>

RoleInit ==
    /\ known = FirstWallets \cup Range(FirstMiners) \cup WalletCapable
    /\ roles = [wallets |-> [n \in RoleNodes |-> IF n \in FirstWallets THEN 1 ELSE 0],
                miners |-> Range(FirstMiners),
                funder |-> [n \in RoleNodes |-> 0]]
    /\ configured = Range(FirstMiners)
    /\ scheduler = [ids |-> FirstMiners,
                    active |-> [i \in DOMAIN FirstMiners |-> TRUE],
                    inflight |-> [i \in DOMAIN FirstMiners |-> FALSE],
                    pending |-> FALSE, stopped |-> FALSE]
    /\ producing = NoBlock
    /\ alive = FirstWallets \cup Range(FirstMiners) \cup WalletCapable
    /\ daemon = {}
    /\ chain = [n \in RoleNodes |-> "none"]
    /\ walletJob = {}
    /\ ending = FALSE
    /\ op = NoOp
    /\ shifted = FALSE
    /\ roleBudget \in RoleBudgets

OpStep ==
    \/ CreateAddress \/ PublishWallets \/ PublishMiners \/ DrainMiners
    \/ FinishWalletAdd \/ FinishWalletRemove \/ FinishMinerAdd \/ FinishMinerRemove
    \/ FinishMasternodeAdd \/ FinishMasternodeRemove
    \/ FundMasternodes \/ RegisterMasternode \/ ConfirmRegistrations
    \/ RestartCancelled \/ StopDraws \/ AwaitBlock \/ RestartTarget \/ RestartDone
    \/ PublishMasternodes
    \/ UndoStop \/ UndoRestart \/ UndoRegistrations \/ UndoDone \/ Surrender
    \/ RevokeMasternodes \/ Unpublish

RoleNext ==
    \/ DrawMiner \/ BlockDone \/ SchedulerFails
    \/ \E r \in RoleRequests :
          \/ WalletAdd(r) \/ WalletRemove(r) \/ MinerAdd(r) \/ MinerRemove(r)
          \/ MasternodeOperation(r) \/ StopMining(r)
          \/ CreateWalletNode(r) \/ CreateMinerNode(r) \/ CreateMasternode(r)
    \/ CancelOp \/ OpStep
    \/ \E n \in RoleNodes : DaemonDies(n)
    \/ StartJob \/ EndJob


-----------------------------------------------------------------------------
(* Properties.                                                              *)

\* Types.
RoleTypeOK ==
    /\ known \subseteq RoleNodes /\ alive \subseteq known /\ daemon \subseteq known
    /\ roles.wallets \in [RoleNodes -> Nat]
    /\ roles.miners \subseteq known
    /\ roles.funder \in [RoleNodes -> RoleNodes \cup {0}]
    /\ configured \subseteq known
    /\ Len(scheduler.active) = Len(scheduler.ids)
    /\ Len(scheduler.inflight) = Len(scheduler.ids)
    /\ chain \in [RoleNodes -> {"none", "sent", "live", "gone"}]
    /\ walletJob \subseteq known
    /\ op.answer \in RoleAnswers
    /\ op.kind \in RoleKinds \cup {"none"}
    /\ ending \in BOOLEAN /\ shifted \in BOOLEAN

\* The three lists of miners never part: the published roles, the configured
\* miners that the commands and the supervisor consult, and the scheduler's
\* slots; no miner has two slots.
MinersAgree ==
    /\ roles.miners = configured
    /\ Range(scheduler.ids) = configured
    /\ Len(scheduler.ids) = Cardinality(configured)

\* A definite refusal, failure or cancellation left no trace: the roles are the
\* ones found at admission, so are the daemons' configurations, no registration
\* of the operation is alive on the chain, and every miner that was active and
\* whose daemon runs is active again.
RefusalLeavesNoTrace ==
    op.answer \in {"failed", "cancelled"} =>
        /\ roles = op.before.roles
        /\ daemon = op.before.daemon
        /\ \A n \in Range(op.nodes) \ Masternodes : chain[n] \in {"none", "gone"}
        /\ Masternodes \subseteq {n \in RoleNodes : chain[n] = "live"}
        /\ op.before.active \cap alive \subseteq ActiveMiners

\* A success is real: the roles say what was asked, and for a masternode so do
\* the chain and the daemon's configuration.
SuccessIsReal ==
    op.answer = "ok" =>
        LET S == Range(op.nodes) IN
        CASE op.kind = "wallet.add" -> S \subseteq Wallets
          [] op.kind = "wallet.remove" -> S \cap Wallets = {}
          [] op.kind = "miner.add" -> S \subseteq roles.miners \cap ActiveMiners
          [] op.kind = "miner.remove" -> S \cap Range(scheduler.ids) = {}
          [] op.kind \in {"masternode.add", "masternode.restart"} ->
                /\ S \subseteq Masternodes \cap daemon
                /\ \A n \in S : chain[n] = "live"
          [] op.kind = "masternode.remove" ->
                /\ S \cap (Masternodes \cup daemon) = {}
                /\ \A n \in S : chain[n] = "gone"
          [] OTHER -> S \cap ActiveMiners = {}

\* While the run is not asked to stop and no operation is under way, the
\* registry, the daemons and the chain name the same masternodes, and every
\* masternode's funding wallet is still a registered wallet.
MasternodesAreBacked ==
    (~ending /\ op.pc = "idle") =>
        /\ Masternodes = daemon
        /\ \A n \in RoleNodes : chain[n] = "live" <=> n \in Masternodes
        /\ \A n \in RoleNodes : chain[n] # "sent"
        /\ \A n \in Masternodes : roles.funder[n] \in Wallets

\* The wallets a running wallet workload sends from stay registered.
WorkloadKeepsItsWallets == walletJob \subseteq Wallets

\* A miner that has left the scheduler has no block in production.
RemovedMinerIsIdle == producing # NoBlock => producing.node \in configured

\* No node is restarted under a block its miner is producing.
NoBlockUnderRestart ==
    (op.pc = "restart" /\ producing # NoBlock) => producing.node # OnNode

\* Every operation is answered, however its steps fail, while no miner has been
\* removed under another miner's block (see StopMinerReturns).
RoleOperationEnds == (op.pc # "idle" /\ ~shifted) ~> (op.pc = "idle" \/ shifted)

\* StopMiner returns once the block in production is done. It does not always:
\* Run clears the in-flight mark by the index it drew, and miner.remove may have
\* moved the slots since.
StopMinerReturns == (op.pc = "settle") ~> (op.pc # "settle")

\* A role operation that is refused leaves no trace and one that succeeds is
\* real; the scheduler, the registries and the nodes agree on the miners, the
\* masternodes and the wallets, and no miner is removed or restarted under its
\* block.
RolesCorrect ==
    /\ RoleTypeOK
    /\ MinersAgree
    /\ RefusalLeavesNoTrace
    /\ SuccessIsReal
    /\ MasternodesAreBacked
    /\ WorkloadKeepsItsWallets
    /\ RemovedMinerIsIdle
    /\ NoBlockUnderRestart

=============================================================================
