------------------------- MODULE PeerConnectivity -------------------------
(***************************************************************************)
(* The sessions between the simulated nodes and the two threads that       *)
(* change them: the mutation thread (peer churn and topology edge          *)
(* workloads, peer policies, restarts; one at a time under the node        *)
(* mutation lock) and the enforcement thread of PeerConnectivityController *)
(* which works from a snapshot of the configuration and holds the RPC lock *)
(* while it changes the sessions of one node.                              *)
(*                                                                         *)
(* A session is an unordered pair: the driver matches a peer by its host,  *)
(* whichever side dialled.  An edge is a directed pair of the logical      *)
(* topology with its state in RuntimePeerTopology.                         *)
(***************************************************************************)
EXTENDS Naturals, FiniteSets, Sequences, SequencesExt

CONSTANTS
    PeerCount,       \* the nodes are 1 .. PeerCount, in inventory order
    Baselines,       \* the initial topologies: edge |-> [active, condition]
    PeerPolicies,    \* the peer count policies that may be in force
    BandLimit,       \* kMaximumDirectionalBands
    PeerBudgets      \* bounds: records of how many operations of the mutation
                     \* thread (changes), failing RPCs, kernel calls and writes
                     \* (faults), and lost sessions or daemons (outages)

ASSUME PeerAssumption ==
    /\ PeerCount \in Nat \ {0} /\ BandLimit \in Nat \ {0}
    /\ \A b \in Baselines : \A e \in DOMAIN b :
          e[1] \in 1 .. PeerCount /\ e[2] \in 1 .. PeerCount /\ e[1] # e[2]
    /\ \A p \in PeerPolicies : p.min <= p.max

VARIABLES
    edges,     \* RuntimePeerTopology::edges_: edge |-> [active, condition, band]
    baseline,  \* RuntimePeerTopology::baseline_edges_
    kernel,    \* directional_network_policies of each node, as installed
    allowed,   \* allowed_peers_: the logical peers of each node
    dialled,   \* config.connect_peers: what a restarted daemon dials
    policies,  \* policies_: node |-> policy, for the nodes that have one
    config,    \* configuration_sequence_
    restore,   \* topology_restore_requests_ / completions_ / sequence_
    hushed,    \* topology_restore_suppressions_: edge |-> sequence (0: none)
    sessions,  \* the established sessions, as unordered pairs
    running,   \* the nodes node_available_handler_ reports as running
    rpcLock,   \* holder of rpc_mutex_
    task,      \* what the mutation thread is doing
    sweep,     \* what the enforcement thread is doing
    reported,  \* last_failures_: nodes whose policy failure was reported
    lost,      \* history: sessions that ended by themselves since a request
    undone,    \* history: pairs whose edge operation was rolled back
    peerRun,   \* "running", or "stopping" after an unconfirmed outcome
    peerBudget \* the bounds still available

peerVars == <<edges, baseline, kernel, allowed, dialled, policies, config,
              restore, hushed, sessions, running, rpcLock, task, sweep,
              reported, lost, undone, peerRun, peerBudget>>

PeerNodes == 1 .. PeerCount
Pair(a, b) == {a, b}
Idle == [at |-> "idle"]
Asleep == [at |-> "asleep"]

(* RuntimePeerTopology *)

\* ActivePeerIndexes
ActivePeers(es, n) == {m \in PeerNodes : <<n, m>> \in DOMAIN es /\ es[<<n, m>>].active}
\* PhysicalPeerRequired
SessionRequired(es, a, b) == b \in ActivePeers(es, a) \/ a \in ActivePeers(es, b)
\* DirectionalPolicies: what the kernel of node n is to enforce
DirectionalPolicies(es, n) ==
    {[to |-> e[2], band |-> es[e].band] :
        e \in {d \in DOMAIN es : d[1] = n /\ es[d].active /\ es[d].condition}}
\* The bands other edges of the same source occupy.
UsedBands(es, e) ==
    {es[d].band : d \in {x \in DOMAIN es \ {e} :
                            x[1] = e[1] /\ es[x].active /\ es[x].condition}}
FreeBands(es, e) == (1 .. BandLimit) \ UsedBands(es, e)
\* DirectionalBandForState / AllocateDirectionalBand; 0 when exhausted
BandFor(es, e, st) ==
    IF ~(st.active /\ st.condition) THEN st.band
    ELSE IF st.band \in FreeBands(es, e) THEN st.band
    ELSE IF FreeBands(es, e) = {} THEN 0
    ELSE CHOOSE b \in FreeBands(es, e) : \A c \in FreeBands(es, e) : b <= c

\* The state SetCondition, SetActive or RestoreBaseline asks for.
Requested(kind, e) ==
    CASE kind = "condition"  -> [edges[e] EXCEPT !.condition = TRUE]
      [] kind = "activate"   -> [edges[e] EXCEPT !.active = TRUE]
      [] kind = "deactivate" -> [edges[e] EXCEPT !.active = FALSE]
      [] kind = "restore"    -> baseline[e]
EdgeState(kind, e) ==
    [Requested(kind, e) EXCEPT !.band = BandFor(edges, e, Requested(kind, e))]
\* Their own refusals: inactive edge, nothing to change, no band left.
EdgeAdmitted(kind, e) ==
    /\ kind = "condition" => edges[e].active
    /\ kind = "activate" => ~edges[e].active
    /\ kind = "deactivate" => edges[e].active
    /\ EdgeState(kind, e).active /\ EdgeState(kind, e).condition
          => EdgeState(kind, e).band # 0

\* AssignDirectionalBands, in edge order: an edge keeps its band unless an
\* earlier edge of its source holds it or the limit is passed.
AssignBands(es) ==
    LET before(d, e) == d[1] < e[1] \/ (d[1] = e[1] /\ d[2] < e[2])
        earlier(e) == {d \in DOMAIN es : before(d, e)}
        assign(acc, e) ==
            [acc EXCEPT ![e].band =
                BandFor([d \in earlier(e) \union {e} |-> acc[d]], e, acc[e])]
    IN FoldLeft(assign, es, SetToSortSeq(DOMAIN es, before))
\* A new RuntimePeerTopology numbers the edges of each source.
InitialTopology(b) ==
    LET rank(e) == Cardinality({d \in DOMAIN b : d[1] = e[1] /\ d[2] <= e[2]})
    IN AssignBands([e \in DOMAIN b |-> [active |-> b[e].active,
                                        condition |-> b[e].condition,
                                        band |-> rank(e)]])

(* The configuration of the controller *)

HasPolicy(n) == n \in DOMAIN policies
\* ValidateAllowedPeerUpdateUnlocked
AllowedFits(n, peers) == HasPolicy(n) => policies[n].min <= Cardinality(peers)
Bump == config' = config + 1

PeerInit ==
    /\ \E b \in Baselines :
          /\ edges = InitialTopology(b)
          /\ \A e \in DOMAIN b : b[e].active /\ b[e].condition
                => edges[e].band # 0     \* otherwise the run never starts
          /\ \E ns \in SUBSET PeerNodes : \E ps \in [ns -> PeerPolicies] :
                /\ \A n \in ns : ps[n].min <= Cardinality(ActivePeers(edges, n))
                                 /\ ps[n].max < PeerCount
                /\ policies = ps
    /\ baseline = edges
    /\ kernel = [n \in PeerNodes |-> DirectionalPolicies(edges, n)]
    /\ allowed = [n \in PeerNodes |-> ActivePeers(edges, n)]
    /\ dialled = allowed
    /\ config = 0
    /\ restore = [asked |-> [n \in PeerNodes |-> 0],
                  done |-> [n \in PeerNodes |-> 0], last |-> 0]
    /\ hushed = [e \in PeerNodes \X PeerNodes |-> 0]
    /\ sessions = {Pair(e[1], e[2]) : e \in {d \in DOMAIN edges : edges[d].active}}
    /\ running = PeerNodes
    /\ rpcLock = "free"
    /\ task = Idle
    /\ sweep = Asleep
    /\ reported = {} /\ lost = {} /\ undone = {}
    /\ peerRun = "running"
    /\ peerBudget \in PeerBudgets

SpendFault ==
    /\ peerBudget.faults > 0
    /\ peerBudget' = [peerBudget EXCEPT !.faults = @ - 1]

(* SetPeerConnectionState: the session is brought to the wanted state; a   *)
(* failed change is taken back within the rollback bound, and when that    *)
(* fails too the state is whatever the two attempts left.  A session needs *)
(* both daemons; the daemon n is the one asked, and when it goes away after *)
(* its first answer nothing can be taken back.                             *)
SessionsWith(p, on) == IF on THEN sessions \union {p} ELSE sessions \ {p}
Reachable(n, p, on) == n \in running /\ (on => p \subseteq running)
SetPeerConnectionState(n, p, on, how) ==
    \/ /\ how = "set" /\ Reachable(n, p, on)
       /\ sessions' = SessionsWith(p, on)
       /\ lost' = lost \ {p}
       /\ UNCHANGED peerBudget
    \/ /\ how = "takenBack"
       /\ IF Reachable(n, p, on) THEN SpendFault ELSE UNCHANGED peerBudget
       /\ UNCHANGED <<sessions, lost>>
    \/ /\ how = "unconfirmed"
       /\ IF n \in running THEN SpendFault ELSE UNCHANGED peerBudget
       /\ sessions' \in {sessions} \union
             (IF Reachable(n, p, on) THEN {SessionsWith(p, on)} ELSE {})
       /\ lost' = IF p \in sessions' THEN lost ELSE lost \union {p}

\* The bookkeeping after a change: ConnectPeer forgets the suppression of
\* the edge, DisconnectPeer records one newer than every request so far.
Bookkeeping(e, on) ==
    IF on THEN hushed' = [hushed EXCEPT ![e] = 0] /\ UNCHANGED restore
    ELSE /\ hushed' = [hushed EXCEPT ![e] = restore.last + 1]
         /\ restore' = [restore EXCEPT !.last = @ + 1]

(***************************************************************************)
(* The mutation thread                                                     *)
(***************************************************************************)
CanMutate ==
    /\ task = Idle /\ peerRun = "running" /\ peerBudget.changes > 0
    /\ peerBudget' = [peerBudget EXCEPT !.changes = @ - 1]
Touched(e) == Pair(e[1], e[2])
Former == [edges EXCEPT ![task.edge] = task.prev]
WasRequired == SessionRequired(Former, task.edge[1], task.edge[2])
IsRequired == SessionRequired(edges, task.edge[1], task.edge[2])
Did(step) == step \in task.did
Goto(l) == task' = [task EXCEPT !.at = l]
GotoDid(l, step) == task' = [task EXCEPT !.at = l, !.did = @ \union {step}]
UndoError(l) == task' = [task EXCEPT !.at = l, !.bad = TRUE]
Source == task.edge[1]
RecordsMatch(n) ==
    /\ kernel[n] = DirectionalPolicies(edges, n)
    /\ allowed[n] = ActivePeers(edges, n)
    /\ dialled[n] = ActivePeers(edges, n)

\* ApplyTopologyEdgeWorkload up to the first outside effect: the recorded
\* state must match the model, which is then changed.
EdgeBegin(kind, e) ==
    /\ CanMutate
    /\ RecordsMatch(e[1])
    /\ EdgeAdmitted(kind, e)
    /\ edges' = [edges EXCEPT ![e] = EdgeState(kind, e)]
    /\ AllowedFits(e[1], ActivePeers(edges', e[1]))
    /\ task' = [at |-> "kernel", edge |-> e, prev |-> edges[e], did |-> {},
                had |-> Touched(e) \in sessions, seen |-> 0, bad |-> FALSE]
    /\ UNCHANGED <<baseline, undone, kernel, allowed, dialled, policies, config, restore, hushed,
                   sessions, running, rpcLock, sweep, reported, lost, peerRun>>

\* UpdateDirectionalNetworkPoliciesInNamespace; it undoes its own failure
\* or reports an unconfirmed outcome.
EdgeKernel ==
    /\ task.at = "kernel"
    /\ \/ /\ kernel' = [kernel EXCEPT ![Source] = DirectionalPolicies(edges, Source)]
          /\ GotoDid("allow", "kernel") /\ UNCHANGED peerBudget
       \/ SpendFault /\ Goto("undo") /\ UNCHANGED kernel
       \/ /\ SpendFault /\ UndoError("undo")
          /\ kernel' \in {kernel, [kernel EXCEPT ![Source] = DirectionalPolicies(edges, Source)]}
    /\ UNCHANGED <<edges, baseline, undone, allowed, dialled, policies, config, restore, hushed,
                   sessions, running, rpcLock, sweep, reported, lost, peerRun>>

\* SetAllowedPeers, only when the list changed.
SetAllowed(peers) ==
    /\ allowed' = [allowed EXCEPT ![Source] = peers]
    /\ Bump
    /\ reported' = reported \ {Source}
EdgeAllow ==
    /\ task.at = "allow"
    /\ LET next == IF WasRequired # IsRequired THEN "peer" ELSE "config"
       IN IF allowed[Source] = ActivePeers(edges, Source)
          THEN Goto(next) /\ UNCHANGED <<allowed, config, reported>>
          ELSE GotoDid(next, "allowed") /\ SetAllowed(ActivePeers(edges, Source))
    /\ UNCHANGED <<edges, baseline, undone, kernel, dialled, policies, restore, hushed, sessions,
                   running, rpcLock, sweep, lost, peerRun, peerBudget>>

\* ConnectPeer / DisconnectPeer before the RPC lock: the configuration is
\* noted and the daemons must run.
PeerLook(l, on, next, failed) ==
    /\ task.at = l
    /\ IF Source \in running /\ (on => task.edge[2] \in running)
       THEN task' = [task EXCEPT !.at = next, !.seen = config, !.did = @ \union {"peer"}]
       ELSE failed
    /\ UNCHANGED <<edges, baseline, undone, kernel, allowed, dialled, policies, config, restore, hushed,
                   sessions, running, rpcLock, sweep, reported, lost, peerRun, peerBudget>>
\* Their admission under the lock: nothing was reconfigured meanwhile and a
\* connection follows an active edge.
PeerAdmitted(on) == config = task.seen /\ (on => task.edge[2] \in allowed[Source])
\* The change itself; the lock is held throughout.
PeerChange(l, on, done, failed, unsure) ==
    /\ task.at = l /\ rpcLock = "free"
    /\ \/ /\ PeerAdmitted(on)
          /\ \E how \in {"set", "takenBack", "unconfirmed"} :
                /\ SetPeerConnectionState(Source, Touched(task.edge), on, how)
                /\ IF how = "set" THEN Bookkeeping(task.edge, on) /\ done
                   ELSE /\ UNCHANGED <<restore, hushed>>
                        /\ IF how = "takenBack" THEN failed ELSE unsure
       \/ /\ ~PeerAdmitted(on) /\ failed
          /\ UNCHANGED <<restore, hushed, sessions, lost, peerBudget>>
    /\ UNCHANGED <<edges, baseline, undone, kernel, allowed, dialled, policies, config,
                   running, rpcLock, sweep, reported>>

EdgePeerLook == PeerLook("peer", IsRequired, "await", GotoDid("undo", "peer"))
EdgePeer ==
    /\ PeerChange("await", IsRequired, Goto("config"), Goto("undo"), UndoError("undo"))
    /\ UNCHANGED peerRun

\* After a changed session the source is asked for its peers, which may fail;
\* then the restart configuration and the events.
EdgeConfig ==
    /\ task.at = "config"
    /\ \/ /\ Did("peer") => Source \in running
          /\ dialled' = [dialled EXCEPT ![Source] = ActivePeers(edges, Source)]
          /\ GotoDid("publish", "config") /\ UNCHANGED peerBudget
       \/ /\ Did("peer")
          /\ IF Source \in running THEN SpendFault ELSE UNCHANGED peerBudget
          /\ Goto("undo") /\ UNCHANGED dialled
    /\ UNCHANGED <<edges, baseline, undone, kernel, allowed, policies, config, restore, hushed, sessions,
                   running, rpcLock, sweep, reported, lost, peerRun>>
EdgePublish ==
    /\ task.at = "publish"
    /\ \/ task' = Idle /\ UNCHANGED peerBudget
       \/ SpendFault /\ UndoError("undo")
    /\ UNCHANGED <<edges, baseline, undone, kernel, allowed, dialled, policies, config, restore, hushed,
                   sessions, running, rpcLock, sweep, reported, lost, peerRun>>

(* The rollback: each step runs whatever became of the ones before it. *)
UndoKernel ==
    /\ task.at = "undo"
    /\ \/ /\ kernel' = IF Did("kernel")
                       THEN [kernel EXCEPT ![Source] = DirectionalPolicies(Former, Source)]
                       ELSE kernel
          /\ Goto("undoAllowFirst") /\ UNCHANGED peerBudget
       \/ Did("kernel") /\ SpendFault /\ UndoError("undoAllowFirst") /\ UNCHANGED kernel
    /\ UNCHANGED <<edges, baseline, undone, allowed, dialled, policies, config, restore, hushed,
                   sessions, running, rpcLock, sweep, reported, lost, peerRun>>
\* Mutant: the allowed peers are never put back.
UndoAllowSkipped(l, now, next) ==
    /\ task.at = l /\ Goto(next)
    /\ UNCHANGED <<edges, baseline, undone, kernel, allowed, dialled, policies, config, restore,
                   hushed, sessions, running, rpcLock, sweep, reported, lost, peerRun, peerBudget>>
UndoAllow(l, now, next) ==
    /\ task.at = l
    /\ IF Did("allowed") /\ now
       THEN /\ task' = [task EXCEPT !.at = next, !.did = @ \ {"allowed"}]
            /\ SetAllowed(ActivePeers(Former, Source))
       ELSE Goto(next) /\ UNCHANGED <<allowed, config, reported>>
    /\ UNCHANGED <<edges, baseline, undone, kernel, dialled, policies, restore, hushed, sessions,
                   running, rpcLock, sweep, lost, peerRun, peerBudget>>
UndoAllowFirst == UndoAllow("undoAllowFirst", WasRequired, "undoPeer")
UndoPeerNeeded == Did("peer") /\ (Touched(task.edge) \in sessions) # task.had
UndoPeerSkip ==
    /\ task.at = "undoPeer"
    /\ \/ ~UndoPeerNeeded /\ Goto("undoAllowLast")
       \/ UndoPeerNeeded /\ task.had /\ ~WasRequired /\ UndoError("undoAllowLast")
    /\ UNCHANGED <<edges, baseline, undone, kernel, allowed, dialled, policies, config, restore, hushed,
                   sessions, running, rpcLock, sweep, reported, lost, peerRun, peerBudget>>
UndoPeerLook ==
    /\ task.at = "undoPeer" /\ UndoPeerNeeded /\ (task.had => WasRequired)
    /\ PeerLook("undoPeer", task.had, "undoAwait", UndoError("undoAllowLast"))
UndoPeer ==
    /\ PeerChange("undoAwait", task.had, Goto("undoAllowLast"),
                  UndoError("undoAllowLast"), UndoError("undoAllowLast"))
    /\ UNCHANGED peerRun
UndoAllowLast == UndoAllow("undoAllowLast", TRUE, "undoRest")
\* The restart peers, RestoreState, and the verdict.
UndoRest ==
    /\ task.at = "undoRest"
    /\ \E kept \in BOOLEAN :
          /\ IF kept THEN SpendFault ELSE UNCHANGED peerBudget
          /\ dialled' = IF kept THEN dialled
                        ELSE [dialled EXCEPT ![Source] = ActivePeers(Former, Source)]
          /\ LET free == BandFor(edges, task.edge, task.prev) = task.prev.band
             IN /\ edges' = IF free THEN Former ELSE edges
                /\ peerRun' = IF kept \/ ~free \/ task.bad THEN "stopping" ELSE peerRun
    /\ undone' = undone \union {Touched(task.edge)}
    /\ task' = Idle
    /\ UNCHANGED <<baseline, kernel, allowed, policies, config, restore, hushed, sessions,
                   running, rpcLock, sweep, reported, lost>>

\* ApplyConnectPeerWorkload / ApplyDisconnectPeerWorkload.
ChurnBegin(e, on) ==
    /\ CanMutate
    /\ e[1] # e[2]
    /\ e[1] \in running /\ (on => e[2] \in running)
    /\ task' = [at |-> "churn", edge |-> e, on |-> on, seen |-> config]
    /\ UNCHANGED <<edges, baseline, undone, kernel, allowed, dialled, policies, config, restore, hushed,
                   sessions, running, rpcLock, sweep, reported, lost, peerRun>>
\* Refused, cancelled before admission, or taken back: nothing happened.
ChurnChange ==
    PeerChange("churn", task.on,
               task' = [at |-> "churned"] /\ UNCHANGED peerRun,
               task' = Idle /\ UNCHANGED peerRun,
               task' = Idle /\ peerRun' = "stopping")
ChurnCancelled ==
    /\ task.at = "churn" /\ task' = Idle
    /\ UNCHANGED <<edges, baseline, undone, kernel, allowed, dialled, policies, config, restore, hushed,
                   sessions, running, rpcLock, sweep, reported, lost, peerRun, peerBudget>>
\* The event; a change that cannot be published stops the run.
ChurnPublish ==
    /\ task.at = "churned" /\ task' = Idle
    /\ \/ UNCHANGED <<peerRun, peerBudget>>
       \/ SpendFault /\ peerRun' = "stopping"
    /\ UNCHANGED <<edges, baseline, undone, kernel, allowed, dialled, policies, config, restore, hushed,
                   sessions, running, rpcLock, sweep, reported, lost>>

\* SetPolicy
SetPolicy(n, p) ==
    /\ CanMutate
    /\ p.max < PeerCount /\ p.min <= Cardinality(allowed[n])
    /\ policies' = [m \in DOMAIN policies \union {n} |->
                       IF m = n THEN p ELSE policies[m]]
    /\ Bump
    /\ reported' = reported \ {n}
    /\ UNCHANGED <<edges, baseline, undone, kernel, allowed, dialled, restore, hushed, sessions,
                   running, rpcLock, task, sweep, lost, peerRun>>

(***************************************************************************)
(* Daemons and sessions end by themselves; a restart asks for restoration. *)
(***************************************************************************)
Outage ==
    /\ peerBudget.outages > 0
    /\ peerBudget' = [peerBudget EXCEPT !.outages = @ - 1]
SessionEnds(p) ==
    /\ Outage
    /\ p \in sessions /\ sessions' = sessions \ {p} /\ lost' = lost \union {p}
    /\ UNCHANGED <<edges, baseline, undone, kernel, allowed, dialled, policies, config, restore, hushed,
                   running, rpcLock, task, sweep, reported, peerRun>>
NodeDown(n) ==
    /\ Outage
    /\ n \in running /\ running' = running \ {n}
    /\ sessions' = {p \in sessions : n \notin p}
    /\ lost' = lost \union {p \in sessions : n \in p}
    /\ UNCHANGED <<edges, baseline, undone, kernel, allowed, dialled, policies, config, restore, hushed,
                   rpcLock, task, sweep, reported, peerRun>>
\* RestartNode, under the mutation lock: the daemon dials its configured
\* peers and RequestTopologyRestore follows.
RestartNode(n) ==
    /\ task = Idle /\ peerRun = "running" /\ n \notin running
    /\ running' = running \union {n}
    /\ sessions' \in {sessions, sessions \union {Pair(n, m) : m \in dialled[n] \cap running}}
    /\ lost' = {p \in lost : n \notin p}
    /\ restore' = [restore EXCEPT !.last = @ + 1, !.asked[n] = restore.last + 1]
    /\ UNCHANGED <<edges, baseline, undone, kernel, allowed, dialled, policies, config, hushed,
                   rpcLock, task, sweep, reported, peerRun, peerBudget>>

(***************************************************************************)
(* The enforcement thread                                                  *)
(***************************************************************************)
SortedNodes(S) == SetToSortSeq(S, <)
\* What EnforcePolicies goes through: the nodes with a policy, then for each
\* pending restoration the nodes its edges start from.
Affected(c) == {s \in PeerNodes : s = c \/ c \in allowed[s]}
Pending == {c \in PeerNodes : restore.asked[c] # restore.done[c]}
PolicyJobs == LET ns == SortedNodes(DOMAIN policies)
              IN [i \in DOMAIN ns |-> [kind |-> "policy", node |-> ns[i]]]
RestoreJobs(c) ==
    LET ns == SortedNodes(Affected(c))
    IN Append([i \in DOMAIN ns |-> [kind |-> "restore", node |-> ns[i], changed |-> c]],
              [kind |-> "complete", changed |-> c])
SweepJobs ==
    LET cs == SortedNodes(Pending)
    IN PolicyJobs \o FlattenSeq([i \in DOMAIN cs |-> RestoreJobs(cs[i])])

\* The snapshot, under the operation and restoration locks.
SweepStart ==
    /\ sweep = Asleep
    /\ sweep' = [at |-> "job", jobs |-> SweepJobs, seen |-> config, policies |-> policies,
                 allowed |-> allowed, asked |-> restore.asked, good |-> TRUE, work |-> <<>>]
    /\ UNCHANGED <<edges, baseline, undone, kernel, allowed, dialled, policies, config, restore, hushed,
                   sessions, running, rpcLock, task, reported, lost, peerRun, peerBudget>>

Job == Head(sweep.jobs)
Kept(ok) == IF Job.kind = "restore" THEN sweep.good /\ ok ELSE sweep.good
NextJob(ok) ==
    IF Len(sweep.jobs) = 1 THEN Asleep
    ELSE [sweep EXCEPT !.at = "job", !.jobs = Tail(@), !.work = <<>>,
                       !.good = IF Job.kind = "complete" THEN TRUE ELSE Kept(ok)]
SweepAlone(ok) ==
    /\ sweep' = NextJob(ok)
    /\ UNCHANGED <<edges, baseline, undone, kernel, allowed, dialled, policies, config, hushed,
                   sessions, running, rpcLock, task, reported, lost, peerRun, peerBudget>>

SweepRests ==
    /\ sweep.at = "job" /\ sweep.jobs = <<>>
    /\ sweep' = Asleep
    /\ UNCHANGED <<edges, baseline, undone, kernel, allowed, dialled, policies, config, restore, hushed,
                   sessions, running, rpcLock, task, reported, lost, peerRun, peerBudget>>
\* A node that is down, or that its policy looks after, is passed over.
SweepSkips ==
    /\ sweep.at = "job" /\ sweep.jobs # <<>> /\ Job.kind # "complete"
    /\ \/ Job.node \notin running /\ SweepAlone(FALSE)
       \/ /\ Job.node \in running /\ Job.kind = "restore"
          /\ Job.node \in DOMAIN sweep.policies
          /\ SweepAlone(TRUE)
    /\ UNCHANGED restore
\* The end of one restoration: complete when every source was restored, the
\* configuration is still the one of the snapshot, and no newer request came.
SweepCompletes ==
    /\ sweep.at = "job" /\ sweep.jobs # <<>> /\ Job.kind = "complete"
    /\ LET c == Job.changed
       IN restore' = IF /\ sweep.good /\ config = sweep.seen
                        /\ restore.asked[c] = sweep.asked[c]
                     THEN [restore EXCEPT !.done[c] = sweep.asked[c]] ELSE restore
    /\ SweepAlone(TRUE)

(* EnforcePolicy *)
Excluded ==
    IF Job.kind = "policy" THEN {}
    ELSE {m \in sweep.allowed[Job.node] : Job.node # Job.changed /\ m # Job.changed}
         \union {m \in PeerNodes : hushed[<<Job.node, m>>] > sweep.asked[Job.changed]}
Eligible == sweep.allowed[Job.node] \ Excluded
Candidates == Eligible \cap running
Bounds == IF Job.kind = "policy" THEN sweep.policies[Job.node]
          ELSE [min |-> Cardinality(Candidates), max |-> Cardinality(Candidates)]
Joined(n) == {m \in PeerNodes : Pair(n, m) \in sessions /\ m # n}
\* Sessions no edge of the snapshot needs in either direction.
Stray == {m \in Joined(Job.node) :
             m \notin sweep.allowed[Job.node] /\ Job.node \notin sweep.allowed[m]}
Plan ==
    LET has == Candidates \cap Joined(Job.node)
        hasNot == SortedNodes(Candidates \ has)
        held == SortedNodes(has)
        short == IF Cardinality(has) < Bounds.min THEN Bounds.min - Cardinality(has) ELSE 0
        spare == IF Cardinality(has) > Bounds.max THEN Cardinality(has) - Bounds.max ELSE 0
        todo(ns, on) == [i \in DOMAIN ns |-> [peer |-> ns[i], on |-> on]]
    IN todo(SortedNodes(Stray), FALSE)
       \o todo(SubSeq(hasNot, 1, short), TRUE)
       \o todo(Reverse(SubSeq(held, Len(held) - spare + 1, Len(held))), FALSE)
ReportFailure(sure) ==
    reported' = IF Job.kind = "policy" /\ (sure => config = sweep.seen)
                THEN reported \union {Job.node} ELSE reported
PolicyMet == reported' = IF Job.kind = "policy" THEN reported \ {Job.node} ELSE reported
SweepLooks ==
    /\ sweep.at = "job" /\ sweep.jobs # <<>> /\ Job.kind # "complete"
    /\ Job.node \in running
    /\ Job.kind = "restore" => Job.node \notin DOMAIN sweep.policies
    /\ rpcLock = "free"
    /\ \/ /\ config # sweep.seen
          /\ sweep' = NextJob(FALSE) /\ UNCHANGED <<rpcLock, reported, peerBudget>>
       \/ /\ config = sweep.seen
          /\ Job.kind = "policy" /\ Cardinality(Candidates) < Bounds.min
          /\ ReportFailure(TRUE)
          /\ sweep' = NextJob(FALSE) /\ UNCHANGED <<rpcLock, peerBudget>>
       \/ /\ config = sweep.seen
          /\ SpendFault /\ ReportFailure(TRUE)
          /\ sweep' = NextJob(FALSE) /\ UNCHANGED rpcLock
       \/ /\ config = sweep.seen /\ Bounds.min <= Cardinality(Candidates)
          /\ LET whole == Job.kind = "policy" \/ Candidates = Eligible
             IN IF Plan = <<>>
                THEN PolicyMet /\ sweep' = NextJob(whole) /\ UNCHANGED rpcLock
                ELSE /\ sweep' = [sweep EXCEPT !.at = "work", !.work = Plan,
                                               !.good = Kept(whole)]
                     /\ rpcLock' = "sweep" /\ UNCHANGED reported
          /\ UNCHANGED peerBudget
    /\ UNCHANGED <<edges, baseline, undone, kernel, allowed, dialled, policies, config, restore, hushed,
                   sessions, running, task, lost, peerRun>>

Step == Head(sweep.work)
StepPair == Pair(Job.node, Step.peer)
SweepWorks ==
    /\ sweep.at = "work"
    /\ \E how \in {"set", "takenBack", "unconfirmed"} :
          /\ SetPeerConnectionState(Job.node, StepPair, Step.on, how)
          /\ IF how = "set"
             THEN sweep' = [sweep EXCEPT !.at = "verify"] /\ UNCHANGED <<rpcLock, reported>>
             ELSE /\ sweep' = NextJob(FALSE) /\ rpcLock' = "free"
                  /\ ReportFailure(how = "takenBack")
    /\ UNCHANGED <<edges, baseline, undone, kernel, allowed, dialled, policies, config, restore, hushed,
                   running, task, peerRun>>
\* A step done under a configuration that is no longer current is reversed.
SweepReverses ==
    /\ sweep.at = "verify" /\ config # sweep.seen
    /\ \E how \in {"set", "takenBack", "unconfirmed"} :
          /\ SetPeerConnectionState(Job.node, StepPair, ~Step.on, how)
          /\ ReportFailure(how # "unconfirmed")
    /\ sweep' = NextJob(FALSE) /\ rpcLock' = "free"
    /\ UNCHANGED <<edges, baseline, undone, kernel, allowed, dialled, policies, config, restore, hushed,
                   running, task, peerRun>>
SweepProceeds ==
    /\ sweep.at = "verify" /\ config = sweep.seen
    /\ IF Len(sweep.work) = 1
       THEN sweep' = NextJob(TRUE) /\ rpcLock' = "free" /\ PolicyMet
       ELSE /\ sweep' = [sweep EXCEPT !.at = "work", !.work = Tail(@)]
            /\ UNCHANGED <<rpcLock, reported>>
    /\ UNCHANGED <<edges, baseline, undone, kernel, allowed, dialled, policies, config, restore, hushed,
                   sessions, running, task, lost, peerRun, peerBudget>>

Sweep == SweepStart \/ SweepRests \/ SweepSkips \/ SweepCompletes \/ SweepLooks
         \/ SweepWorks \/ SweepReverses \/ SweepProceeds
TaskStep == EdgeKernel \/ EdgeAllow \/ EdgePeerLook \/ EdgePeer \/ EdgeConfig \/ EdgePublish
            \/ UndoKernel \/ UndoAllowFirst \/ UndoPeerSkip \/ UndoPeerLook \/ UndoPeer
            \/ UndoAllowLast \/ UndoRest \/ ChurnChange \/ ChurnPublish
PeerNext ==
    \/ \E e \in DOMAIN edges :
          \E kind \in {"condition", "activate", "deactivate", "restore"} : EdgeBegin(kind, e)
    \/ \E e \in PeerNodes \X PeerNodes, on \in BOOLEAN : ChurnBegin(e, on)
    \/ \E n \in PeerNodes, p \in PeerPolicies : SetPolicy(n, p)
    \/ TaskStep
    \/ ChurnCancelled
    \/ \E p \in sessions : SessionEnds(p)
    \/ \E n \in PeerNodes : NodeDown(n) \/ RestartNode(n)
    \/ Sweep

(***************************************************************************)
(* Properties                                                              *)
(***************************************************************************)
PeerTypeOK ==
    /\ \A e \in DOMAIN edges : edges[e].active \in BOOLEAN /\ edges[e].condition \in BOOLEAN
    /\ \A n \in PeerNodes : allowed[n] \subseteq PeerNodes \ {n}
                            /\ dialled[n] \subseteq PeerNodes \ {n}
    /\ DOMAIN policies \subseteq PeerNodes
    /\ sessions \subseteq {Pair(a, b) : a, b \in PeerNodes}
    /\ \A p \in sessions : p \subseteq running
    /\ rpcLock \in {"free", "sweep"}
    /\ rpcLock = "sweep" <=> sweep.at \in {"work", "verify"}
    /\ peerRun \in {"running", "stopping"}

(* Between two operations the four records of an edge agree: the topology  *)
(* model, the kernel policies, the allowed peers and the restart peers.    *)
(* They are changed one after the other and any of them may fail, so this  *)
(* is what the rollback of ApplyTopologyEdgeWorkload is for; a run that    *)
(* goes on in disagreement refuses every later operation on the node.      *)
RecordsAgree ==
    task = Idle /\ peerRun = "running" => \A n \in PeerNodes : RecordsMatch(n)

(* Two conditions of one source never share a qdisc band, in the model and *)
(* in the kernel, however conditions, activations, baseline restores and   *)
(* rollbacks follow each other.                                            *)
BandsAreApart ==
    /\ \A d, e \in DOMAIN edges :
          /\ d # e /\ d[1] = e[1]
          /\ edges[d].active /\ edges[d].condition /\ edges[e].active /\ edges[e].condition
          => edges[d].band # edges[e].band
    /\ \A n \in PeerNodes : \A x, y \in kernel[n] :
          (x.band = y.band => x = y) /\ x.band \in 1 .. BandLimit

(* A pair of nodes without an active edge has no session once the          *)
(* operations have settled: what the enforcement thread did under a        *)
(* configuration that was replaced meanwhile is reversed before it lets go *)
(* of the RPC lock.  (While a failed activation is rolled back the peer is *)
(* still allowed, and a sweep may join the pair once more.)                *)
SessionFollowsEdge ==
    task = Idle /\ peerRun = "running" /\ rpcLock = "free" =>
       \A a, b \in PeerNodes :
          Pair(a, b) \in sessions => SessionRequired(edges, a, b) \/ Pair(a, b) \in undone

(* EnforcePolicy never connects an edge the operator disconnected after    *)
(* the restart whose restoration it is carrying out.                       *)
DisconnectIsRespected ==
    [][sweep.at = "work" /\ sessions' # sessions /\ Step.on /\ Job.kind = "restore"
         /\ StepPair \in sessions'
         => hushed[<<Job.node, Step.peer>>] <= restore.asked[Job.changed]]_peerVars

(* A restoration is marked complete only when each edge it covers has its  *)
(* session, or lost it again, or an operator disconnected its ends since.   *)
CompletionIsEarned ==
    [][\A c \in PeerNodes : restore'.done[c] # restore.done[c] =>
          \A s \in Affected(c) \ DOMAIN policies :
             \A m \in allowed[s] :
                \/ s # c /\ m # c
                \/ Pair(s, m) \in sessions \/ Pair(s, m) \in lost
                \/ hushed[<<s, m>>] > restore.asked[c]
                \/ hushed[<<m, s>>] > restore.asked[c]]_peerVars

(* A requested restoration is carried out when every node runs: the        *)
(* sweeps that find the configuration changed start again.                 *)
RestorationEnds ==
    \A n \in PeerNodes :
       []<>(restore.asked[n] = restore.done[n] \/ running # PeerNodes)

(* A node whose policy can be met is brought within its peer counts again  *)
(* and again, whatever the other nodes' policies do to it.                 *)
InBounds(n) ==
    LET k == Cardinality(allowed[n] \cap running \cap Joined(n))
    IN policies[n].min <= k /\ k <= policies[n].max
PolicyIsEnforced ==
    \A n \in PeerNodes :
       []<>(HasPolicy(n) /\ n \in running
              /\ policies[n].min <= Cardinality(allowed[n] \cap running) => InBounds(n))

\* The records of a peer edge agree with one another and with the session it
\* stands for.
PeersCorrect ==
    /\ PeerTypeOK
    /\ RecordsAgree
    /\ BandsAreApart
    /\ SessionFollowsEdge

=============================================================================
