-------------------------- MODULE NodeReplacement --------------------------
(***************************************************************************)
(* The node-replace command: ReplaceRuntimeNodeTransactional and the       *)
(* handler around it.  A candidate daemon is proved on a clone of the      *)
(* node's root, the old daemon is stopped, the candidate is started on the *)
(* live root and the inventory is switched to it; any failure before the   *)
(* switch runs a best-effort rollback whose errors decide whether the      *)
(* failure is definite.                                                    *)
(*                                                                         *)
(* The steps are the calls that can throw.  The operation is cancelled and *)
(* either daemon exits between any two of them.  The simulator may be      *)
(* killed in any state: what an invariant says of every state is what      *)
(* recovery finds.  Limits, network condition and daemon are the ones the  *)
(* inventory's record of the node names ("recorded") or not ("other").     *)
(***************************************************************************)
EXTENDS Naturals, FiniteSets

CONSTANTS
    Requests,        \* the replacements that may be asked for
    MaxReplFaults,   \* failing calls and daemons that exit by themselves
    MaxReplacements  \* commands of one behaviour

ASSUME ReplacementBounds ==
    MaxReplFaults \in Nat /\ MaxReplacements \in Nat \ {0}

Request == [resources : BOOLEAN, network : BOOLEAN, scheduled : BOOLEAN,
            native : BOOLEAN]

ASSUME RequestsAreRequests == Requests \subseteq Request

Applied == {"recorded", "other"}

VARIABLES
    at,      \* the step the command is at
    req,     \* the request it carries out
    rootHost,    \* what the kernel and the disk hold
    exchange,      \* the transaction's local flags
    node,    \* the daemon of the inventory's runtime record
    cand,    \* where the candidate daemon runs, and whether it mines
    miner,   \* the scheduled block producer of the node
    run,     \* the run: generation, published events, last answer
    replFaults

replVars == <<at, req, rootHost, exchange, node, cand, miner, run, replFaults>>

FreshTx == [frozen |-> FALSE, root |-> FALSE, limits |-> FALSE,
            network |-> FALSE, events |-> FALSE, scope |-> FALSE,
            committing |-> FALSE, published |-> FALSE, errors |-> FALSE,
            expired |-> FALSE, restored |-> FALSE, same |-> FALSE,
            base |-> 0, verdict |-> "none"]

NoCandidate == [on |-> "none", mines |-> FALSE]

ReplFault   == replFaults < MaxReplFaults /\ replFaults' = replFaults + 1
NoReplFault == UNCHANGED replFaults

\* A call with the operation's stop token throws when it is cancelled, and
\* any call may fail.
ReplThrows == (run.cancel /\ NoReplFault) \/ ReplFault

Becomes(pairs) == \E p \in pairs : rootHost' = p[1] /\ exchange' = p[2]

\* One call of the forward path that touches the host and the flags: it
\* returns with one of `good' or throws with one of `bad', both sets of
\* <<host, tx>> pairs.
Call(from, next, good, bad) ==
    /\ at = from
    /\ \/ Becomes(good) /\ at' = next /\ NoReplFault
       \/ Becomes(bad) /\ at' = "catch" /\ ReplThrows
    /\ UNCHANGED <<req, node, cand, miner, run>>

Same == {<<rootHost, exchange>>}

-----------------------------------------------------------------------------
(* The environment.                                                        *)

\* The node's daemon exits: because it was told to, or by itself.
NodeExits ==
    /\ node.run
    /\ IF node.doomed THEN NoReplFault ELSE ReplFault
    /\ node' = [node EXCEPT !.run = FALSE, !.doomed = FALSE, !.mines = FALSE]
    /\ UNCHANGED <<at, req, rootHost, exchange, cand, miner, run>>

CandidateExits ==
    /\ cand.on # "none" /\ cand' = NoCandidate /\ ReplFault
    /\ UNCHANGED <<at, req, rootHost, exchange, node, miner, run>>

\* The operation is cancelled or its deadline passes; TryBeginCommit
\* excludes it.
CancelReplacement ==
    /\ at # "idle" /\ ~run.cancel /\ ~exchange.committing
    /\ run' = [run EXCEPT !.cancel = TRUE]
    /\ UNCHANGED <<at, req, rootHost, exchange, node, cand, miner, replFaults>>

\* The rollback has a deadline of its own.
RollbackExpires ==
    /\ at \in {"rbThaw", "rbStop", "rbNetwork", "rbLimits", "rbProcess",
               "rbVerify", "rbMine", "rbScope", "rbRoot", "rbManifest",
               "rbEvents"}
    /\ ~exchange.expired /\ ReplFault
    /\ exchange' = [exchange EXCEPT !.expired = TRUE]
    /\ UNCHANGED <<at, req, rootHost, node, cand, miner, run>>

-----------------------------------------------------------------------------
(* Admission.                                                              *)

\* The handler takes the mining intent and parks the scheduled miner.
BeginReplace ==
    /\ at = "idle" /\ ~run.stop /\ run.left > 0
    /\ \E r \in Requests :
         /\ r.scheduled = (miner.active \/ miner.paused)
         /\ r.native = node.marked
         /\ req' = r
         /\ miner' = IF r.scheduled THEN [active |-> FALSE, paused |-> TRUE]
                     ELSE miner
    /\ run' = [run EXCEPT !.left = @ - 1, !.cancel = FALSE, !.answer = "none"]
    /\ exchange' = [FreshTx EXCEPT !.base = run.generation]
    /\ at' = "admit"
    /\ UNCHANGED <<rootHost, node, cand, replFaults>>

\* A refusal before the transaction's try block: nothing was touched, so
\* there is no rollback.
Refused == at' = "restore" /\ exchange' = [exchange EXCEPT !.verdict = "failed"]

\* Refused: the node does not run, a workload or an observation is pending,
\* or the stored manifest is not the inventory's.
AdmitReplace ==
    /\ at = "admit"
    /\ LET fit == node.run /\ node.life = "Running" /\ rootHost.manifest = "prior" IN
       \/ fit /\ at' = "reserve" /\ UNCHANGED exchange /\ NoReplFault
       \/ ~fit /\ Refused /\ NoReplFault
       \/ fit /\ Refused /\ ReplFault
    /\ UNCHANGED <<req, rootHost, node, cand, miner, run>>

\* The staging root's name and the candidate's temporary ports, neither of
\* which may collide with what exists.
ReserveStaging ==
    /\ at = "reserve"
    /\ \/ rootHost.root = "none" /\ at' = "stage" /\ UNCHANGED exchange /\ NoReplFault
       \/ Refused /\ ReplFault
    /\ UNCHANGED <<req, rootHost, node, cand, miner, run>>

-----------------------------------------------------------------------------
(* Forward: the candidate is proved in a staging root.                     *)

WithReplaced(h, t) == <<h, t>>

\* The staged event file must not exist yet. WriteText may have created it
\* when it throws; staged_events_created is not set then.
StageEvents ==
    \/ /\ ~rootHost.staged
       /\ LET created == [rootHost EXCEPT !.staged = TRUE]
          IN  Call("stage", "pend", {WithReplaced(created, [exchange EXCEPT !.events = TRUE])},
                   Same \cup {WithReplaced(created, exchange)})
    \/ /\ at = "stage" /\ rootHost.staged /\ at' = "catch"
       /\ UNCHANGED <<req, rootHost, exchange, node, cand, miner, run, replFaults>>

\* A manifest write throws before or after the rename.
WritePending ==
    Call("pend", "freeze", {WithReplaced([rootHost EXCEPT !.manifest = "pending"], exchange)},
         Same \cup {WithReplaced([rootHost EXCEPT !.manifest = "pending"], exchange)})

FreezeForClone ==
    Call("freeze", "clone",
         {WithReplaced([rootHost EXCEPT !.frozen = TRUE], [exchange EXCEPT !.frozen = TRUE])},
         {WithReplaced([rootHost EXCEPT !.frozen = f], [exchange EXCEPT !.frozen = TRUE]) :
            f \in BOOLEAN})

\* CloneRuntimeNodeRootForReplacement reports through `acquired' whether
\* the directory exists, also when it throws half-way.  A directory without
\* its ownership marker is "bare".
Cloned == WithReplaced([rootHost EXCEPT !.root = "copy"], [exchange EXCEPT !.root = TRUE])
CloneThrows ==
    {WithReplaced([rootHost EXCEPT !.root = r], [exchange EXCEPT !.root = (r # "none")]) :
       r \in {"none", "bare", "partial"}}

CloneRoot == Call("clone", "thaw", {Cloned}, CloneThrows)

ThawAfterClone ==
    Call("thaw", "scope",
         {WithReplaced([rootHost EXCEPT !.frozen = FALSE], [exchange EXCEPT !.frozen = FALSE])},
         {WithReplaced([rootHost EXCEPT !.frozen = f], exchange) : f \in BOOLEAN})

\* The candidate's own cgroup with the final limits. CreateShared removes what
\* it made when it throws; when that fails too, its caller never hears of the
\* empty cgroup. One left under the staging name is in the way.
CreateScope ==
    \/ /\ ~rootHost.scope
       /\ LET made == [rootHost EXCEPT !.scope = TRUE]
              held == WithReplaced(made, [exchange EXCEPT !.scope = TRUE])
          IN  Call("scope", "startStaged", {held},
                   Same \cup {held, WithReplaced(made, exchange)})
    \/ /\ at = "scope" /\ rootHost.scope /\ at' = "catch"
       /\ UNCHANGED <<req, rootHost, exchange, node, cand, miner, run, replFaults>>

\* start_node: on a throw the daemon may or may not run.
StartOn(from, next, place) ==
    /\ at = from
    /\ \/ cand' = [on |-> place, mines |-> FALSE] /\ at' = next /\ NoReplFault
       \/ /\ cand' \in {NoCandidate, [on |-> place, mines |-> FALSE]}
          /\ at' = "catch" /\ ReplThrows
    /\ UNCHANGED <<req, rootHost, exchange, node, miner, run>>

StartStaged == StartOn("startStaged", "syncStaged", "staging")

\* Staged synchronisation gives up at once when the old daemon is gone, and
\* cannot succeed without the candidate.
SyncStaged ==
    /\ at = "syncStaged"
    /\ \/ node.run /\ cand.on = "staging" /\ at' = "register" /\ NoReplFault
       \/ at' = "catch" /\ (\/ ReplThrows
                            \/ ~node.run /\ NoReplFault
                            \/ cand.on = "none" /\ NoReplFault)
    /\ UNCHANGED <<req, rootHost, exchange, node, cand, miner, run>>

\* The peer edges to restore, the RPC mutation lease and the prepared
\* registration, none of which changes anything before its Commit.
PreparePeers == Call("register", "stopStaged", Same, Same)

\* stop_node on the candidate; one that has exited is refused.
StopStaged ==
    /\ at = "stopStaged"
    /\ \/ cand.on = "staging" /\ cand' = NoCandidate /\ at' = "dropScope"
          /\ NoReplFault
       \/ /\ cand' \in {cand, NoCandidate} /\ at' = "catch"
          /\ (ReplThrows \/ (cand.on = "none" /\ NoReplFault))
    /\ UNCHANGED <<req, rootHost, exchange, node, miner, run>>

DropScope ==
    Call("dropScope", "stopOld",
         {WithReplaced([rootHost EXCEPT !.scope = FALSE], [exchange EXCEPT !.scope = FALSE])},
         Same \cup {WithReplaced([rootHost EXCEPT !.scope = FALSE], exchange)})

-----------------------------------------------------------------------------
(* Forward: the old daemon is stopped and the candidate takes its root.    *)

StopOld ==
    /\ at = "stopOld"
    /\ IF node.run /\ node.life = "Running" /\ ~run.cancel
       THEN at' = "stopRpc" /\ node' = [node EXCEPT !.life = "Stopping"]
       ELSE at' = "catch" /\ UNCHANGED node
    /\ UNCHANGED <<req, rootHost, exchange, cand, miner, run, replFaults>>

\* StopNodeProcess without an operation control: when it throws, the
\* process decides whether the node is Running or Stopped, also if the
\* daemon has already been told to exit.
StopThrew(n) == [n EXCEPT !.life = IF n.run THEN "Running" ELSE "Stopped"]

StopOldRpc ==
    /\ at = "stopRpc"
    /\ LET told == [node EXCEPT !.doomed = node.run] IN
       \/ node' = told /\ at' = "stopWait" /\ NoReplFault
       \/ node' \in {StopThrew(node), StopThrew(told)} /\ at' = "catch" /\ ReplThrows
    /\ UNCHANGED <<req, rootHost, exchange, cand, miner, run>>

StopOldWait ==
    /\ at = "stopWait"
    /\ \/ ~node.run /\ node' = [node EXCEPT !.life = "Stopped"]
          /\ at' = "dropRoot" /\ NoReplFault
       \/ node.run /\ node' = StopThrew(node) /\ at' = "catch" /\ ReplThrows
    /\ UNCHANGED <<req, rootHost, exchange, cand, miner, run>>

\* RemoveRuntimeNodeRoot: contents, marker, directory.
RootGone == WithReplaced([rootHost EXCEPT !.root = "none"], [exchange EXCEPT !.root = FALSE])
RemovalThrows ==
    IF rootHost.root = "none" THEN Same
    ELSE {WithReplaced([rootHost EXCEPT !.root = r], exchange) : r \in {rootHost.root, "partial", "bare"}}

DropRoot == Call("dropRoot", "backup", {RootGone}, RemovalThrows)

\* A second clone, of the root as the old daemon left it.
BackupRoot == Call("backup", "limits", {Cloned}, CloneThrows)

\* The flag that asks the rollback to restore is set before the write.
ApplyLimits ==
    Call("limits", "network",
         IF ~req.resources THEN Same
         ELSE {WithReplaced([rootHost EXCEPT !.limits = "other"], [exchange EXCEPT !.limits = TRUE])},
         IF ~req.resources THEN {}
         ELSE {WithReplaced([rootHost EXCEPT !.limits = l], [exchange EXCEPT !.limits = TRUE]) :
                 l \in Applied})

ApplyNetwork ==
    Call("network", "startLive",
         IF ~req.network THEN Same
         ELSE {WithReplaced([rootHost EXCEPT !.network = "other"], [exchange EXCEPT !.network = TRUE])},
         IF ~req.network THEN {}
         ELSE {WithReplaced([rootHost EXCEPT !.network = l], [exchange EXCEPT !.network = TRUE]) :
                 l \in Applied})

StartLive == StartOn("startLive", "ready", "live")

\* Peer edges, synchronisation to at least the staged tip, the masternode
\* and native mining.
ReadyLive ==
    /\ at = "ready"
    /\ \/ cand.on = "live" /\ cand' = [cand EXCEPT !.mines = req.native]
          /\ at' = "prepare" /\ NoReplFault
       \/ /\ at' = "catch"
          /\ cand' \in {cand, [cand EXCEPT !.mines = req.native /\ cand.on = "live"]}
          /\ (ReplThrows \/ (cand.on = "none" /\ NoReplFault))
    /\ UNCHANGED <<req, rootHost, exchange, node, miner, run>>

-----------------------------------------------------------------------------
(* Forward: publication.                                                   *)

\* The publication lock, PrepareReplacement and the staged event records.
PreparePublication == Call("prepare", "begin", Same, Same)

BeginCommit ==
    /\ at = "begin"
    /\ IF run.cancel THEN at' = "catch" /\ UNCHANGED exchange
       ELSE at' = "mark" /\ exchange' = [exchange EXCEPT !.committing = TRUE]
    /\ UNCHANGED <<req, rootHost, node, cand, miner, run, replFaults>>

WriteCommitted ==
    Call("mark", "publish", {WithReplaced([rootHost EXCEPT !.manifest = "committed"], exchange)},
         Same \cup {WithReplaced([rootHost EXCEPT !.manifest = "committed"], exchange)})

Switched ==
    /\ node' = [node EXCEPT !.run = (cand.on = "live"), !.doomed = FALSE,
                            !.life = "Running", !.mines = cand.mines]
    /\ cand' = NoCandidate
    /\ rootHost' = [rootHost EXCEPT !.limits = "recorded", !.network = "recorded"]
    /\ run' = [run EXCEPT !.generation = @ + 1]

\* The prepared registration and inventory are committed without throwing.
PublishReplacement ==
    /\ at = "publish" /\ Switched /\ at' = "retire"
    /\ exchange' = [exchange EXCEPT !.published = TRUE]
    /\ UNCHANGED <<req, miner, replFaults>>

RetireRoot == Call("retire", "settle", {RootGone}, RemovalThrows)

\* Written and read back.
SettleManifest ==
    Call("settle", "announce", {WithReplaced([rootHost EXCEPT !.manifest = "prior"], exchange)},
         Same \cup {WithReplaced([rootHost EXCEPT !.manifest = "prior"], exchange)})

\* The generation event and then the staged records.
Announce ==
    /\ at = "announce"
    /\ \/ run' = [run EXCEPT !.logged = @ + 1] /\ at' = "unstage" /\ NoReplFault
       \/ /\ run' \in {run, [run EXCEPT !.logged = @ + 1]} /\ at' = "catch"
          /\ ReplFault
    /\ UNCHANGED <<req, rootHost, exchange, node, cand, miner>>

EventsGone == WithReplaced([rootHost EXCEPT !.staged = FALSE], [exchange EXCEPT !.events = FALSE])

UnstageEvents ==
    Call("unstage", "restore",
         {<<EventsGone[1], [EventsGone[2] EXCEPT !.verdict = "done"]>>}, Same)

-----------------------------------------------------------------------------
(* The handler of ReplaceRuntimeNodeTransactional.                         *)

\* After publication only the staged events are removed, and the outcome is
\* unconfirmed whatever comes of that.
CatchReplace ==
    /\ at = "catch"
    /\ IF exchange.published
       THEN /\ at' = "restore"
            /\ \/ rootHost' = [rootHost EXCEPT !.staged = @ /\ ~exchange.events] /\ NoReplFault
               \/ exchange.events /\ UNCHANGED rootHost /\ ReplFault
            /\ exchange' = [exchange EXCEPT !.verdict = "unconfirmed"]
       ELSE at' = "rbThaw" /\ UNCHANGED <<rootHost, exchange>> /\ NoReplFault
    /\ UNCHANGED <<req, node, cand, miner, run>>

\* One rollback_step: skipped, done, or recorded as an error (at once after
\* the rollback's deadline).
Erred(t) == [t EXCEPT !.errors = TRUE]

RollbackStep(from, next, needed, good, bad) ==
    /\ at = from /\ at' = next
    /\ \/ ~needed /\ Becomes(Same) /\ NoReplFault
       \/ needed /\ ~exchange.expired /\ Becomes({good}) /\ NoReplFault
       \/ needed /\ ~exchange.expired /\ ReplFault
          /\ Becomes({<<p[1], Erred(p[2])>> : p \in bad})
       \/ needed /\ exchange.expired /\ Becomes({<<rootHost, Erred(exchange)>>}) /\ NoReplFault
    /\ UNCHANGED <<req, node, cand, miner, run>>

RollbackThaw ==
    RollbackStep("rbThaw", "rbStop", exchange.frozen \/ rootHost.frozen,
        WithReplaced([rootHost EXCEPT !.frozen = FALSE], [exchange EXCEPT !.frozen = FALSE]), Same)

\* The graceful stop falls back to SIGTERM and SIGKILL; a survivor is an
\* error of the rollback and nothing more.
RollbackStop ==
    /\ at = "rbStop" /\ at' = "rbNetwork"
    /\ \/ cand' = NoCandidate /\ (exchange.expired => cand.on = "none")
          /\ UNCHANGED exchange /\ NoReplFault
       \/ /\ cand.on # "none" /\ UNCHANGED cand /\ exchange' = Erred(exchange)
          /\ IF exchange.expired THEN NoReplFault ELSE ReplFault
    /\ UNCHANGED <<req, rootHost, node, miner, run>>

RollbackNetwork ==
    RollbackStep("rbNetwork", "rbLimits", exchange.network,
        WithReplaced([rootHost EXCEPT !.network = "recorded"], [exchange EXCEPT !.network = FALSE]),
        Same)

RollbackLimits ==
    RollbackStep("rbLimits", "rbProcess", exchange.limits,
        WithReplaced([rootHost EXCEPT !.limits = "recorded"], [exchange EXCEPT !.limits = FALSE]),
        Same)

\* The original daemon is kept when it still runs; otherwise it is started
\* again on the live root.
RollbackProcess ==
    /\ at = "rbProcess" /\ at' = "rbVerify"
    /\ \/ /\ node.run /\ node' = [node EXCEPT !.life = "Running"]
          /\ exchange' = [exchange EXCEPT !.restored = TRUE, !.same = TRUE] /\ NoReplFault
       \/ /\ ~node.run /\ ~exchange.expired /\ NoReplFault
          /\ node' = [node EXCEPT !.run = TRUE, !.doomed = FALSE, !.life = "Running"]
          /\ exchange' = [exchange EXCEPT !.restored = TRUE]
       \/ /\ ~node.run /\ exchange' = Erred(exchange)
          /\ IF exchange.expired THEN UNCHANGED node /\ NoReplFault
             ELSE /\ ReplFault
                  /\ node' \in {[node EXCEPT !.run = r, !.life = "Restarting"] :
                                  r \in BOOLEAN}
    /\ UNCHANGED <<req, rootHost, cand, miner, run>>

\* The restored daemon must synchronise, which it cannot do once it is gone.
RollbackVerify ==
    /\ at = "rbVerify" /\ at' = "rbMine"
    /\ \/ exchange.restored /\ node.run /\ ~exchange.expired /\ UNCHANGED exchange /\ NoReplFault
       \/ /\ exchange' = Erred(exchange)
          /\ IF exchange.restored /\ node.run /\ ~exchange.expired THEN ReplFault
             ELSE NoReplFault
    /\ UNCHANGED <<req, rootHost, node, cand, miner, run>>

RollbackMine ==
    /\ at = "rbMine" /\ at' = "rbScope"
    /\ \/ ~(req.native /\ exchange.restored /\ ~exchange.same)
          /\ UNCHANGED <<node, exchange>> /\ NoReplFault
       \/ /\ req.native /\ exchange.restored /\ ~exchange.same
          /\ \/ /\ node.run /\ ~exchange.expired /\ node' = [node EXCEPT !.mines = TRUE]
                /\ UNCHANGED exchange /\ NoReplFault
             \/ /\ UNCHANGED node /\ exchange' = Erred(exchange)
                /\ IF node.run /\ ~exchange.expired THEN ReplFault ELSE NoReplFault
    /\ UNCHANGED <<req, rootHost, cand, miner, run>>

RollbackScope ==
    RollbackStep("rbScope", "rbRoot", exchange.scope,
        WithReplaced([rootHost EXCEPT !.scope = FALSE], [exchange EXCEPT !.scope = FALSE]), Same)

RollbackRoot ==
    RollbackStep("rbRoot", "rbManifest", exchange.root /\ exchange.restored, RootGone,
                 RemovalThrows)

\* The prior manifest, or a pending one that keeps the staging root listed.
ManifestOf(clean) ==
    WithReplaced([rootHost EXCEPT !.manifest = IF clean THEN "prior" ELSE "pending"], exchange)

\* Mutant: the rollback takes the exchange for undone.
OptimisticManifest ==
    RollbackStep("rbManifest", "rbEvents", TRUE, ManifestOf(TRUE),
                 {WithReplaced(rootHost, exchange), ManifestOf(TRUE)})

RollbackReplacedManifest ==
    LET written == ManifestOf(exchange.restored /\ ~exchange.root) IN
    RollbackStep("rbManifest", "rbEvents", TRUE, written, {WithReplaced(rootHost, exchange), written})

RollbackEvents ==
    RollbackStep("rbEvents", "rolled", exchange.events, EventsGone, Same)

\* Any rollback error makes the failure unconfirmed.
RolledBack ==
    /\ at = "rolled" /\ at' = "restore"
    /\ exchange' = [exchange EXCEPT !.verdict = IF exchange.errors THEN "unconfirmed" ELSE "failed"]
    /\ UNCHANGED <<req, rootHost, node, cand, miner, run, replFaults>>

-----------------------------------------------------------------------------
(* The command handler.                                                    *)

ReplaceAnswered(answer, stop) ==
    /\ at' = "idle"
    /\ run' = [run EXCEPT !.answer = answer, !.stop = @ \/ stop]

\* restore_scheduled_miner, which refuses a node that does not run; an
\* unconfirmed outcome leaves the miner parked and stops the run.
RestoreMiner ==
    /\ at = "restore"
    /\ \/ /\ exchange.verdict = "unconfirmed" /\ ReplaceAnswered("unconfirmed", TRUE)
          /\ UNCHANGED miner /\ NoReplFault
       \/ /\ exchange.verdict # "unconfirmed" /\ ~req.scheduled
          /\ UNCHANGED <<miner, run>> /\ NoReplFault /\ at' = "report"
       \/ /\ exchange.verdict # "unconfirmed" /\ req.scheduled /\ node.run
          /\ miner' = [active |-> TRUE, paused |-> FALSE]
          /\ UNCHANGED run /\ at' = "report" /\ NoReplFault
       \/ /\ exchange.verdict # "unconfirmed" /\ req.scheduled
          /\ IF node.run THEN ReplFault ELSE NoReplFault
          /\ UNCHANGED miner /\ ReplaceAnswered("unconfirmed", TRUE)
    /\ UNCHANGED <<req, rootHost, exchange, node, cand>>

\* A published replacement whose completion event cannot be written is
\* unconfirmed, not failed.
ReportReplace ==
    /\ at = "report"
    /\ \/ ReplaceAnswered(exchange.verdict, FALSE) /\ NoReplFault
       \/ exchange.verdict = "done" /\ ReplaceAnswered("unconfirmed", FALSE) /\ ReplFault
    /\ UNCHANGED <<req, rootHost, exchange, node, cand, miner>>

-----------------------------------------------------------------------------

ReplInit ==
    /\ at = "idle" /\ req \in Requests /\ exchange = FreshTx
    /\ rootHost = [frozen |-> FALSE, limits |-> "recorded", network |-> "recorded",
               root |-> "none", scope |-> FALSE, staged |-> FALSE,
               manifest |-> "prior"]
    /\ node = [run |-> TRUE, doomed |-> FALSE, life |-> "Running",
               marked |-> req.native, mines |-> req.native]
    /\ cand = NoCandidate
    /\ miner = [active |-> req.scheduled, paused |-> FALSE]
    /\ run = [generation |-> 0, logged |-> 0, answer |-> "none", stop |-> FALSE,
              cancel |-> FALSE, left |-> MaxReplacements]
    /\ replFaults = 0

ForwardStep ==
    \/ AdmitReplace \/ ReserveStaging \/ StageEvents \/ WritePending
    \/ FreezeForClone \/ CloneRoot \/ ThawAfterClone \/ CreateScope \/ StartStaged \/ SyncStaged \/ PreparePeers
    \/ StopStaged \/ DropScope \/ StopOld \/ StopOldRpc \/ StopOldWait \/ DropRoot
    \/ BackupRoot \/ ApplyLimits \/ ApplyNetwork \/ StartLive \/ ReadyLive
    \/ PreparePublication \/ BeginCommit \/ WriteCommitted \/ PublishReplacement
    \/ RetireRoot \/ SettleManifest \/ Announce \/ UnstageEvents

BackwardStep ==
    \/ CatchReplace \/ RollbackThaw \/ RollbackStop \/ RollbackNetwork
    \/ RollbackLimits \/ RollbackProcess \/ RollbackVerify \/ RollbackMine
    \/ RollbackScope \/ RollbackRoot \/ RollbackReplacedManifest \/ RollbackEvents
    \/ RolledBack \/ RestoreMiner \/ ReportReplace

ReplNext ==
    \/ BeginReplace \/ ForwardStep \/ BackwardStep
    \/ NodeExits \/ CandidateExits \/ CancelReplacement \/ RollbackExpires

-----------------------------------------------------------------------------
(* Properties.                                                             *)

\* The type invariant of the replacement.
ReplTypeOK ==
    /\ req \in Request
    /\ rootHost \in [frozen : BOOLEAN, limits : Applied, network : Applied,
                 root : {"none", "bare", "partial", "copy"}, scope : BOOLEAN,
                 staged : BOOLEAN, manifest : {"prior", "pending", "committed"}]
    /\ exchange \in [frozen : BOOLEAN, root : BOOLEAN, limits : BOOLEAN,
               network : BOOLEAN, events : BOOLEAN, scope : BOOLEAN,
               committing : BOOLEAN, published : BOOLEAN, errors : BOOLEAN,
               expired : BOOLEAN, restored : BOOLEAN, same : BOOLEAN,
               base : Nat,
               verdict : {"none", "failed", "done", "unconfirmed"}]
    /\ node \in [run : BOOLEAN, doomed : BOOLEAN, marked : BOOLEAN,
                 mines : BOOLEAN,
                 life : {"Running", "Stopping", "Stopped", "Restarting"}]
    /\ cand \in [on : {"none", "staging", "live"}, mines : BOOLEAN]
    /\ miner \in [active : BOOLEAN, paused : BOOLEAN]
    /\ run.answer \in {"none", "failed", "done", "unconfirmed"}
    /\ replFaults \in 0..MaxReplFaults

\* Wherever the simulator is killed, a staging root on the disk is one the
\* stored manifest names (WriteRuntimeNodeResourceManifest precedes the
\* clone, and the rollback retains the entry until the root is gone).
StagingIsListed == rootHost.root # "none" => rootHost.manifest # "prior"

\* Nothing of a replacement that it knew of is left on the host: only a call
\* that failed and could not clean up after itself leaves an event file or a
\* cgroup, both empty, that the transaction has no mark of.
Whole ==
    /\ [rootHost EXCEPT !.staged = @ /\ exchange.events, !.scope = @ /\ exchange.scope]
         = [frozen |-> FALSE, limits |-> "recorded", network |-> "recorded",
               root |-> "none", scope |-> FALSE, staged |-> FALSE,
               manifest |-> "prior"]
    /\ cand.on = "none" /\ ~miner.paused

\* A replacement that leaves anything behind it has taken (a frozen cgroup,
\* limits or a network condition the node's record does not name, a staging
\* root, cgroup or event file, a pending manifest, a second daemon, a parked
\* miner) says that its outcome is unconfirmed and stops the run.
LeftoversStopTheRun ==
    at = "idle" /\ ~Whole => run.answer = "unconfirmed" /\ run.stop

\* A replacement that reports a definite failure did not publish, and one
\* that reports success published one generation and its event.
ReplaceAnswerIsTrue ==
    /\ at = "idle" /\ run.answer = "failed" => run.generation = exchange.base
    /\ at = "idle" /\ run.answer = "done" =>
         run.generation = exchange.base + 1 /\ run.logged >= 1

\* The old daemon and the candidate never run on the live root together,
\* unless the candidate outlived SIGKILL or the rollback's deadline, which
\* the rollback records as an error.
NeverTwoOnOneRoot == node.run /\ cand.on = "live" => exchange.errors

\* After a definite answer a node marked as a native miner mines if its
\* daemon runs: the candidate or the restarted daemon was told to mine.
NativeMinerMines ==
    at = "idle" /\ run.answer \in {"failed", "done"} /\ node.marked /\ node.run
      => node.mines

\* Every replacement is answered, whatever fails on the way.
ReplacementIsAnswered == at # "idle" ~> at = "idle"

\* What a replacement keeps: what it stages is listed, leftovers stop the run,
\* its answer is true, two daemons never share a root, and a native miner goes
\* on mining.
ReplacementCorrect ==
    /\ ReplTypeOK
    /\ StagingIsListed
    /\ LeftoversStopTheRun
    /\ ReplaceAnswerIsTrue
    /\ NeverTwoOnOneRoot
    /\ NativeMinerMines

=============================================================================
