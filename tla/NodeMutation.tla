---------------------------- MODULE NodeMutation ----------------------------
(***************************************************************************)
(* Runtime node addition and removal as the command processor executes     *)
(* them: the reservation of every candidate in the durable resource        *)
(* manifest, the preparation and start of the candidates, the change of    *)
(* policies and peers of the nodes that stay, the publication of the next  *)
(* inventory generation, the drain of the readers and the destruction of   *)
(* the retired nodes, the rollbacks, a crash at any step, and the offline  *)
(* cleanup that works from the manifest afterwards.                        *)
(*                                                                         *)
(* One mutation runs at a time (node_mutation_mutex).  Readers of the      *)
(* inventory (metrics collector, transaction observer, instrumentation)    *)
(* lease a generation and use its nodes without that lock.                 *)
(***************************************************************************)
EXTENDS Naturals, Sequences, FiniteSets

CONSTANTS
    Nodes,           \* node ids
    Initial,         \* the nodes the run starts with
    Readers,         \* threads that take RuntimeNodeSnapshots
    MaxGenerations,  \* bound: published generations
    MaxFaults        \* bound: steps of the environment that fail

ASSUME NodeMutationAssumption ==
    /\ Initial \subseteq Nodes
    /\ MaxGenerations \in Nat \ {0}
    /\ MaxFaults \in Nat

VARIABLES
    gens,       \* published generations, each the set of its nodes
    used,       \* used_node_ids_
    held,       \* the generation each reader leases, 0 for none
    roots,      \* nodes that have a node root on disk
    marked,     \* node roots that hold their ownership marker
    support,    \* nodes that have a process, cgroup or network namespace
    manifest,   \* runtime-node-resources.json: listed node -> state
    staged,     \* the staged event file exists
    docsAhead,  \* the capacity documents describe an unpublished capacity
    drift,      \* changes of surviving nodes' policies and peers, not published
    chain,      \* nodes with a masternode registration on the chain
    tx,         \* locals of the handler
    pc,         \* step of the handler, or of the run's end and cleanup
    cancel,     \* cancellation of the command was accepted
    outcome,    \* outcome of the last command
    faults      \* failures of the environment so far

durable == <<roots, marked, manifest, staged, docsAhead>>
inventory == <<gens, used>>
host == <<support, drift, chain>>
control == <<cancel, outcome>>
mutationVars ==
    <<gens, used, held, roots, marked, support, manifest, staged, docsAhead, drift,
     chain, tx, pc, cancel, outcome, faults>>

States == {"live", "pendingAdd", "pendingRemove"}
Handler == {"reserve", "prepare", "claim", "equip", "start", "policy", "peers",
            "sync", "register", "publish", "commit", "restore", "revoke",
            "stop", "reset", "reconcile", "unstage", "settle", "record", "mark",
            "unmark", "drain", "retire", "unlink", "rmdir", "promote"}
Cleaning == {"unlink", "rmdir", "rewrite"}
Ending == {"down", "done", "refused"}

NoTx == [kind |-> "none", ids |-> {}, masternode |-> FALSE, expands |-> FALSE,
         todo |-> {}, current |-> {}, acquired |-> {}, flagged |-> {},
         peers |-> FALSE, known |-> {}, verified |-> {}, errors |-> FALSE,
         failure |-> "none", published |-> FALSE, unrestored |-> FALSE]

Inventory == gens[Len(gens)]

\* The process of the run is there.
Running == pc \notin Ending /\ tx.kind # "offline"

\* The manifest that lists the nodes of S in state s, and m for the rest.
With(m, S, s) == [n \in DOMAIN m \cup S |-> IF n \in S THEN s ELSE m[n]]
Live(S) == [n \in S |-> "live"]

\* dependencies.resource_manifest of the snapshot the handler started from;
\* pending_manifest once every candidate is reserved; rollback_manifest.
PriorManifest == Live(Inventory)
PendingManifest == With(PriorManifest, tx.ids, "pendingAdd")
RollbackManifest == With(PriorManifest, tx.acquired \ tx.verified, "pendingAdd")

MutationInit ==
    /\ gens = <<Initial>>
    /\ used = Initial
    /\ held = [r \in Readers |-> 0]
    /\ roots = Initial
    /\ marked = Initial
    /\ support = Initial
    /\ manifest = Live(Initial)
    /\ staged = FALSE
    /\ docsAhead = FALSE
    /\ drift = {}
    /\ chain = {}
    /\ tx = NoTx
    /\ pc = "idle"
    /\ cancel = FALSE
    /\ outcome = "none"
    /\ faults = 0

-----------------------------------------------------------------------------
(* Exceptions.                                                             *)

Fault == faults < MaxFaults /\ faults' = faults + 1

\* A step throws: for a reason of its own, or because the stop token fired.
Throws(failure) ==
    \/ failure = "failed" /\ Fault
    \/ failure = "cancelled" /\ cancel /\ UNCHANGED faults

\* WriteRuntimeNodeResourceManifest writes a temporary, renames it over the
\* manifest and syncs the directory: when it throws, either file may be there.
WriteThrows(m) == Fault /\ manifest' \in {manifest, m}

\* A part of a rollback fails only through a fault.
FaultIf(failed) == IF failed THEN Fault ELSE UNCHANGED faults

\* The first step of the handler's catch block before publication.
CatchBlock == IF tx.kind = "add" THEN "revoke" ELSE "reset"

\* The handler ends.  An unconfirmed outcome stops the run.
Ends(result) ==
    /\ outcome' = result
    /\ pc' = IF result = "unconfirmed" THEN "stopping" ELSE "idle"
    /\ cancel' = FALSE

-----------------------------------------------------------------------------
(* Readers and the client.                                                 *)

\* RuntimeNodeInventory::Snapshot.  A prepared publication holds the mutex.
Lease(r) ==
    /\ held[r] = 0
    /\ Running
    /\ pc \notin {"commit", "restore"}
    /\ held' = [held EXCEPT ![r] = Len(gens)]
    /\ UNCHANGED <<inventory, durable, host, tx, pc, control, faults>>

Release(r) ==
    /\ held[r] # 0
    /\ held' = [held EXCEPT ![r] = 0]
    /\ UNCHANGED <<inventory, durable, host, tx, pc, control, faults>>

\* RequestCancellation: accepted until TryBeginCommit has won.
RequestCancellation ==
    /\ Running
    /\ pc \in Handler
    /\ ~tx.published
    /\ ~cancel
    /\ cancel' = TRUE
    /\ UNCHANGED <<inventory, held, durable, host, tx, pc, outcome, faults>>

-----------------------------------------------------------------------------
(* AddRuntimeNodesTransactional.                                           *)

\* The validation of either handler throws before the first change.
Refuse ==
    /\ pc = "idle"
    /\ outcome' = "failed"
    /\ UNCHANGED <<inventory, held, durable, host, tx, pc, cancel, faults>>

\* The candidates' ids were never used by this run and have no node root; the
\* stored manifest is the live inventory's; the event file is staged.
BeginAdd(S, masternode, expands) ==
    /\ pc = "idle"
    /\ Len(gens) < MaxGenerations
    /\ S \cap (used \cup roots) = {}
    /\ manifest = PriorManifest
    /\ staged' = TRUE
    /\ tx' = [NoTx EXCEPT !.kind = "add", !.ids = S, !.todo = S,
                          !.masternode = masternode, !.expands = expands]
    /\ pc' = "reserve"
    /\ outcome' = "none"
    /\ UNCHANGED <<inventory, held, roots, marked, manifest, docsAhead, host,
                   cancel,
                   faults>>

\* The staged event file cannot be created.
StageThrows(S) ==
    /\ pc = "idle"
    /\ Len(gens) < MaxGenerations
    /\ S \cap (used \cup roots) = {}
    /\ Fault
    /\ tx' = [NoTx EXCEPT !.kind = "add", !.ids = S, !.failure = "failed"]
    /\ pc' = "revoke"
    /\ outcome' = "none"
    /\ UNCHANGED <<inventory, held, durable, host, cancel>>

\* The candidate is listed as pending_add before any resource of it exists.
Reserve(n) ==
    /\ pc = "reserve"
    /\ n \in tx.todo
    /\ ~cancel
    /\ manifest' = With(manifest, {n}, "pendingAdd")
    /\ tx' = [tx EXCEPT !.todo = @ \ {n}, !.current = {n}]
    /\ pc' = "prepare"
    /\ UNCHANGED <<inventory, held, roots, marked, staged, docsAhead, host,
                   control,
                   faults>>

ReserveThrows(n, failure) ==
    /\ pc = "reserve"
    /\ n \in tx.todo
    /\ \/ failure = "failed" /\ WriteThrows(With(manifest, {n}, "pendingAdd"))
       \/ Throws(failure) /\ UNCHANGED manifest
    /\ tx' = [tx EXCEPT !.failure = failure]
    /\ pc' = CatchBlock
    /\ UNCHANGED <<inventory, held, roots, marked, staged, docsAhead, host,
                   control>>

\* PrepareRuntimeNodeRoot creates the directory of the node root ...
Prepare ==
    /\ pc = "prepare"
    /\ roots' = roots \cup tx.current
    /\ tx' = [tx EXCEPT !.acquired = @ \cup tx.current]
    /\ pc' = "claim"
    /\ UNCHANGED <<inventory, held, marked, manifest, staged, docsAhead, host,
                   control, faults>>

\* ... and then writes the ownership marker into it.
Claim ==
    /\ pc = "claim"
    /\ marked' = marked \cup tx.current
    /\ pc' = "equip"
    /\ UNCHANGED <<inventory, held, roots, manifest, staged, docsAhead, host,
                   tx,
                   control, faults>>

\* The marker cannot be written: the directory is removed again, or survives
\* and stays acquired.
ClaimThrows ==
    /\ pc = "claim"
    /\ Fault
    /\ \E gone \in SUBSET tx.current :
          /\ roots' = roots \ gone
          /\ tx' = [tx EXCEPT !.acquired = @ \ gone, !.failure = "failed"]
    /\ pc' = CatchBlock
    /\ UNCHANGED <<inventory, held, marked, manifest, staged, docsAhead, host,
                   control>>

\* The rest of PrepareNodeRuntime: cgroup, network namespace and policies.
Equip ==
    /\ pc = "equip"
    /\ support' = support \cup tx.current
    /\ pc' = IF tx.todo = {} THEN "start" ELSE "reserve"
    /\ UNCHANGED <<inventory, held, durable, drift, chain, tx, control, faults>>

EquipThrows(failure) ==
    /\ pc = "equip"
    /\ Throws(failure)
    /\ \E made \in SUBSET tx.current : support' = support \cup made
    /\ tx' = [tx EXCEPT !.failure = failure]
    /\ pc' = CatchBlock
    /\ UNCHANGED <<inventory, held, durable, drift, chain, control>>

StartNodes ==
    /\ pc = "start"
    /\ pc' = "policy"
    /\ UNCHANGED <<inventory, held, durable, host, tx, control, faults>>

\* Creating the node root, starting a candidate, synchronising the chain, or
\* taking the publication lock and preparing the next generation throws.
StepThrows(failure) ==
    /\ pc \in {"prepare", "start", "sync", "publish"}
    /\ Throws(failure)
    /\ tx' = [tx EXCEPT !.failure = failure]
    /\ pc' = CatchBlock
    /\ UNCHANGED <<inventory, held, durable, host, control>>

\* UpdateDirectionalNetworkPoliciesInNamespace on a node that stays.
UpdatePolicy(n) ==
    /\ pc = "policy"
    /\ n \in Inventory \ (tx.ids \cup tx.flagged)
    /\ <<"mixed", n>> \notin drift
    /\ drift' = drift \cup {<<"policy", n>>}
    /\ tx' = [tx EXCEPT !.flagged = @ \cup {n}]
    /\ UNCHANGED <<inventory, held, durable, support, chain, pc, control,
                   faults>>

\* It throws: the kernel's state was not the expected one, or the change failed
\* and the prior policies were restored.
UpdatePolicyThrows(n, failure) ==
    /\ pc = "policy"
    /\ n \in Inventory \ (tx.ids \cup tx.flagged)
    /\ \/ Throws(failure)
       \/ failure = "failed" /\ <<"mixed", n>> \in drift /\ UNCHANGED faults
    /\ tx' = [tx EXCEPT !.failure = failure]
    /\ pc' = CatchBlock
    /\ UNCHANGED <<inventory, held, durable, host, control>>

\* DirectionalNetworkPolicyOutcomeUnconfirmed: the change failed and so did the
\* restoration.  The exception is a runtime_error like any other to the handler.
UpdatePolicyUnconfirmed(n) ==
    /\ pc = "policy"
    /\ n \in Inventory \ (tx.ids \cup tx.flagged)
    /\ Fault
    /\ drift' = drift \cup {<<"mixed", n>>}
    /\ tx' = [tx EXCEPT !.failure = "failed"]
    /\ pc' = CatchBlock
    /\ UNCHANGED <<inventory, held, durable, support, chain, control>>

\* The other surviving nodes need no change.
PoliciesUpdated ==
    /\ pc = "policy"
    /\ pc' = "peers"
    /\ UNCHANGED <<inventory, held, durable, host, tx, control, faults>>

AfterPeers == IF tx.kind = "add" THEN "sync" ELSE "publish"

\* The physical connections are brought to those of the next topology.
ConnectPeers(M) ==
    /\ pc = "peers"
    /\ drift' = drift \cup ({"peers"} \X M)
    /\ tx' = [tx EXCEPT !.peers = TRUE]
    /\ pc' = AfterPeers
    /\ UNCHANGED <<inventory, held, durable, support, chain, control, faults>>

ConnectPeersThrows(M, failure) ==
    /\ pc = "peers"
    /\ Throws(failure)
    /\ drift' = drift \cup ({"peers"} \X M)
    /\ tx' = [tx EXCEPT !.peers = TRUE, !.failure = failure]
    /\ pc' = CatchBlock
    /\ UNCHANGED <<inventory, held, durable, support, chain, control>>

Synchronize ==
    /\ pc = "sync"
    /\ pc' = IF tx.masternode THEN "register" ELSE "publish"
    /\ UNCHANGED <<inventory, held, durable, host, tx, control, faults>>

\* RegisterMasternode for every candidate, confirmation and restart.
Register ==
    /\ pc = "register"
    /\ chain' = chain \cup tx.ids
    /\ tx' = [tx EXCEPT !.known = tx.ids]
    /\ pc' = "publish"
    /\ UNCHANGED <<inventory, held, durable, support, drift, control, faults>>

\* It throws with the registrations of R returned; ChainMasternodeOutcomeUnknown
\* leaves one more that may or may not be on the chain.
RegisterThrows(R, failure) ==
    /\ pc = "register"
    /\ \/ /\ failure # "unconfirmed"
          /\ Throws(failure)
          /\ chain' = chain \cup R
       \/ /\ failure = "unconfirmed"
          /\ Fault
          /\ \E n \in tx.ids \ R : chain' \in {chain \cup R, chain \cup R \cup {n}}
    /\ tx' = [tx EXCEPT !.known = R, !.failure = failure]
    /\ pc' = CatchBlock
    /\ UNCHANGED <<inventory, held, durable, support, drift, control>>

\* Mutant: the live manifest is left to be written later.
LateWriteLive ==
    /\ pc = "publish"
    /\ tx.kind = "add"
    /\ tx.ids \cap used = {}
    /\ docsAhead' = tx.expands
    /\ pc' = "commit"
    /\ UNCHANGED <<inventory, held, roots, marked, manifest, staged, host, tx,
                   control, faults>>

\* Under the publication lock and with the next generation prepared: capacity
\* documents, live manifest and its read-back.
WriteLive ==
    /\ pc = "publish"
    /\ tx.kind = "add"
    /\ tx.ids \cap used = {}
    /\ manifest' = Live(Inventory \cup tx.ids)
    /\ docsAhead' = tx.expands
    /\ pc' = "commit"
    /\ UNCHANGED <<inventory, held, roots, marked, staged, host, tx, control,
                   faults>>

WriteLiveThrows ==
    /\ pc = "publish"
    /\ tx.kind = "add"
    /\ WriteThrows(Live(Inventory \cup tx.ids))
    /\ docsAhead' \in {FALSE, tx.expands}
    /\ manifest' # manifest => docsAhead' = tx.expands
    /\ tx' = [tx EXCEPT !.failure = "failed"]
    /\ pc' = "restore"
    /\ UNCHANGED <<inventory, held, roots, marked, staged, host, control>>

\* TryBeginCommit has lost to a cancellation.
CommitRefused ==
    /\ pc = "commit"
    /\ cancel
    /\ tx' = [tx EXCEPT !.failure = "cancelled"]
    /\ pc' = "restore"
    /\ UNCHANGED <<inventory, held, durable, host, control, faults>>

\* Mutant: a cancellation is not looked at.
DeafPublish ==
    /\ pc = "commit"
    /\ gens' = Append(gens, Inventory \cup tx.ids)
    /\ used' = used \cup tx.ids
    /\ drift' = drift \cap ({"mixed"} \X Nodes)
    /\ docsAhead' = FALSE
    /\ tx' = [tx EXCEPT !.published = TRUE]
    /\ pc' = "record"
    /\ UNCHANGED <<held, roots, marked, manifest, staged, support, chain,
                   control,
                   faults>>

\* TryBeginCommit and the commits that cannot throw, under the locks.
Publish ==
    /\ pc = "commit"
    /\ ~cancel
    /\ gens' = Append(gens, Inventory \cup tx.ids)
    /\ used' = used \cup tx.ids
    /\ drift' = drift \cap ({"mixed"} \X Nodes)
    /\ docsAhead' = FALSE
    /\ tx' = [tx EXCEPT !.published = TRUE]
    /\ pc' = "record"
    /\ UNCHANGED <<held, roots, marked, manifest, staged, support, chain,
                   control,
                   faults>>

\* The inner catch block: the reservation and the documents as before.
RestoreReservation ==
    /\ pc = "restore"
    /\ \/ /\ manifest' = PendingManifest
          /\ docsAhead' = FALSE
          /\ UNCHANGED <<tx, faults>>
       \/ /\ WriteThrows(PendingManifest)
          /\ docsAhead' \in {FALSE, docsAhead}
          /\ tx' = [tx EXCEPT !.failure = "unconfirmed", !.unrestored = TRUE]
    /\ pc' = CatchBlock
    /\ UNCHANGED <<inventory, held, roots, marked, staged, host, control>>

-----------------------------------------------------------------------------
(* The rollback of an addition, and the part of it a removal shares.       *)

\* Every step runs, whatever the ones before it could do; its error is kept.
Failed(failed) == tx.errors \/ failed

\* The registrations that were returned are confirmed and revoked.
Revoke ==
    /\ pc = "revoke"
    /\ \E left \in SUBSET tx.known :
          /\ FaultIf(left # {})
          /\ chain' = chain \ (tx.known \ left)
          /\ tx' = [tx EXCEPT !.errors = Failed(left # {})]
    /\ pc' = "stop"
    /\ UNCHANGED <<inventory, held, durable, support, drift, control>>

\* stop_candidates on the candidates whose root was acquired.  Of one whose
\* cleanup is not positively verified any part may be left.
StopCandidates ==
    /\ pc = "stop"
    /\ \E V \in SUBSET tx.acquired : \E left \in SUBSET (tx.acquired \ V) :
          /\ FaultIf(V # tx.acquired)
          /\ support' = support \ (tx.acquired \ left)
          /\ tx' = [tx EXCEPT !.verified = V, !.todo = V,
                              !.errors = Failed(V # tx.acquired)]
    /\ pc' = "reset"
    /\ UNCHANGED <<inventory, held, durable, drift, chain, control>>

\* What the rollback undoes on the nodes that stay: the peers once their
\* mutation has started, and the policies of the nodes flagged as updated.
Restorable == {d \in drift : \/ d[1] = "peers" /\ tx.peers
                             \/ d[1] = "policy" /\ d[2] \in tx.flagged}

Reset ==
    /\ pc = "reset"
    /\ \E kept \in SUBSET Restorable :
          /\ FaultIf(kept # {})
          /\ drift' = (drift \ Restorable) \cup kept
          /\ tx' = [tx EXCEPT !.errors = Failed(kept # {})]
    /\ pc' = IF tx.kind = "add" THEN "unlink" ELSE "reconcile"
    /\ UNCHANGED <<inventory, held, durable, support, chain, control>>

\* Mutant: the prior manifest is written whatever is left.
ForgetfulReconcile ==
    /\ pc = "reconcile"
    /\ manifest' = PriorManifest
    /\ pc' = IF tx.kind = "add" THEN "unstage" ELSE "settle"
    /\ UNCHANGED <<inventory, held, roots, marked, staged, docsAhead, host, tx,
                   control, faults>>

\* The manifest lists what could not be removed, so that the offline cleanup
\* can find it; after a removal it is the prior manifest.
Reconcile ==
    /\ pc = "reconcile"
    /\ \/ manifest' = RollbackManifest /\ UNCHANGED <<tx, faults>>
       \/ WriteThrows(RollbackManifest) /\ tx' = [tx EXCEPT !.errors = TRUE]
    /\ pc' = IF tx.kind = "add" THEN "unstage" ELSE "settle"
    /\ UNCHANGED <<inventory, held, roots, marked, staged, docsAhead, host,
                   control>>

Unstage ==
    /\ pc = "unstage"
    /\ \/ staged' = FALSE /\ UNCHANGED <<tx, faults>>
       \/ /\ staged
          /\ Fault
          /\ tx' = [tx EXCEPT !.errors = TRUE]
          /\ UNCHANGED staged
    /\ pc' = "settle"
    /\ UNCHANGED <<inventory, held, roots, marked, manifest, docsAhead, host,
                   control>>

\* The failure is rethrown when the rollback is verified; it is unconfirmed
\* when it is not, or when the failure itself left the outcome unknown.
Settle ==
    /\ pc = "settle"
    /\ LET result == IF tx.errors THEN "unconfirmed" ELSE tx.failure
       IN  /\ Ends(result)
           /\ tx' = IF result # "unconfirmed" THEN NoTx ELSE tx
    /\ UNCHANGED <<inventory, held, durable, host, faults>>

-----------------------------------------------------------------------------
(* RemoveRuntimeNodeRoot, for the rollback of an addition, for the nodes a *)
(* removal retires and for the offline cleanup.                            *)

AfterRoots == CASE tx.kind = "add" -> "reconcile"
                [] tx.kind = "remove" -> "promote"
                [] tx.kind = "offline" -> "rewrite"

\* A root that cannot be removed stays listed, and a removal gives up.
RootKept(n) ==
    IF tx.kind = "remove"
    THEN Ends("unconfirmed") /\ UNCHANGED tx
    ELSE /\ tx' = [tx EXCEPT !.todo = @ \ {n}, !.current = {},
                             !.verified = @ \ {n}, !.errors = TRUE]
         /\ pc' = "unlink"
         /\ UNCHANGED control

RootsRemoved ==
    /\ pc = "unlink"
    /\ tx.todo = {}
    /\ pc' = AfterRoots
    /\ UNCHANGED <<inventory, held, durable, host, tx, control, faults>>

\* The contents are removed, then the marker is unlinked.
UnlinkMarker(n) ==
    /\ pc = "unlink"
    /\ n \in tx.todo
    /\ n \in roots => n \in marked
    /\ marked' = marked \ {n}
    /\ tx' = [tx EXCEPT !.todo = @ \ {n}, !.current = {n}]
    /\ pc' = "rmdir"
    /\ UNCHANGED <<inventory, held, roots, manifest, staged, docsAhead, host,
                   control, faults>>

\* OpenOwnedNodeRoot refuses a root without its marker; the contents resist;
\* the deadline has passed.
UnlinkMarkerThrows(n) ==
    /\ pc = "unlink"
    /\ n \in tx.todo
    /\ FaultIf(n \in roots => n \in marked)
    /\ RootKept(n)
    /\ UNCHANGED <<inventory, held, durable, host>>

RemoveDirectory ==
    /\ pc = "rmdir"
    /\ roots' = roots \ tx.current
    /\ tx' = [tx EXCEPT !.current = {}]
    /\ pc' = "unlink"
    /\ UNCHANGED <<inventory, held, marked, manifest, staged, docsAhead, host,
                   control, faults>>

\* The marker is written again, or that fails too.
RemoveDirectoryThrows ==
    /\ pc = "rmdir"
    /\ Fault
    /\ \E n \in tx.current \cap roots :
          /\ marked' \in {marked, marked \cup {n}}
          /\ RootKept(n)
    /\ UNCHANGED <<inventory, held, roots, manifest, staged, docsAhead, host>>

-----------------------------------------------------------------------------
(* The end of an addition.                                                 *)

\* The generation events, the staged events, MarkCommitted.
Record ==
    /\ pc = "record"
    /\ staged' = FALSE
    /\ Ends("completed")
    /\ tx' = NoTx
    /\ UNCHANGED <<inventory, held, roots, marked, manifest, docsAhead, host,
                   faults>>

RecordThrows ==
    /\ pc = "record"
    /\ Fault
    /\ staged' \in {FALSE, staged}
    /\ Ends("unconfirmed")
    /\ UNCHANGED <<inventory, held, roots, marked, manifest, docsAhead, host,
                   tx>>

-----------------------------------------------------------------------------
(* RemoveRuntimeNodesTransactional.                                        *)

\* A masternode is refused; the stored manifest is the live inventory's.
BeginRemove(S) ==
    /\ pc = "idle"
    /\ Len(gens) < MaxGenerations
    /\ S \subseteq Inventory \ chain
    /\ manifest = PriorManifest
    /\ tx' = [NoTx EXCEPT !.kind = "remove", !.ids = S]
    /\ pc' = "mark"
    /\ outcome' = "none"
    /\ UNCHANGED <<inventory, held, durable, host, cancel, faults>>

MarkedManifest == With(PriorManifest, tx.ids, "pendingRemove")

\* The nodes that leave are listed as pending_remove before anything changes.
Mark ==
    /\ pc = "mark"
    /\ manifest' = MarkedManifest
    /\ pc' = "policy"
    /\ UNCHANGED <<inventory, held, roots, marked, staged, docsAhead, host, tx,
                   control, faults>>

MarkThrows ==
    /\ pc = "mark"
    /\ WriteThrows(MarkedManifest)
    /\ pc' = "unmark"
    /\ UNCHANGED <<inventory, held, roots, marked, staged, docsAhead, host, tx,
                   control>>

Unmark ==
    /\ pc = "unmark"
    /\ \/ /\ manifest' = PriorManifest
          /\ Ends("failed")
          /\ tx' = NoTx
          /\ UNCHANGED faults
       \/ /\ WriteThrows(PriorManifest)
          /\ Ends("unconfirmed")
          /\ UNCHANGED tx
    /\ UNCHANGED <<inventory, held, roots, marked, staged, docsAhead, host>>

\* PrepareRemoval, TryBeginCommit and the commits, under the publication lock.
PublishRemoval ==
    /\ pc = "publish"
    /\ tx.kind = "remove"
    /\ ~cancel
    /\ gens' = Append(gens, Inventory \ tx.ids)
    /\ drift' = drift \cap ({"mixed"} \X Nodes)
    /\ tx' = [tx EXCEPT !.published = TRUE]
    /\ pc' = "drain"
    /\ UNCHANGED <<used, held, durable, support, chain, control, faults>>

\* ReadersDrained: nobody else refers to the generation that was replaced.
ReadersDrained == \A r \in Readers : held[r] # Len(gens) - 1

Drain ==
    /\ pc = "drain"
    /\ ReadersDrained
    /\ pc' = "retire"
    /\ UNCHANGED <<inventory, held, durable, host, tx, control, faults>>

\* Mutant: the wait for the readers has no deadline.
PatientDrainTimesOut == FALSE /\ UNCHANGED mutationVars

\* The cleanup deadline passes while a reader keeps its lease.
DrainTimesOut ==
    /\ pc = "drain"
    /\ ~ReadersDrained
    /\ Ends("unconfirmed")
    /\ UNCHANGED <<inventory, held, durable, host, tx, faults>>

\* The retired runtimes are moved out of the inventory and stopped.
Retire ==
    /\ pc = "retire"
    /\ support' = support \ tx.ids
    /\ tx' = [tx EXCEPT !.todo = tx.ids]
    /\ pc' = "unlink"
    /\ UNCHANGED <<inventory, held, durable, drift, chain, control, faults>>

RetireThrows ==
    /\ pc = "retire"
    /\ Fault
    /\ \E left \in SUBSET tx.ids : support' = support \ (tx.ids \ left)
    /\ Ends("unconfirmed")
    /\ UNCHANGED <<inventory, held, durable, drift, chain, tx>>

\* The final manifest is promoted, and the events and MarkCommitted follow.
Promote ==
    /\ pc = "promote"
    /\ manifest' = Live(Inventory)
    /\ Ends("completed")
    /\ tx' = NoTx
    /\ UNCHANGED <<inventory, held, roots, marked, staged, docsAhead, host,
                   faults>>

PromoteThrows ==
    /\ pc = "promote"
    /\ WriteThrows(Live(Inventory))
    /\ Ends("unconfirmed")
    /\ UNCHANGED <<inventory, held, roots, marked, staged, docsAhead, host, tx>>

-----------------------------------------------------------------------------
(* The end of the run and the cleanup of what it left.                     *)

\* The workers are joined and StopNodes runs on the inventory.
StopRun ==
    /\ pc \in {"idle", "stopping"}
    /\ \E left \in SUBSET Inventory :
          /\ FaultIf(left # {})
          /\ support' = support \ (Inventory \ left)
    /\ held' = [r \in Readers |-> 0]
    /\ pc' = "down"
    /\ UNCHANGED <<inventory, durable, drift, chain, tx, control>>

\* The process of the run is killed.
Crash ==
    /\ Running
    /\ held' = [r \in Readers |-> 0]
    /\ pc' = "down"
    /\ UNCHANGED <<inventory, durable, host, tx, control, faults>>

\* A live entry has its root, and every root that is there its marker.
RootsVerified == \A n \in DOMAIN manifest :
    /\ n \in roots => n \in marked
    /\ manifest[n] = "live" => n \in roots

\* CleanupRun verifies the roots of the manifest before it changes anything.
CleanupRefused ==
    /\ pc = "down"
    /\ ~RootsVerified
    /\ pc' = "refused"
    /\ UNCHANGED <<inventory, held, durable, host, tx, control, faults>>

\* The cgroups of the run, then the network and the credentials of each entry;
\* the roots of the pending additions that were cleaned are then removed.
Cleanup ==
    /\ pc = "down"
    /\ RootsVerified
    /\ \E C \in SUBSET DOMAIN manifest : \E V \in SUBSET C :
          /\ FaultIf(V # DOMAIN manifest)
          /\ support' = support \ C
          /\ LET S == {n \in V : manifest[n] = "pendingAdd"}
             IN  tx' = [NoTx EXCEPT !.kind = "offline", !.verified = S,
                                    !.todo = S, !.errors = V # DOMAIN manifest,
                                    !.unrestored = tx.unrestored]
    /\ pc' = "unlink"
    /\ UNCHANGED <<inventory, held, durable, drift, chain, control>>

\* The removed entries leave the manifest; the first failure is rethrown.
Rewrite ==
    /\ pc = "rewrite"
    /\ LET reconciled == [n \in DOMAIN manifest \ tx.verified |-> manifest[n]]
       IN  \/ /\ manifest' = reconciled
              /\ pc' = IF tx.errors THEN "down" ELSE "done"
              /\ UNCHANGED faults
           \/ /\ tx.verified # {}
              /\ WriteThrows(reconciled)
              /\ pc' = "down"
    /\ UNCHANGED <<inventory, held, roots, marked, staged, docsAhead, host, tx,
                   control>>

\* The cleanup is killed, or its deadline passes.
CleanupKilled ==
    /\ tx.kind = "offline"
    /\ pc \in Cleaning
    /\ Fault
    /\ pc' = "down"
    /\ UNCHANGED <<inventory, held, durable, host, tx, control>>

Ended ==
    /\ pc \in {"done", "refused"}
    /\ UNCHANGED mutationVars

-----------------------------------------------------------------------------
(* The specification.                                                      *)

AddStep ==
    \/ \E S \in SUBSET Nodes \ {{}} : \E masternode, expands \in BOOLEAN :
          BeginAdd(S, masternode, expands)
    \/ \E S \in SUBSET Nodes \ {{}} : StageThrows(S)

\* The thread that executes the command.
HandlerStep ==
    \/ \E n \in Nodes :
          Reserve(n) \/ UpdatePolicy(n) \/ UpdatePolicyUnconfirmed(n)
    \/ \E failure \in {"failed", "cancelled"} :
          \/ \E n \in Nodes :
                ReserveThrows(n, failure) \/ UpdatePolicyThrows(n, failure)
          \/ EquipThrows(failure)
          \/ StepThrows(failure)
          \/ \E M \in SUBSET Inventory : ConnectPeersThrows(M, failure)
    \/ Prepare \/ Claim \/ ClaimThrows \/ Equip \/ StartNodes \/ PoliciesUpdated
    \/ \E M \in SUBSET Inventory : ConnectPeers(M)
    \/ Synchronize \/ Register
    \/ \E R \in SUBSET tx.ids :
          \E failure \in {"failed", "cancelled", "unconfirmed"} :
             RegisterThrows(R, failure)
    \/ WriteLive \/ WriteLiveThrows \/ CommitRefused \/ Publish
    \/ RestoreReservation
    \/ Revoke \/ StopCandidates \/ Reset \/ Reconcile \/ Unstage \/ Settle
    \/ Record \/ RecordThrows
    \/ Mark \/ MarkThrows \/ Unmark \/ PublishRemoval \/ Drain \/ DrainTimesOut
    \/ Retire \/ RetireThrows \/ Promote \/ PromoteThrows

\* RemoveRuntimeNodeRoot, of the handler or of the offline cleanup.
RootStep ==
    \/ \E n \in Nodes : UnlinkMarker(n) \/ UnlinkMarkerThrows(n)
    \/ RootsRemoved \/ RemoveDirectory \/ RemoveDirectoryThrows

MutationNext ==
    \/ \E r \in Readers : Lease(r) \/ Release(r)
    \/ RequestCancellation
    \/ Refuse
    \/ AddStep
    \/ \E S \in SUBSET Nodes \ {{}} : BeginRemove(S)
    \/ HandlerStep
    \/ RootStep
    \/ StopRun \/ Crash \/ CleanupRefused \/ Cleanup \/ Rewrite \/ CleanupKilled
    \/ Ended

MutationSpec == MutationInit /\ [][MutationNext]_mutationVars

-----------------------------------------------------------------------------
(* Properties.                                                             *)

TypeOK ==
    /\ gens \in Seq(SUBSET Nodes) /\ Len(gens) \in 1..MaxGenerations
    /\ used \subseteq Nodes
    /\ held \in [Readers -> 0..Len(gens)]
    /\ roots \subseteq Nodes /\ marked \subseteq roots
    /\ support \subseteq Nodes
    /\ DOMAIN manifest \subseteq Nodes
    /\ \A n \in DOMAIN manifest : manifest[n] \in States
    /\ staged \in BOOLEAN /\ docsAhead \in BOOLEAN
    /\ drift \subseteq {"policy", "peers", "mixed"} \X Nodes
    /\ chain \subseteq Nodes
    /\ pc \in Handler \cup Cleaning \cup Ending \cup {"idle", "stopping"}
    /\ cancel \in BOOLEAN
    /\ outcome \in {"none", "completed", "failed", "cancelled", "unconfirmed"}
    /\ faults \in 0..MaxFaults

\* Whatever fails and wherever the process dies, every node root and every
\* process, cgroup or namespace belongs to a node the manifest lists: the
\* candidate is listed before PrepareNodeRuntime creates anything, and the
\* rollback keeps the entries of what it could not remove.
ResourcesAreListed == roots \cup support \subseteq DOMAIN manifest

\* A published node keeps its marked root and is never listed as a pending
\* addition, whose root the offline cleanup deletes: the live manifest is
\* written before the generation is published and no rollback undoes it.
PublishedSurvivesRecovery ==
    \A n \in Inventory :
        /\ n \in marked
        /\ n \in DOMAIN manifest
        /\ manifest[n] # "pendingAdd"

\* When the handler returns or throws a definite failure, the manifest, the
\* roots, the resources and the registrations are exactly those of the published
\* inventory, and no staged event, capacity document, peer or flagged policy of
\* the abandoned change is left.
SettledIsConsistent ==
    pc = "idle" =>
        /\ manifest = Live(Inventory)
        /\ roots = Inventory
        /\ support = Inventory
        /\ chain \subseteq Inventory
        /\ ~staged /\ ~docsAhead
        /\ drift \subseteq {"mixed"} \X Nodes

\* A command that is reported completed has published its generation and had no
\* accepted cancellation; one reported failed or cancelled has published none.
OutcomeIsTrue ==
    [][outcome' # outcome =>
          /\ outcome' = "completed" => tx.published /\ ~cancel
          /\ outcome' \in {"failed", "cancelled"} => ~tx.published]_mutationVars

\* A node id that left the inventory never names another node of the run, over
\* every sequence of additions, failed additions and removals.
IdsNeverReused ==
    \A i, j, k \in DOMAIN gens :
        i < j /\ j < k => gens[i] \cap gens[k] \subseteq gens[j]

\* A reader that leases the published generation, or the one it replaced, finds
\* the resources of every node in it: a removal retires nodes only after the
\* readers of the generation it replaced are gone.
LeaseHonoured ==
    \A r \in Readers :
        held[r] \in {Len(gens) - 1, Len(gens)} \ {0} =>
            gens[held[r]] \subseteq support

\* The offline cleanup is refused only where a root has no marker, or where the
\* reservation could not be restored under a live manifest.
RefusalIsExplained == pc = "refused" => roots # marked \/ tx.unrestored

\* When the offline cleanup reports success nothing runs and no pending addition
\* is left, while the roots of the published nodes are all kept.
RecoveryIsComplete ==
    pc = "done" =>
        /\ support = {}
        /\ \A n \in DOMAIN manifest : manifest[n] # "pendingAdd"
        /\ roots \subseteq DOMAIN manifest
        /\ Inventory \subseteq roots

\* A mutation that has begun ends, even if a reader never gives its lease back.
MutationSettles ==
    (Running /\ pc \in Handler) ~> (pc \in {"idle", "stopping"} \cup Ending)

\* NodeRuntime objects stay as they are for as long as a snapshot leases a
\* generation that holds them.
EveryLeaseHonoured ==
    \A r \in Readers : held[r] # 0 => gens[held[r]] \subseteq support

\* What a mutation of the nodes keeps: a published node survives a recovery, a
\* settled run is consistent, a refusal has its reason, a recovery that ends
\* has freed everything, an identifier is not used twice, and a lease is
\* honoured until its reader may no longer be waited for.
MutationCorrect ==
    /\ TypeOK
    /\ PublishedSurvivesRecovery
    /\ SettledIsConsistent
    /\ RefusalIsExplained
    /\ RecoveryIsComplete
    /\ IdsNeverReused
    /\ LeaseHonoured

=============================================================================
