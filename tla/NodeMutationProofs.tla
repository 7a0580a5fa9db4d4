------------------------- MODULE NodeMutationProofs -------------------------
(***************************************************************************)
(* The invariant of NodeMutation, for any set of nodes and readers and any *)
(* number of mutations, failures and crashes.  It says, for each stretch   *)
(* of a handler, how far the inventory, the node roots, the manifest, the  *)
(* processes, the registrations and the policies have drifted apart, and   *)
(* which local of the handler accounts for it.  First what is common to    *)
(* all stretches; then the steps of an addition, from the reservation of   *)
(* the candidates to the commit of the generation, through the rollback    *)
(* and the record of the event; how a handler begins; the steps of a       *)
(* removal, of the retirement of the nodes it published without, of the    *)
(* offline cleanup and of the end of a run; and the theorems.              *)
(***************************************************************************)
EXTENDS NodeMutation, TLAPS

-----------------------------------------------------------------------------
(* The locals of the handler and the stretch it is in.                     *)

TxTypeOK ==
    tx \in [kind : {"none", "add", "remove", "offline"}, ids : SUBSET Nodes,
            masternode : BOOLEAN, expands : BOOLEAN, todo : SUBSET Nodes,
            current : SUBSET Nodes, acquired : SUBSET Nodes,
            flagged : SUBSET Nodes, peers : BOOLEAN, known : SUBSET Nodes,
            verified : SUBSET Nodes, errors : BOOLEAN,
            failure : {"none", "failed", "cancelled", "unconfirmed"},
            published : BOOLEAN, unrestored : BOOLEAN]

\* The steps of an addition up to its commit or to the end of its rollback;
\* of a removal up to the same; and of a removal whose generation is published.
Forward == {"reserve", "prepare", "claim", "equip", "start", "policy", "peers",
            "sync", "register", "publish", "commit"}
Undoing == {"reset", "unlink", "rmdir", "reconcile", "unstage", "settle"}
AddingSteps == Forward \cup {"restore", "revoke", "stop"} \cup Undoing
RemovingSteps == {"mark", "unmark", "policy", "peers", "publish", "reset",
                  "reconcile", "settle"}
RetiringSteps == {"drain", "retire", "unlink", "rmdir", "promote"}

Adding == tx.kind = "add" /\ ~tx.published /\ pc \in AddingSteps
Recording == tx.kind = "add" /\ tx.published /\ pc = "record"
Removing == tx.kind = "remove" /\ ~tx.published /\ pc \in RemovingSteps
Retiring == tx.kind = "remove" /\ tx.published /\ pc \in RetiringSteps
CleaningUp == tx.kind = "offline" /\ ~tx.published /\ pc \in Cleaning

\* A handler is in one of its stretches; a published generation excludes a
\* cancellation; and nothing is left of a handler that ended definitely.
Shape ==
    /\ pc \in Handler \cup Cleaning =>
          Adding \/ Recording \/ Removing \/ Retiring \/ CleaningUp
    /\ tx.kind = "offline" => pc \in Cleaning \cup Ending
    /\ Adding \/ Removing => Len(gens) < MaxGenerations
    /\ Retiring => Len(gens) > 1
    /\ tx.published => ~cancel
    /\ pc = "idle" => tx = NoTx /\ ~cancel
    /\ pc = "rmdir" => /\ tx.current \cap marked = {}
                       /\ \A a, b \in tx.current : a = b

CoreInv == TypeOK /\ TxTypeOK /\ Shape

-----------------------------------------------------------------------------
(* What holds at every step.                                               *)

\* No generation holds a node whose id was not taken, and no id comes back.
History == (\A i \in DOMAIN gens : gens[i] \subseteq used) /\ IdsNeverReused

\* The nodes of the inventory run as long as the run does, only a run has
\* readers, and those of a replaced generation are gone before it is retired.
Leases ==
    /\ LeaseHonoured
    /\ Running => Inventory \subseteq support
    /\ ~Running => \A r \in Readers : held[r] = 0
    /\ pc = "retire" => ReadersDrained

\* A live entry has its root unless the reservation could not be restored.
LiveHasRoot ==
    ~tx.unrestored =>
        \A n \in DOMAIN manifest : manifest[n] = "live" => n \in roots

-----------------------------------------------------------------------------
(* What holds while nodes are added.                                       *)

\* Of the candidates some are still to come, at most one is being prepared and
\* the others have their root; none of them was ever in the inventory.
Candidates ==
    Adding =>
        /\ tx.ids \cap used = {}
        /\ tx.todo \subseteq tx.ids /\ tx.current \subseteq tx.ids
        /\ tx.verified \subseteq tx.acquired /\ tx.acquired \subseteq tx.ids
        /\ tx.known \subseteq tx.ids
        /\ pc \in Forward => tx.failure = "none"
        /\ pc \in Forward \ {"publish", "commit"} => tx.known = {}
        /\ pc \notin Undoing => tx.verified = {}
        /\ pc \in {"reserve", "prepare", "claim", "equip"} =>
              /\ tx.todo \cap tx.acquired = {}
              /\ tx.ids = tx.todo \cup tx.acquired \cup
                             (IF pc = "prepare" THEN tx.current ELSE {})
        /\ pc = "prepare" => tx.current \cap (tx.todo \cup tx.acquired) = {}
        /\ pc \in {"claim", "equip"} => tx.current \subseteq tx.acquired
        /\ pc \in {"start", "policy", "peers", "sync", "register", "publish",
                  "commit", "restore"} => tx.acquired = tx.ids
        /\ pc \in {"reset", "unlink", "rmdir"} => tx.todo \subseteq tx.verified
        /\ pc \in Undoing /\ ~tx.errors => tx.verified = tx.acquired

\* The roots are those of the inventory and of the acquired candidates; the
\* rollback removes those of the verified ones and no other.
CandidateRoots ==
    Adding =>
        /\ roots \subseteq Inventory \cup tx.acquired
        /\ pc \notin Undoing => tx.acquired \subseteq roots
        /\ pc \in Forward \ {"claim"} => tx.acquired \subseteq marked
        /\ pc = "claim" => tx.acquired \ tx.current \subseteq marked
                           /\ tx.current \cap marked = {}
        /\ pc \in {"reset", "unlink"} =>
              tx.verified \cap roots \subseteq tx.todo
        /\ pc = "rmdir" =>
              tx.verified \cap roots \subseteq tx.todo \cup tx.current
        /\ pc \in {"reconcile", "unstage", "settle"} =>
              tx.verified \cap roots = {}

\* Processes, cgroups and namespaces follow the roots, and those of a verified
\* candidate are gone.
CandidateSupport ==
    Adding =>
        /\ support \subseteq Inventory \cup tx.acquired
        /\ pc \in {"claim", "equip"} => support \cap tx.current = {}
        /\ pc \in Forward \cup {"restore"} =>
              tx.acquired \ support \subseteq
                 (IF pc \in {"claim", "equip"} THEN tx.current ELSE {})
        /\ pc \in Undoing => support \cap tx.verified = {}

\* A candidate is listed as pending before it has a root; only the commit lists
\* it as live, and only a failed restoration leaves that entry behind.
CandidateEntries ==
    Adding =>
        /\ pc = "prepare" => tx.current \subseteq DOMAIN manifest
        /\ pc = "commit" => manifest = Live(Inventory \cup tx.ids)
        /\ pc \notin {"commit", "restore"} /\ ~tx.unrestored =>
              \A n \in DOMAIN manifest \cap tx.ids : manifest[n] = "pendingAdd"
        /\ pc \in {"unstage", "settle"} /\ ~tx.errors =>
              manifest = Live(Inventory)

\* Registrations, staged events and capacity documents.
CandidateTraces ==
    Adding =>
        /\ tx.failure # "unconfirmed" /\ pc \notin {"stop"} \cup Undoing =>
              chain \subseteq Inventory \cup tx.known
        /\ tx.failure # "unconfirmed" /\ pc \in {"stop"} \cup Undoing
              /\ ~tx.errors => chain \subseteq Inventory
        /\ docsAhead =>
              pc \in {"commit", "restore"} \/ tx.failure = "unconfirmed"
        /\ pc = "settle" /\ ~tx.errors => ~staged

\* The addition is published and everything is as the inventory says.
Recorded ==
    Recording =>
        /\ manifest = Live(Inventory) /\ roots = Inventory
        /\ support = Inventory /\ chain \subseteq Inventory /\ ~docsAhead

-----------------------------------------------------------------------------
(* What holds while nodes are removed and while a dead run is cleaned.     *)

\* Before the publication only the manifest tells the nodes that leave.
Leaving ==
    Removing =>
        /\ tx.ids \subseteq Inventory \ chain
        /\ tx.acquired = {} /\ tx.verified = {} /\ ~tx.unrestored
        /\ tx.todo = {} /\ tx.current = {}
        /\ roots = Inventory /\ support = Inventory
        /\ chain \subseteq Inventory
        /\ ~staged /\ ~docsAhead
        /\ DOMAIN manifest = Inventory
        /\ pc \in {"mark", "unmark"} => tx.flagged = {} /\ ~tx.peers
        /\ pc \in {"policy", "peers", "publish"} =>
              \A n \in tx.ids : manifest[n] = "pendingRemove"
        /\ pc = "settle" /\ ~tx.errors => manifest = Live(Inventory)

\* After it their resources go, and their entries stay until all are gone.
Retired ==
    Retiring =>
        /\ tx.ids \cap Inventory = {} /\ chain \subseteq Inventory
        /\ ~staged /\ ~docsAhead /\ ~tx.unrestored
        /\ tx.todo \subseteq tx.ids /\ tx.current \subseteq tx.ids
        /\ \A n \in DOMAIN manifest \cap tx.ids : manifest[n] # "live"
        /\ roots \subseteq Inventory \cup tx.ids
        /\ pc \in {"drain", "retire"} => support = Inventory \cup tx.ids
        /\ pc \in {"unlink", "rmdir", "promote"} => support = Inventory
        /\ pc = "unlink" => tx.ids \cap roots \subseteq tx.todo
        /\ pc = "rmdir" => tx.ids \cap roots \subseteq tx.todo \cup tx.current
        /\ pc = "promote" => roots = Inventory

\* What a handler has changed on the nodes that stay is what it will undo.
Drifted ==
    /\ (Adding \/ Removing) /\ pc \notin Undoing \ {"reset"} =>
          \A d \in drift : \/ d[1] = "mixed"
                           \/ d[1] = "peers" /\ tx.peers
                           \/ d[1] = "policy" /\ d[2] \in tx.flagged
    /\ (Adding \/ Removing) /\ pc \in Undoing \ {"reset"} /\ ~tx.errors =>
          drift \subseteq {"mixed"} \X Nodes
    /\ Recording \/ Retiring => drift \subseteq {"mixed"} \X Nodes

\* The cleanup removes roots of pending additions whose processes are gone.
Cleaned ==
    CleaningUp =>
        /\ \A n \in tx.verified : n \in DOMAIN manifest
                                  /\ manifest[n] = "pendingAdd"
        /\ tx.verified \cap support = {}
        /\ tx.todo \subseteq tx.verified
        /\ pc = "rmdir" => tx.current \subseteq tx.verified
        /\ pc = "unlink" => tx.verified \cap roots \subseteq tx.todo
        /\ pc = "rmdir" =>
              tx.verified \cap roots \subseteq tx.todo \cup tx.current
        /\ pc = "rewrite" => tx.verified \cap roots = {}
        /\ ~tx.errors =>
              /\ support = {}
              /\ \A n \in DOMAIN manifest :
                    manifest[n] = "pendingAdd" => n \in tx.verified

-----------------------------------------------------------------------------
(* The invariant.                                                          *)

CandidateInv ==
    /\ Candidates /\ CandidateRoots /\ CandidateSupport /\ CandidateEntries
    /\ CandidateTraces

StretchInv ==
    CandidateInv /\ Recorded /\ Leaving /\ Retired /\ Drifted /\ Cleaned

MutationInv ==
    /\ CoreInv /\ ResourcesAreListed /\ PublishedSurvivesRecovery
    /\ SettledIsConsistent /\ RefusalIsExplained /\ RecoveryIsComplete
    /\ History /\ Leases /\ LiveHasRoot /\ StretchInv

-----------------------------------------------------------------------------
(* The operators of the model.                                             *)

\* A manifest with some entries rewritten, and one in which all are live.
LEMMA WithEntries ==
  ASSUME NEW m, NEW S, NEW s
  PROVE  /\ DOMAIN With(m, S, s) = DOMAIN m \cup S
         /\ \A n \in S : With(m, S, s)[n] = s
         /\ \A n \in DOMAIN m \ S : With(m, S, s)[n] = m[n]
  BY DEF With

LEMMA LiveEntries ==
  ASSUME NEW S
  PROVE  /\ DOMAIN Live(S) = S
         /\ \A n \in S : Live(S)[n] = "live"
  BY DEF Live

LEMMA WithNothing ==
  ASSUME NEW S, NEW s
  PROVE  With(Live(S), {}, s) = Live(S)
  BY DEF With, Live

\* The inventory is the last generation.
LEMMA InventoryType ==
  ASSUME TypeOK
  PROVE  /\ Len(gens) \in Nat \ {0}
         /\ Len(gens) \in DOMAIN gens
         /\ Inventory \subseteq Nodes
  BY NodeMutationAssumption DEF TypeOK, Inventory

LEMMA AppendGeneration ==
  ASSUME TypeOK, NEW S \in SUBSET Nodes, gens' = Append(gens, S)
  PROVE  /\ gens' \in Seq(SUBSET Nodes)
         /\ Len(gens') = Len(gens) + 1
         /\ Inventory' = S
         /\ \A i \in DOMAIN gens : gens'[i] = gens[i]
         /\ DOMAIN gens' = DOMAIN gens \cup {Len(gens) + 1}
  BY InventoryType DEF TypeOK, Inventory

\* A root that could not be removed: the handler goes on without it.
LEMMA KeptRoot ==
  ASSUME TxTypeOK, NEW n, RootKept(n), tx.kind # "remove"
  PROVE  /\ TxTypeOK' /\ pc' = "unlink" /\ UNCHANGED control
         /\ tx'.kind = tx.kind /\ tx'.ids = tx.ids /\ tx'.peers = tx.peers
         /\ tx'.flagged = tx.flagged /\ tx'.known = tx.known
         /\ tx'.acquired = tx.acquired /\ tx'.failure = tx.failure
         /\ tx'.published = tx.published /\ tx'.unrestored = tx.unrestored
         /\ tx'.todo = tx.todo \ {n} /\ tx'.current = {}
         /\ tx'.verified = tx.verified \ {n} /\ tx'.errors = TRUE
<1>1. /\ pc' = "unlink" /\ UNCHANGED control
      /\ tx' = [tx EXCEPT !.todo = @ \ {n}, !.current = {},
                          !.verified = @ \ {n}, !.errors = TRUE]
  BY DEF RootKept
<1> QED
  BY <1>1 DEF TxTypeOK

\* The reservation is restored, or it is not known whether it was.
LEMMA Restoration ==
  ASSUME TxTypeOK, RestoreReservation
  PROVE  /\ TxTypeOK'
         /\ tx'.kind = tx.kind /\ tx'.ids = tx.ids /\ tx'.peers = tx.peers
         /\ tx'.todo = tx.todo /\ tx'.current = tx.current
         /\ tx'.flagged = tx.flagged /\ tx'.known = tx.known
         /\ tx'.acquired = tx.acquired /\ tx'.verified = tx.verified
         /\ tx'.published = tx.published /\ tx'.errors = tx.errors
         /\ manifest' = PendingManifest \/ manifest' = manifest
         /\ \/ /\ manifest' = PendingManifest /\ docsAhead' = FALSE
               /\ tx'.failure = tx.failure /\ tx'.unrestored = tx.unrestored
            \/ /\ tx'.failure = "unconfirmed" /\ tx'.unrestored = TRUE
<1>1. CASE UNCHANGED tx /\ manifest' = PendingManifest /\ docsAhead' = FALSE
  BY <1>1 DEF TxTypeOK
<1>2. CASE /\ tx' = [tx EXCEPT !.failure = "unconfirmed", !.unrestored = TRUE]
           /\ manifest' \in {manifest, PendingManifest}
  BY <1>2 DEF TxTypeOK
<1> QED
  BY <1>1, <1>2, Zenon DEF RestoreReservation, WriteThrows

-----------------------------------------------------------------------------
(* What every step keeps.                                                  *)

\* A fault, a failing write and where the handler goes on are expanded below.
USE DEF Fault, CatchBlock, WriteThrows, control, inventory

\* Every step keeps the types of the state ...
LEMMA TypeStep ==
  ASSUME MutationInv, MutationNext
  PROVE  TypeOK'
<1>0. /\ TypeOK /\ TxTypeOK /\ Shape /\ Candidates /\ CandidateRoots
      /\ Len(gens) \in Nat \ {0} /\ Inventory \subseteq Nodes
      /\ MaxFaults \in Nat /\ MaxGenerations \in Nat
  BY InventoryType, NodeMutationAssumption DEF MutationInv, StretchInv,
      CandidateInv, CoreInv
<1> USE DEF Handler, Cleaning, Ending, States, TxTypeOK
<1>1. ASSUME WriteLiveThrows PROVE TypeOK'
<2>1. faults' \in 0..MaxFaults
    BY <1>1, <1>0 DEF WriteLiveThrows, TypeOK
<2>2. cancel' \in BOOLEAN /\ staged' \in BOOLEAN /\ docsAhead' \in BOOLEAN
    BY <1>1, <1>0, Zenon DEF WriteLiveThrows, TypeOK, durable, host
<2> QED
    BY <1>1, <1>0, <2>1, <2>2 DEF WriteLiveThrows, Live, TypeOK, durable, host
<1>2. ASSUME Publish PROVE TypeOK'
<2>1. Len(gens) < MaxGenerations
    BY <1>2, <1>0 DEF Publish, Shape, Adding, Recording, Removing, Retiring,
        CleaningUp, AddingSteps, RemovingSteps, RetiringSteps, Forward, Undoing
<2>2. Inventory \cup tx.ids \in SUBSET Nodes
    BY <1>0
<2>3. gens' \in Seq(SUBSET Nodes) /\ Len(gens') = Len(gens) + 1
    BY <1>2, <1>0, <2>2, AppendGeneration DEF Publish
<2>4. held' \in [Readers -> 0..Len(gens')] /\ Len(gens') \in 1..MaxGenerations
    BY <1>2, <1>0, <2>1, <2>3 DEF Publish, TypeOK
<2> QED
    BY <1>2, <1>0, <2>3, <2>4 DEF Publish, TypeOK, durable, host
<1>3. ASSUME RestoreReservation PROVE TypeOK'
<2>1. UNCHANGED <<tx, faults>> \/ Fault
    BY <1>3, Zenon DEF RestoreReservation
<2>2. faults' \in 0..MaxFaults
    BY <1>0, <2>1 DEF TypeOK
<2>3. cancel' \in BOOLEAN /\ staged' \in BOOLEAN /\ docsAhead' \in BOOLEAN
    BY <1>3, <1>0, Zenon DEF RestoreReservation, TypeOK
<2>4. manifest' = manifest \/ manifest' = PendingManifest
    BY <1>3, Zenon DEF RestoreReservation
<2>5. /\ DOMAIN manifest' \subseteq Nodes
      /\ \A n \in DOMAIN manifest' : manifest'[n] \in States
    BY <1>0, <2>4 DEF TypeOK, PendingManifest, PriorManifest, With, Live
<2> QED
    BY <1>3, <1>0, <2>2, <2>3, <2>5 DEF RestoreReservation, TypeOK, host
<1>4. ASSUME Unstage PROVE TypeOK'
<2>1. faults' \in 0..MaxFaults
    BY <1>4, <1>0 DEF Unstage, TypeOK
<2>2. cancel' \in BOOLEAN /\ staged' \in BOOLEAN /\ docsAhead' \in BOOLEAN
    BY <1>4, <1>0, Zenon DEF Unstage, TypeOK, durable, host
<2> QED
    BY <1>4, <1>0, <2>1, <2>2 DEF Unstage, TypeOK, durable, host
<1>5. ASSUME RecordThrows PROVE TypeOK'
<2>1. faults' \in 0..MaxFaults
    BY <1>5, <1>0 DEF RecordThrows, Ends, TypeOK
<2>2. cancel' \in BOOLEAN /\ staged' \in BOOLEAN /\ docsAhead' \in BOOLEAN
    BY <1>5, <1>0, Zenon DEF RecordThrows, Ends, TypeOK, durable, host
<2> QED
    BY <1>5, <1>0, <2>1, <2>2 DEF RecordThrows, Ends, TypeOK, durable, host
<1>6. ASSUME Unmark PROVE TypeOK'
<2>1. faults' \in 0..MaxFaults
    BY <1>6, <1>0 DEF Unmark, Ends, NoTx, TypeOK
<2>2. cancel' \in BOOLEAN /\ staged' \in BOOLEAN /\ docsAhead' \in BOOLEAN
    BY <1>6, <1>0, Zenon DEF Unmark, Ends, NoTx, TypeOK, durable, host
<2> QED
    BY <1>6, <1>0, <2>1, <2>2 DEF Unmark, Ends, NoTx, PriorManifest, Live,
      TypeOK, durable, host
<1>7. ASSUME PublishRemoval PROVE TypeOK'
<2>1. Len(gens) < MaxGenerations
    BY <1>7, <1>0 DEF PublishRemoval, Shape, Adding, Recording, Removing,
        Retiring, CleaningUp, AddingSteps, RemovingSteps, RetiringSteps,
        Forward, Undoing
<2>2. Inventory \ tx.ids \in SUBSET Nodes
    BY <1>0
<2>3. gens' \in Seq(SUBSET Nodes) /\ Len(gens') = Len(gens) + 1
    BY <1>7, <1>0, <2>2, AppendGeneration DEF PublishRemoval
<2>4. held' \in [Readers -> 0..Len(gens')] /\ Len(gens') \in 1..MaxGenerations
    BY <1>7, <1>0, <2>1, <2>3 DEF PublishRemoval, TypeOK
<2> QED
    BY <1>7, <1>0, <2>3, <2>4 DEF PublishRemoval, TypeOK, durable, host
<1>8. ASSUME RetireThrows PROVE TypeOK'
<2>1. faults' \in 0..MaxFaults
    BY <1>8, <1>0 DEF RetireThrows, Ends, TypeOK
<2>2. cancel' \in BOOLEAN /\ staged' \in BOOLEAN /\ docsAhead' \in BOOLEAN
    BY <1>8, <1>0, Zenon DEF RetireThrows, Ends, TypeOK, durable, host
<2> QED
    BY <1>8, <1>0, <2>1, <2>2 DEF RetireThrows, Ends, TypeOK, durable, host
<1>9. ASSUME PromoteThrows PROVE TypeOK'
<2>1. faults' \in 0..MaxFaults
    BY <1>9, <1>0 DEF PromoteThrows, Ends, TypeOK
<2>2. cancel' \in BOOLEAN /\ staged' \in BOOLEAN /\ docsAhead' \in BOOLEAN
    BY <1>9, <1>0, Zenon DEF PromoteThrows, Ends, TypeOK, durable, host
<2> QED
    BY <1>9, <1>0, <2>1, <2>2 DEF PromoteThrows, Ends, Live, TypeOK, durable,
      host
<1>10. ASSUME NEW n \in Nodes, UnlinkMarkerThrows(n)
      PROVE  TypeOK'
<2>1. faults' \in 0..MaxFaults
    BY <1>10, <1>0 DEF UnlinkMarkerThrows, RootKept, FaultIf, Ends, TypeOK
<2>2. cancel' \in BOOLEAN /\ staged' \in BOOLEAN /\ docsAhead' \in BOOLEAN
    BY <1>10, <1>0, Zenon DEF UnlinkMarkerThrows, RootKept, Ends, TypeOK,
      durable, host
<2> QED
    BY <1>10, <1>0, <2>1, <2>2 DEF UnlinkMarkerThrows, RootKept, FaultIf,
      Ends, TypeOK, durable, host
<1>11. ASSUME RemoveDirectoryThrows PROVE TypeOK'
<2>1. faults' \in 0..MaxFaults
    BY <1>11, <1>0 DEF RemoveDirectoryThrows, RootKept, Ends, TypeOK
<2>2. cancel' \in BOOLEAN /\ staged' \in BOOLEAN /\ docsAhead' \in BOOLEAN
    BY <1>11, <1>0, Zenon DEF RemoveDirectoryThrows, RootKept, Ends, TypeOK,
      durable, host
<2> QED
    BY <1>11, <1>0, <2>1, <2>2 DEF RemoveDirectoryThrows, RootKept, Ends,
      TypeOK, durable, host
<1> USE DEF TypeOK, durable, inventory, host, control
<1>12. ASSUME NEW r \in Readers, Lease(r)
      PROVE  TypeOK'
  BY <1>12, <1>0 DEF Lease
<1>13. ASSUME NEW r \in Readers, Release(r)
      PROVE  TypeOK'
  BY <1>13, <1>0 DEF Release
<1>14. ASSUME RequestCancellation PROVE TypeOK'
  BY <1>14, <1>0 DEF RequestCancellation, Running
<1>15. ASSUME Refuse PROVE TypeOK'
  BY <1>15, <1>0 DEF Refuse
<1>16. ASSUME NEW S \in SUBSET Nodes, NEW masternode \in BOOLEAN,
              NEW expands \in BOOLEAN, BeginAdd(S, masternode, expands)
      PROVE  TypeOK'
  BY <1>16, <1>0 DEF BeginAdd, NoTx
<1>17. ASSUME NEW S \in SUBSET Nodes, StageThrows(S)
      PROVE  TypeOK'
  BY <1>17, <1>0 DEF StageThrows, NoTx
<1>18. ASSUME NEW S \in SUBSET Nodes, BeginRemove(S)
      PROVE  TypeOK'
  BY <1>18, <1>0 DEF BeginRemove, NoTx
<1>19. ASSUME NEW n \in Nodes, Reserve(n)
      PROVE  TypeOK'
  BY <1>19, <1>0 DEF Reserve, With
<1>20. ASSUME NEW n \in Nodes, UpdatePolicy(n)
      PROVE  TypeOK'
  BY <1>20, <1>0 DEF UpdatePolicy
<1>21. ASSUME NEW n \in Nodes, UpdatePolicyUnconfirmed(n)
      PROVE  TypeOK'
  BY <1>21, <1>0 DEF UpdatePolicyUnconfirmed
<1>22. ASSUME NEW n \in Nodes, NEW failure \in {"failed", "cancelled"},
              ReserveThrows(n, failure)
      PROVE  TypeOK'
  BY <1>22, <1>0 DEF ReserveThrows, Throws, With
<1>23. ASSUME NEW n \in Nodes, NEW failure \in {"failed", "cancelled"},
              UpdatePolicyThrows(n, failure)
      PROVE  TypeOK'
  BY <1>23, <1>0 DEF UpdatePolicyThrows, Throws
<1>24. ASSUME NEW failure \in {"failed", "cancelled"}, EquipThrows(failure)
      PROVE  TypeOK'
  BY <1>24, <1>0 DEF EquipThrows, Throws
<1>25. ASSUME NEW failure \in {"failed", "cancelled"}, StepThrows(failure)
      PROVE  TypeOK'
  BY <1>25, <1>0 DEF StepThrows, Throws
<1>26. ASSUME NEW M \in SUBSET Inventory,
              NEW failure \in {"failed", "cancelled"},
              ConnectPeersThrows(M, failure)
      PROVE  TypeOK'
  BY <1>26, <1>0 DEF ConnectPeersThrows, Throws
<1>27. ASSUME Prepare PROVE TypeOK'
  BY <1>27, <1>0 DEF Prepare
<1>28. ASSUME Claim PROVE TypeOK'
  BY <1>28, <1>0 DEF Claim, Candidates, CandidateRoots, Shape, Adding,
      Recording, Removing, Retiring, CleaningUp, AddingSteps, RemovingSteps,
      RetiringSteps, Forward, Undoing
<1>29. ASSUME ClaimThrows PROVE TypeOK'
  BY <1>29, <1>0 DEF ClaimThrows, Candidates, CandidateRoots, Shape, Adding,
    Recording, Removing, Retiring, CleaningUp, AddingSteps, RemovingSteps,
    RetiringSteps, Forward, Undoing
<1>30. ASSUME Equip PROVE TypeOK'
  BY <1>30, <1>0 DEF Equip
<1>31. ASSUME StartNodes PROVE TypeOK'
  BY <1>31, <1>0 DEF StartNodes
<1>32. ASSUME PoliciesUpdated PROVE TypeOK'
  BY <1>32, <1>0 DEF PoliciesUpdated
<1>33. ASSUME NEW M \in SUBSET Inventory, ConnectPeers(M)
      PROVE  TypeOK'
  BY <1>33, <1>0 DEF ConnectPeers, AfterPeers
<1>34. ASSUME Synchronize PROVE TypeOK'
  BY <1>34, <1>0 DEF Synchronize
<1>35. ASSUME Register PROVE TypeOK'
  BY <1>35, <1>0 DEF Register
<1>36. ASSUME NEW R \in SUBSET tx.ids,
              NEW failure \in {"failed", "cancelled", "unconfirmed"},
              RegisterThrows(R, failure)
      PROVE  TypeOK'
  BY <1>36, <1>0 DEF RegisterThrows, Throws
<1>37. ASSUME WriteLive PROVE TypeOK'
  BY <1>37, <1>0 DEF WriteLive, Live
<1>38. ASSUME CommitRefused PROVE TypeOK'
  BY <1>38, <1>0 DEF CommitRefused
<1>39. ASSUME Revoke PROVE TypeOK'
  BY <1>39, <1>0 DEF Revoke, FaultIf, Failed
<1>40. ASSUME StopCandidates PROVE TypeOK'
  BY <1>40, <1>0 DEF StopCandidates, FaultIf, Failed
<1>41. ASSUME Reset PROVE TypeOK'
  BY <1>41, <1>0 DEF Reset, FaultIf, Failed, Restorable
<1>42. ASSUME Reconcile PROVE TypeOK'
  BY <1>42, <1>0 DEF Reconcile, RollbackManifest, PriorManifest, With, Live
<1>43. ASSUME Settle PROVE TypeOK'
  BY <1>43, <1>0 DEF Settle, Ends, NoTx
<1>44. ASSUME Record PROVE TypeOK'
  BY <1>44, <1>0 DEF Record, Ends, NoTx
<1>45. ASSUME Mark PROVE TypeOK'
  BY <1>45, <1>0 DEF Mark, MarkedManifest, PriorManifest, With, Live
<1>46. ASSUME MarkThrows PROVE TypeOK'
  BY <1>46, <1>0 DEF MarkThrows, MarkedManifest, PriorManifest, With, Live
<1>47. ASSUME Drain PROVE TypeOK'
  BY <1>47, <1>0 DEF Drain
<1>48. ASSUME DrainTimesOut PROVE TypeOK'
  BY <1>48, <1>0 DEF DrainTimesOut, Ends
<1>49. ASSUME Retire PROVE TypeOK'
  BY <1>49, <1>0 DEF Retire
<1>50. ASSUME Promote PROVE TypeOK'
  BY <1>50, <1>0 DEF Promote, Ends, NoTx, Live
<1>51. ASSUME NEW n \in Nodes, UnlinkMarker(n)
      PROVE  TypeOK'
  BY <1>51, <1>0 DEF UnlinkMarker
<1>52. ASSUME RootsRemoved PROVE TypeOK'
  BY <1>52, <1>0 DEF RootsRemoved, AfterRoots, Shape, Adding, Recording,
      Removing, Retiring, CleaningUp, AddingSteps, RemovingSteps,
      RetiringSteps, Forward, Undoing
<1>53. ASSUME RemoveDirectory PROVE TypeOK'
  BY <1>53, <1>0 DEF RemoveDirectory, Shape, Adding, Recording, Removing,
      Retiring, CleaningUp, AddingSteps, RemovingSteps, RetiringSteps, Forward,
      Undoing
<1>54. ASSUME StopRun PROVE TypeOK'
  BY <1>54, <1>0 DEF StopRun, FaultIf
<1>55. ASSUME Crash PROVE TypeOK'
  BY <1>55, <1>0 DEF Crash, Running
<1>56. ASSUME CleanupRefused PROVE TypeOK'
  BY <1>56, <1>0 DEF CleanupRefused
<1>57. ASSUME Cleanup PROVE TypeOK'
  BY <1>57, <1>0 DEF Cleanup, FaultIf, NoTx, RootsVerified
<1>58. ASSUME Rewrite PROVE TypeOK'
  BY <1>58, <1>0 DEF Rewrite
<1>59. ASSUME CleanupKilled PROVE TypeOK'
  BY <1>59, <1>0 DEF CleanupKilled
<1>60. ASSUME Ended PROVE TypeOK'
  BY <1>60, <1>0 DEF Ended, mutationVars
<1> QED
  BY <1>1, <1>2, <1>3, <1>4, <1>5, <1>6, <1>7, <1>8, <1>9, <1>10, <1>11, <1>12,
      <1>13, <1>14, <1>15, <1>16, <1>17, <1>18, <1>19, <1>20, <1>21, <1>22,
      <1>23, <1>24, <1>25, <1>26, <1>27, <1>28, <1>29, <1>30, <1>31, <1>32,
      <1>33, <1>34, <1>35, <1>36, <1>37, <1>38, <1>39, <1>40, <1>41, <1>42,
      <1>43, <1>44, <1>45, <1>46, <1>47, <1>48, <1>49, <1>50, <1>51, <1>52,
      <1>53, <1>54, <1>55, <1>56, <1>57, <1>58, <1>59, <1>60 DEF MutationNext,
      AddStep, HandlerStep, RootStep

\* ... and those of the locals of the handler, ...
LEMMA TxStep ==
  ASSUME MutationInv, MutationNext
  PROVE  TxTypeOK'
<1>0. TypeOK /\ TxTypeOK /\ Inventory \subseteq Nodes
  BY InventoryType DEF MutationInv, StretchInv, CandidateInv, CoreInv
<1>1. ASSUME NEW S \in SUBSET Nodes, NEW masternode \in BOOLEAN,
             NEW expands \in BOOLEAN, BeginAdd(S, masternode, expands)
      PROVE  TxTypeOK'
<2>1. tx' = [kind |-> "add", ids |-> S, masternode |-> masternode,
             expands |-> expands, todo |-> S, current |-> {}, acquired |-> {},
             flagged |-> {}, peers |-> FALSE, known |-> {}, verified |-> {},
             errors |-> FALSE, failure |-> "none", published |-> FALSE,
             unrestored |-> FALSE]
    BY <1>1 DEF BeginAdd, NoTx
<2> QED
    BY <1>1, <2>1, Zenon DEF TxTypeOK
<1>2. ASSUME StopCandidates PROVE TxTypeOK'
<2>1. PICK V \in SUBSET tx.acquired :
         tx' = [tx EXCEPT !.verified = V, !.todo = V,
                          !.errors = Failed(V # tx.acquired)]
    BY <1>2 DEF StopCandidates
<2>2. Failed(V # tx.acquired) \in BOOLEAN
    BY <1>0 DEF Failed, TxTypeOK
<2> QED
    BY <1>0, <2>1, <2>2 DEF TxTypeOK
<1>3. ASSUME Unmark PROVE TxTypeOK'
<2>1. tx' = NoTx \/ tx' = tx
    BY <1>3, Zenon DEF Unmark
<2>2. CASE tx' = NoTx
    BY <2>2 DEF NoTx, TxTypeOK
<2>3. CASE tx' = tx
    BY <1>0, <2>3 DEF TxTypeOK
<2> QED
    BY <2>1, <2>2, <2>3
<1>4. ASSUME NEW n \in Nodes, UnlinkMarkerThrows(n)
      PROVE  TxTypeOK'
<2>1. \E m \in Nodes : RootKept(m)
    BY <1>4, <1>0 DEF UnlinkMarkerThrows, TxTypeOK
<2>2. CASE tx.kind = "remove"
    BY <1>0, <2>1, <2>2 DEF RootKept, TxTypeOK
<2> QED
    BY <1>0, <2>1, <2>2, KeptRoot
<1>5. ASSUME RemoveDirectoryThrows PROVE TxTypeOK'
<2>1. \E m \in Nodes : RootKept(m)
    BY <1>5, <1>0 DEF RemoveDirectoryThrows, TxTypeOK
<2>2. CASE tx.kind = "remove"
    BY <1>0, <2>1, <2>2 DEF RootKept, TxTypeOK
<2> QED
    BY <1>0, <2>1, <2>2, KeptRoot
<1>6. ASSUME Cleanup PROVE TxTypeOK'
<2>1. PICK C \in SUBSET DOMAIN manifest, V \in SUBSET DOMAIN manifest :
         LET S == {n \in V : manifest[n] = "pendingAdd"}
         IN  tx' = [NoTx EXCEPT !.kind = "offline", !.verified = S, !.todo = S,
                                !.errors = V # DOMAIN manifest,
                                !.unrestored = tx.unrestored]
    BY <1>6 DEF Cleanup
<2>2. tx.unrestored \in BOOLEAN /\ (V # DOMAIN manifest) \in BOOLEAN
    BY <1>0 DEF TxTypeOK
<2>3. {n \in V : manifest[n] = "pendingAdd"} \in SUBSET Nodes
    BY <1>0 DEF TypeOK
<2> QED
    BY <2>1, <2>2, <2>3 DEF NoTx, TxTypeOK
<1> USE DEF TxTypeOK, NoTx, durable, inventory, host, control
<1>7. ASSUME NEW r \in Readers, Lease(r)
      PROVE  TxTypeOK'
  BY <1>7, <1>0 DEF Lease
<1>8. ASSUME NEW r \in Readers, Release(r)
      PROVE  TxTypeOK'
  BY <1>8, <1>0 DEF Release
<1>9. ASSUME RequestCancellation PROVE TxTypeOK'
  BY <1>9, <1>0 DEF RequestCancellation, Running
<1>10. ASSUME Refuse PROVE TxTypeOK'
  BY <1>10, <1>0 DEF Refuse
<1>11. ASSUME NEW S \in SUBSET Nodes, StageThrows(S)
      PROVE  TxTypeOK'
  BY <1>11, <1>0 DEF StageThrows
<1>12. ASSUME NEW S \in SUBSET Nodes, BeginRemove(S)
      PROVE  TxTypeOK'
  BY <1>12, <1>0 DEF BeginRemove
<1>13. ASSUME NEW n \in Nodes, Reserve(n)
      PROVE  TxTypeOK'
  BY <1>13, <1>0 DEF Reserve
<1>14. ASSUME NEW n \in Nodes, UpdatePolicy(n)
      PROVE  TxTypeOK'
  BY <1>14, <1>0 DEF UpdatePolicy, TypeOK
<1>15. ASSUME NEW n \in Nodes, UpdatePolicyUnconfirmed(n)
      PROVE  TxTypeOK'
  BY <1>15, <1>0 DEF UpdatePolicyUnconfirmed
<1>16. ASSUME NEW n \in Nodes, NEW failure \in {"failed", "cancelled"},
              ReserveThrows(n, failure)
      PROVE  TxTypeOK'
  BY <1>16, <1>0 DEF ReserveThrows, Throws
<1>17. ASSUME NEW n \in Nodes, NEW failure \in {"failed", "cancelled"},
              UpdatePolicyThrows(n, failure)
      PROVE  TxTypeOK'
  BY <1>17, <1>0 DEF UpdatePolicyThrows, Throws
<1>18. ASSUME NEW failure \in {"failed", "cancelled"}, EquipThrows(failure)
      PROVE  TxTypeOK'
  BY <1>18, <1>0 DEF EquipThrows, Throws
<1>19. ASSUME NEW failure \in {"failed", "cancelled"}, StepThrows(failure)
      PROVE  TxTypeOK'
  BY <1>19, <1>0 DEF StepThrows, Throws
<1>20. ASSUME NEW M \in SUBSET Inventory,
              NEW failure \in {"failed", "cancelled"},
              ConnectPeersThrows(M, failure)
      PROVE  TxTypeOK'
  BY <1>20, <1>0 DEF ConnectPeersThrows, Throws
<1>21. ASSUME Prepare PROVE TxTypeOK'
  BY <1>21, <1>0 DEF Prepare
<1>22. ASSUME Claim PROVE TxTypeOK'
  BY <1>22, <1>0 DEF Claim
<1>23. ASSUME ClaimThrows PROVE TxTypeOK'
  BY <1>23, <1>0 DEF ClaimThrows
<1>24. ASSUME Equip PROVE TxTypeOK'
  BY <1>24, <1>0 DEF Equip
<1>25. ASSUME StartNodes PROVE TxTypeOK'
  BY <1>25, <1>0 DEF StartNodes
<1>26. ASSUME PoliciesUpdated PROVE TxTypeOK'
  BY <1>26, <1>0 DEF PoliciesUpdated
<1>27. ASSUME NEW M \in SUBSET Inventory, ConnectPeers(M)
      PROVE  TxTypeOK'
  BY <1>27, <1>0 DEF ConnectPeers, AfterPeers
<1>28. ASSUME Synchronize PROVE TxTypeOK'
  BY <1>28, <1>0 DEF Synchronize
<1>29. ASSUME Register PROVE TxTypeOK'
  BY <1>29, <1>0 DEF Register
<1>30. ASSUME NEW R \in SUBSET tx.ids,
              NEW failure \in {"failed", "cancelled", "unconfirmed"},
              RegisterThrows(R, failure)
      PROVE  TxTypeOK'
  BY <1>30, <1>0 DEF RegisterThrows, Throws
<1>31. ASSUME WriteLive PROVE TxTypeOK'
  BY <1>31, <1>0 DEF WriteLive
<1>32. ASSUME WriteLiveThrows PROVE TxTypeOK'
  BY <1>32, <1>0 DEF WriteLiveThrows
<1>33. ASSUME CommitRefused PROVE TxTypeOK'
  BY <1>33, <1>0 DEF CommitRefused
<1>34. ASSUME Publish PROVE TxTypeOK'
  BY <1>34, <1>0 DEF Publish
<1>35. ASSUME RestoreReservation PROVE TxTypeOK'
  BY <1>35, <1>0 DEF RestoreReservation
<1>36. ASSUME Revoke PROVE TxTypeOK'
  BY <1>36, <1>0 DEF Revoke, FaultIf, Failed
<1>37. ASSUME Reset PROVE TxTypeOK'
  BY <1>37, <1>0 DEF Reset, FaultIf, Failed
<1>38. ASSUME Reconcile PROVE TxTypeOK'
  BY <1>38, <1>0 DEF Reconcile
<1>39. ASSUME Unstage PROVE TxTypeOK'
  BY <1>39, <1>0 DEF Unstage
<1>40. ASSUME Settle PROVE TxTypeOK'
  BY <1>40, <1>0 DEF Settle, Ends
<1>41. ASSUME Record PROVE TxTypeOK'
  BY <1>41, <1>0 DEF Record, Ends
<1>42. ASSUME RecordThrows PROVE TxTypeOK'
  BY <1>42, <1>0 DEF RecordThrows, Ends
<1>43. ASSUME Mark PROVE TxTypeOK'
  BY <1>43, <1>0 DEF Mark
<1>44. ASSUME MarkThrows PROVE TxTypeOK'
  BY <1>44, <1>0 DEF MarkThrows
<1>45. ASSUME PublishRemoval PROVE TxTypeOK'
  BY <1>45, <1>0 DEF PublishRemoval
<1>46. ASSUME Drain PROVE TxTypeOK'
  BY <1>46, <1>0 DEF Drain
<1>47. ASSUME DrainTimesOut PROVE TxTypeOK'
  BY <1>47, <1>0 DEF DrainTimesOut, Ends
<1>48. ASSUME Retire PROVE TxTypeOK'
  BY <1>48, <1>0 DEF Retire
<1>49. ASSUME RetireThrows PROVE TxTypeOK'
  BY <1>49, <1>0 DEF RetireThrows, Ends
<1>50. ASSUME Promote PROVE TxTypeOK'
  BY <1>50, <1>0 DEF Promote, Ends
<1>51. ASSUME PromoteThrows PROVE TxTypeOK'
  BY <1>51, <1>0 DEF PromoteThrows, Ends
<1>52. ASSUME NEW n \in Nodes, UnlinkMarker(n)
      PROVE  TxTypeOK'
  BY <1>52, <1>0 DEF UnlinkMarker
<1>53. ASSUME RootsRemoved PROVE TxTypeOK'
  BY <1>53, <1>0 DEF RootsRemoved, AfterRoots
<1>54. ASSUME RemoveDirectory PROVE TxTypeOK'
  BY <1>54, <1>0 DEF RemoveDirectory
<1>55. ASSUME StopRun PROVE TxTypeOK'
  BY <1>55, <1>0 DEF StopRun, FaultIf
<1>56. ASSUME Crash PROVE TxTypeOK'
  BY <1>56, <1>0 DEF Crash, Running
<1>57. ASSUME CleanupRefused PROVE TxTypeOK'
  BY <1>57, <1>0 DEF CleanupRefused
<1>58. ASSUME Rewrite PROVE TxTypeOK'
  BY <1>58, <1>0 DEF Rewrite
<1>59. ASSUME CleanupKilled PROVE TxTypeOK'
  BY <1>59, <1>0 DEF CleanupKilled
<1>60. ASSUME Ended PROVE TxTypeOK'
  BY <1>60, <1>0 DEF Ended, mutationVars
<1> QED
  BY <1>1, <1>2, <1>3, <1>4, <1>5, <1>6, <1>7, <1>8, <1>9, <1>10, <1>11, <1>12,
      <1>13, <1>14, <1>15, <1>16, <1>17, <1>18, <1>19, <1>20, <1>21, <1>22,
      <1>23, <1>24, <1>25, <1>26, <1>27, <1>28, <1>29, <1>30, <1>31, <1>32,
      <1>33, <1>34, <1>35, <1>36, <1>37, <1>38, <1>39, <1>40, <1>41, <1>42,
      <1>43, <1>44, <1>45, <1>46, <1>47, <1>48, <1>49, <1>50, <1>51, <1>52,
      <1>53, <1>54, <1>55, <1>56, <1>57, <1>58, <1>59, <1>60 DEF MutationNext,
      AddStep, HandlerStep, RootStep

\* ... and leaves the handler in one of its stretches.
LEMMA ShapeStep ==
  ASSUME MutationInv, MutationNext
  PROVE  Shape'
<1>0. /\ TypeOK /\ TxTypeOK /\ Shape
      /\ Len(gens) \in Nat \ {0} /\ MaxGenerations \in Nat
  BY InventoryType, NodeMutationAssumption DEF MutationInv, StretchInv,
      CandidateInv, CoreInv
<1> USE DEF Handler, Cleaning, Ending, TypeOK, TxTypeOK
<1>1. ASSUME NEW n \in Nodes, UnlinkMarkerThrows(n)
      PROVE  Shape'
<2>1. CASE tx.kind = "remove"
    BY <1>1, <1>0, <2>1 DEF UnlinkMarkerThrows, RootKept, Ends, durable,
      Shape, Adding, Recording, Removing, Retiring, CleaningUp, AddingSteps,
      RemovingSteps, RetiringSteps, Forward, Undoing
<2>2. CASE tx.kind # "remove"
    BY <1>1, <1>0, <2>2, KeptRoot DEF UnlinkMarkerThrows, durable, Shape,
      Adding, Recording, Removing, Retiring, CleaningUp, AddingSteps,
      RemovingSteps, RetiringSteps, Forward, Undoing
<2> QED
    BY <2>1, <2>2
<1>2. ASSUME RemoveDirectoryThrows PROVE Shape'
<2>1. CASE tx.kind = "remove"
    BY <1>2, <1>0, <2>1 DEF RemoveDirectoryThrows, RootKept, Ends, Shape,
      Adding, Recording, Removing, Retiring, CleaningUp, AddingSteps,
      RemovingSteps, RetiringSteps, Forward, Undoing
<2>2. CASE tx.kind # "remove"
    BY <1>2, <1>0, <2>2, KeptRoot DEF RemoveDirectoryThrows, Shape, Adding,
      Recording, Removing, Retiring, CleaningUp, AddingSteps, RemovingSteps,
      RetiringSteps, Forward, Undoing
<2> QED
    BY <2>1, <2>2
<1> USE DEF Shape, Adding, Recording, Removing, Retiring, CleaningUp,
    AddingSteps, RemovingSteps, RetiringSteps, Forward, Undoing, NoTx, durable,
    inventory, host, control
<1>3. ASSUME NEW r \in Readers, Lease(r)
      PROVE  Shape'
  BY <1>3, <1>0 DEF Lease
<1>4. ASSUME NEW r \in Readers, Release(r)
      PROVE  Shape'
  BY <1>4, <1>0 DEF Release
<1>5. ASSUME RequestCancellation PROVE Shape'
  BY <1>5, <1>0 DEF RequestCancellation, Running
<1>6. ASSUME Refuse PROVE Shape'
  BY <1>6, <1>0 DEF Refuse
<1>7. ASSUME NEW S \in SUBSET Nodes, NEW masternode \in BOOLEAN,
             NEW expands \in BOOLEAN, BeginAdd(S, masternode, expands)
      PROVE  Shape'
  BY <1>7, <1>0 DEF BeginAdd
<1>8. ASSUME NEW S \in SUBSET Nodes, StageThrows(S)
      PROVE  Shape'
  BY <1>8, <1>0 DEF StageThrows
<1>9. ASSUME NEW S \in SUBSET Nodes, BeginRemove(S)
      PROVE  Shape'
  BY <1>9, <1>0 DEF BeginRemove
<1>10. ASSUME NEW n \in Nodes, Reserve(n)
      PROVE  Shape'
  BY <1>10, <1>0 DEF Reserve
<1>11. ASSUME NEW n \in Nodes, UpdatePolicy(n)
      PROVE  Shape'
  BY <1>11, <1>0 DEF UpdatePolicy
<1>12. ASSUME NEW n \in Nodes, UpdatePolicyUnconfirmed(n)
      PROVE  Shape'
  BY <1>12, <1>0 DEF UpdatePolicyUnconfirmed
<1>13. ASSUME NEW n \in Nodes, NEW failure \in {"failed", "cancelled"},
              ReserveThrows(n, failure)
      PROVE  Shape'
  BY <1>13, <1>0 DEF ReserveThrows, Throws
<1>14. ASSUME NEW n \in Nodes, NEW failure \in {"failed", "cancelled"},
              UpdatePolicyThrows(n, failure)
      PROVE  Shape'
  BY <1>14, <1>0 DEF UpdatePolicyThrows, Throws
<1>15. ASSUME NEW failure \in {"failed", "cancelled"}, EquipThrows(failure)
      PROVE  Shape'
  BY <1>15, <1>0 DEF EquipThrows, Throws
<1>16. ASSUME NEW failure \in {"failed", "cancelled"}, StepThrows(failure)
      PROVE  Shape'
  BY <1>16, <1>0 DEF StepThrows, Throws
<1>17. ASSUME NEW M \in SUBSET Inventory,
              NEW failure \in {"failed", "cancelled"},
              ConnectPeersThrows(M, failure)
      PROVE  Shape'
  BY <1>17, <1>0 DEF ConnectPeersThrows, Throws
<1>18. ASSUME Prepare PROVE Shape'
  BY <1>18, <1>0 DEF Prepare
<1>19. ASSUME Claim PROVE Shape'
  BY <1>19, <1>0 DEF Claim
<1>20. ASSUME ClaimThrows PROVE Shape'
  BY <1>20, <1>0 DEF ClaimThrows
<1>21. ASSUME Equip PROVE Shape'
  BY <1>21, <1>0 DEF Equip
<1>22. ASSUME StartNodes PROVE Shape'
  BY <1>22, <1>0 DEF StartNodes
<1>23. ASSUME PoliciesUpdated PROVE Shape'
  BY <1>23, <1>0 DEF PoliciesUpdated
<1>24. ASSUME NEW M \in SUBSET Inventory, ConnectPeers(M)
      PROVE  Shape'
  BY <1>24, <1>0 DEF ConnectPeers, AfterPeers
<1>25. ASSUME Synchronize PROVE Shape'
  BY <1>25, <1>0 DEF Synchronize
<1>26. ASSUME Register PROVE Shape'
  BY <1>26, <1>0 DEF Register
<1>27. ASSUME NEW R \in SUBSET tx.ids,
              NEW failure \in {"failed", "cancelled", "unconfirmed"},
              RegisterThrows(R, failure)
      PROVE  Shape'
  BY <1>27, <1>0 DEF RegisterThrows, Throws
<1>28. ASSUME WriteLive PROVE Shape'
  BY <1>28, <1>0 DEF WriteLive
<1>29. ASSUME WriteLiveThrows PROVE Shape'
  BY <1>29, <1>0 DEF WriteLiveThrows
<1>30. ASSUME CommitRefused PROVE Shape'
  BY <1>30, <1>0 DEF CommitRefused
<1>31. ASSUME Publish PROVE Shape'
  BY <1>31, <1>0 DEF Publish
<1>32. ASSUME RestoreReservation PROVE Shape'
  BY <1>32, <1>0 DEF RestoreReservation
<1>33. ASSUME Revoke PROVE Shape'
  BY <1>33, <1>0 DEF Revoke, FaultIf, Failed
<1>34. ASSUME StopCandidates PROVE Shape'
  BY <1>34, <1>0 DEF StopCandidates, FaultIf, Failed
<1>35. ASSUME Reset PROVE Shape'
  BY <1>35, <1>0 DEF Reset, FaultIf, Failed
<1>36. ASSUME Reconcile PROVE Shape'
  BY <1>36, <1>0 DEF Reconcile
<1>37. ASSUME Unstage PROVE Shape'
  BY <1>37, <1>0 DEF Unstage
<1>38. ASSUME Settle PROVE Shape'
  BY <1>38, <1>0 DEF Settle, Ends
<1>39. ASSUME Record PROVE Shape'
  BY <1>39, <1>0 DEF Record, Ends
<1>40. ASSUME RecordThrows PROVE Shape'
  BY <1>40, <1>0 DEF RecordThrows, Ends
<1>41. ASSUME Mark PROVE Shape'
  BY <1>41, <1>0 DEF Mark
<1>42. ASSUME MarkThrows PROVE Shape'
  BY <1>42, <1>0 DEF MarkThrows
<1>43. ASSUME Unmark PROVE Shape'
  BY <1>43, <1>0 DEF Unmark, Ends
<1>44. ASSUME PublishRemoval PROVE Shape'
  BY <1>44, <1>0 DEF PublishRemoval
<1>45. ASSUME Drain PROVE Shape'
  BY <1>45, <1>0 DEF Drain
<1>46. ASSUME DrainTimesOut PROVE Shape'
  BY <1>46, <1>0 DEF DrainTimesOut, Ends
<1>47. ASSUME Retire PROVE Shape'
  BY <1>47, <1>0 DEF Retire
<1>48. ASSUME RetireThrows PROVE Shape'
  BY <1>48, <1>0 DEF RetireThrows, Ends
<1>49. ASSUME Promote PROVE Shape'
  BY <1>49, <1>0 DEF Promote, Ends
<1>50. ASSUME PromoteThrows PROVE Shape'
  BY <1>50, <1>0 DEF PromoteThrows, Ends
<1>51. ASSUME NEW n \in Nodes, UnlinkMarker(n)
      PROVE  Shape'
  BY <1>51, <1>0 DEF UnlinkMarker
<1>52. ASSUME RootsRemoved PROVE Shape'
  BY <1>52, <1>0 DEF RootsRemoved, AfterRoots
<1>53. ASSUME RemoveDirectory PROVE Shape'
  BY <1>53, <1>0 DEF RemoveDirectory
<1>54. ASSUME StopRun PROVE Shape'
  BY <1>54, <1>0 DEF StopRun, FaultIf
<1>55. ASSUME Crash PROVE Shape'
  BY <1>55, <1>0 DEF Crash, Running
<1>56. ASSUME CleanupRefused PROVE Shape'
  BY <1>56, <1>0 DEF CleanupRefused
<1>57. ASSUME Cleanup PROVE Shape'
  BY <1>57, <1>0 DEF Cleanup, FaultIf
<1>58. ASSUME Rewrite PROVE Shape'
  BY <1>58, <1>0 DEF Rewrite
<1>59. ASSUME CleanupKilled PROVE Shape'
  BY <1>59, <1>0 DEF CleanupKilled
<1>60. ASSUME Ended PROVE Shape'
  BY <1>60, <1>0 DEF Ended, mutationVars
<1> QED
  BY <1>1, <1>2, <1>3, <1>4, <1>5, <1>6, <1>7, <1>8, <1>9, <1>10, <1>11, <1>12,
      <1>13, <1>14, <1>15, <1>16, <1>17, <1>18, <1>19, <1>20, <1>21, <1>22,
      <1>23, <1>24, <1>25, <1>26, <1>27, <1>28, <1>29, <1>30, <1>31, <1>32,
      <1>33, <1>34, <1>35, <1>36, <1>37, <1>38, <1>39, <1>40, <1>41, <1>42,
      <1>43, <1>44, <1>45, <1>46, <1>47, <1>48, <1>49, <1>50, <1>51, <1>52,
      <1>53, <1>54, <1>55, <1>56, <1>57, <1>58, <1>59, <1>60 DEF MutationNext,
      AddStep, HandlerStep, RootStep

\* The cleanup is refused only by CleanupRun, which found a live entry without
\* a root or a root without a marker.
LEMMA RefusalStep ==
  ASSUME MutationInv, MutationNext
  PROVE  RefusalIsExplained'
<1>0. Shape /\ RefusalIsExplained /\ LiveHasRoot
  BY DEF MutationInv, StretchInv, CandidateInv, CoreInv
<1>1. ASSUME NEW r \in Readers, Lease(r)
      PROVE  RefusalIsExplained'
  BY <1>1, <1>0 DEF Lease, RefusalIsExplained, durable
<1>2. ASSUME NEW r \in Readers, Release(r)
      PROVE  RefusalIsExplained'
  BY <1>2, <1>0 DEF Release, RefusalIsExplained, durable
<1>3. ASSUME RequestCancellation PROVE RefusalIsExplained'
  BY <1>3, <1>0 DEF RequestCancellation, RefusalIsExplained, durable
<1>4. ASSUME Refuse PROVE RefusalIsExplained'
  BY <1>4, <1>0 DEF Refuse, RefusalIsExplained, durable
<1>5. ASSUME NEW S \in SUBSET Nodes, NEW masternode \in BOOLEAN,
             NEW expands \in BOOLEAN, BeginAdd(S, masternode, expands)
      PROVE  RefusalIsExplained'
  BY <1>5 DEF BeginAdd, RefusalIsExplained
<1>6. ASSUME NEW S \in SUBSET Nodes, StageThrows(S)
      PROVE  RefusalIsExplained'
  BY <1>6 DEF StageThrows, RefusalIsExplained
<1>7. ASSUME NEW S \in SUBSET Nodes, BeginRemove(S)
      PROVE  RefusalIsExplained'
  BY <1>7 DEF BeginRemove, RefusalIsExplained
<1>8. ASSUME NEW n \in Nodes, Reserve(n)
      PROVE  RefusalIsExplained'
  BY <1>8 DEF Reserve, RefusalIsExplained
<1>9. ASSUME NEW n \in Nodes, UpdatePolicy(n)
      PROVE  RefusalIsExplained'
  BY <1>9, <1>0 DEF UpdatePolicy, RefusalIsExplained, durable
<1>10. ASSUME NEW n \in Nodes, UpdatePolicyUnconfirmed(n)
      PROVE  RefusalIsExplained'
  BY <1>10 DEF UpdatePolicyUnconfirmed, RefusalIsExplained
<1>11. ASSUME NEW n \in Nodes, NEW failure \in {"failed", "cancelled"},
              ReserveThrows(n, failure)
      PROVE  RefusalIsExplained'
  BY <1>11 DEF ReserveThrows, RefusalIsExplained
<1>12. ASSUME NEW n \in Nodes, NEW failure \in {"failed", "cancelled"},
              UpdatePolicyThrows(n, failure)
      PROVE  RefusalIsExplained'
  BY <1>12 DEF UpdatePolicyThrows, RefusalIsExplained
<1>13. ASSUME NEW failure \in {"failed", "cancelled"}, EquipThrows(failure)
      PROVE  RefusalIsExplained'
  BY <1>13 DEF EquipThrows, RefusalIsExplained
<1>14. ASSUME NEW failure \in {"failed", "cancelled"}, StepThrows(failure)
      PROVE  RefusalIsExplained'
  BY <1>14 DEF StepThrows, RefusalIsExplained
<1>15. ASSUME NEW M \in SUBSET Inventory,
              NEW failure \in {"failed", "cancelled"},
              ConnectPeersThrows(M, failure)
      PROVE  RefusalIsExplained'
  BY <1>15 DEF ConnectPeersThrows, RefusalIsExplained
<1>16. ASSUME Prepare PROVE RefusalIsExplained'
  BY <1>16 DEF Prepare, RefusalIsExplained
<1>17. ASSUME Claim PROVE RefusalIsExplained'
  BY <1>17 DEF Claim, RefusalIsExplained
<1>18. ASSUME ClaimThrows PROVE RefusalIsExplained'
  BY <1>18 DEF ClaimThrows, RefusalIsExplained
<1>19. ASSUME Equip PROVE RefusalIsExplained'
  BY <1>19 DEF Equip, RefusalIsExplained
<1>20. ASSUME StartNodes PROVE RefusalIsExplained'
  BY <1>20 DEF StartNodes, RefusalIsExplained
<1>21. ASSUME PoliciesUpdated PROVE RefusalIsExplained'
  BY <1>21 DEF PoliciesUpdated, RefusalIsExplained
<1>22. ASSUME NEW M \in SUBSET Inventory, ConnectPeers(M)
      PROVE  RefusalIsExplained'
  BY <1>22 DEF ConnectPeers, AfterPeers, RefusalIsExplained
<1>23. ASSUME Synchronize PROVE RefusalIsExplained'
  BY <1>23 DEF Synchronize, RefusalIsExplained
<1>24. ASSUME Register PROVE RefusalIsExplained'
  BY <1>24 DEF Register, RefusalIsExplained
<1>25. ASSUME NEW R \in SUBSET tx.ids,
              NEW failure \in {"failed", "cancelled", "unconfirmed"},
              RegisterThrows(R, failure)
      PROVE  RefusalIsExplained'
  BY <1>25 DEF RegisterThrows, RefusalIsExplained
<1>26. ASSUME WriteLive PROVE RefusalIsExplained'
  BY <1>26 DEF WriteLive, RefusalIsExplained
<1>27. ASSUME WriteLiveThrows PROVE RefusalIsExplained'
  BY <1>27 DEF WriteLiveThrows, RefusalIsExplained
<1>28. ASSUME CommitRefused PROVE RefusalIsExplained'
  BY <1>28 DEF CommitRefused, RefusalIsExplained
<1>29. ASSUME Publish PROVE RefusalIsExplained'
  BY <1>29 DEF Publish, RefusalIsExplained
<1>30. ASSUME RestoreReservation PROVE RefusalIsExplained'
  BY <1>30 DEF RestoreReservation, RefusalIsExplained
<1>31. ASSUME Revoke PROVE RefusalIsExplained'
  BY <1>31 DEF Revoke, RefusalIsExplained
<1>32. ASSUME StopCandidates PROVE RefusalIsExplained'
  BY <1>32 DEF StopCandidates, RefusalIsExplained
<1>33. ASSUME Reset PROVE RefusalIsExplained'
  BY <1>33 DEF Reset, RefusalIsExplained
<1>34. ASSUME Reconcile PROVE RefusalIsExplained'
  BY <1>34 DEF Reconcile, RefusalIsExplained
<1>35. ASSUME Unstage PROVE RefusalIsExplained'
  BY <1>35 DEF Unstage, RefusalIsExplained
<1>36. ASSUME Settle PROVE RefusalIsExplained'
  BY <1>36 DEF Settle, Ends, RefusalIsExplained
<1>37. ASSUME Record PROVE RefusalIsExplained'
  BY <1>37 DEF Record, Ends, RefusalIsExplained
<1>38. ASSUME RecordThrows PROVE RefusalIsExplained'
  BY <1>38 DEF RecordThrows, Ends, RefusalIsExplained
<1>39. ASSUME Mark PROVE RefusalIsExplained'
  BY <1>39 DEF Mark, RefusalIsExplained
<1>40. ASSUME MarkThrows PROVE RefusalIsExplained'
  BY <1>40 DEF MarkThrows, RefusalIsExplained
<1>41. ASSUME Unmark PROVE RefusalIsExplained'
<2>1. Ends("failed") \/ Ends("unconfirmed")
    BY <1>41, Zenon DEF Unmark
<2> QED
    BY <2>1 DEF Ends, RefusalIsExplained
<1>42. ASSUME PublishRemoval PROVE RefusalIsExplained'
  BY <1>42 DEF PublishRemoval, RefusalIsExplained
<1>43. ASSUME Drain PROVE RefusalIsExplained'
  BY <1>43 DEF Drain, RefusalIsExplained
<1>44. ASSUME DrainTimesOut PROVE RefusalIsExplained'
  BY <1>44 DEF DrainTimesOut, Ends, RefusalIsExplained
<1>45. ASSUME Retire PROVE RefusalIsExplained'
  BY <1>45 DEF Retire, RefusalIsExplained
<1>46. ASSUME RetireThrows PROVE RefusalIsExplained'
  BY <1>46 DEF RetireThrows, Ends, RefusalIsExplained
<1>47. ASSUME Promote PROVE RefusalIsExplained'
  BY <1>47 DEF Promote, Ends, RefusalIsExplained
<1>48. ASSUME PromoteThrows PROVE RefusalIsExplained'
  BY <1>48 DEF PromoteThrows, Ends, RefusalIsExplained
<1>49. ASSUME NEW n \in Nodes, UnlinkMarker(n)
      PROVE  RefusalIsExplained'
  BY <1>49 DEF UnlinkMarker, RefusalIsExplained
<1>50. ASSUME NEW n \in Nodes, UnlinkMarkerThrows(n)
      PROVE  RefusalIsExplained'
  BY <1>50 DEF UnlinkMarkerThrows, RootKept, Ends, RefusalIsExplained
<1>51. ASSUME RootsRemoved PROVE RefusalIsExplained'
  BY <1>51, <1>0 DEF RootsRemoved, AfterRoots, RefusalIsExplained, Shape,
      Adding, Recording, Removing, Retiring, CleaningUp, Handler, Cleaning
<1>52. ASSUME RemoveDirectory PROVE RefusalIsExplained'
  BY <1>52 DEF RemoveDirectory, RefusalIsExplained
<1>53. ASSUME RemoveDirectoryThrows PROVE RefusalIsExplained'
  BY <1>53 DEF RemoveDirectoryThrows, RootKept, Ends, RefusalIsExplained
<1>54. ASSUME StopRun PROVE RefusalIsExplained'
  BY <1>54 DEF StopRun, RefusalIsExplained
<1>55. ASSUME Crash PROVE RefusalIsExplained'
  BY <1>55 DEF Crash, RefusalIsExplained
<1>56. ASSUME CleanupRefused PROVE RefusalIsExplained'
<2>1. PICK n \in DOMAIN manifest :
         \/ n \in roots /\ n \notin marked
         \/ manifest[n] = "live" /\ n \notin roots
    BY <1>56 DEF CleanupRefused, RootsVerified
<2> QED
    BY <1>56, <1>0, <2>1 DEF CleanupRefused, RefusalIsExplained, LiveHasRoot,
        durable
<1>57. ASSUME Cleanup PROVE RefusalIsExplained'
  BY <1>57 DEF Cleanup, RefusalIsExplained
<1>58. ASSUME Rewrite PROVE RefusalIsExplained'
  BY <1>58, Zenon DEF Rewrite, RefusalIsExplained
<1>59. ASSUME CleanupKilled PROVE RefusalIsExplained'
  BY <1>59 DEF CleanupKilled, RefusalIsExplained
<1>60. ASSUME Ended PROVE RefusalIsExplained'
  BY <1>60, <1>0 DEF Ended, mutationVars, RefusalIsExplained, durable
<1> QED
  BY <1>1, <1>2, <1>3, <1>4, <1>5, <1>6, <1>7, <1>8, <1>9, <1>10, <1>11, <1>12,
      <1>13, <1>14, <1>15, <1>16, <1>17, <1>18, <1>19, <1>20, <1>21, <1>22,
      <1>23, <1>24, <1>25, <1>26, <1>27, <1>28, <1>29, <1>30, <1>31, <1>32,
      <1>33, <1>34, <1>35, <1>36, <1>37, <1>38, <1>39, <1>40, <1>41, <1>42,
      <1>43, <1>44, <1>45, <1>46, <1>47, <1>48, <1>49, <1>50, <1>51, <1>52,
      <1>53, <1>54, <1>55, <1>56, <1>57, <1>58, <1>59, <1>60 DEF MutationNext,
      AddStep, HandlerStep, RootStep

-----------------------------------------------------------------------------
(* The steps of each stretch.                                              *)

\* Readers, the client and refusals touch nothing but leases and the outcome.
QuietStep ==
    \/ \E r \in Readers : Lease(r) \/ Release(r)
    \/ RequestCancellation \/ Refuse \/ Ended

Begins == \/ \E S \in SUBSET Nodes :
                \/ \E masternode, expands \in BOOLEAN :
                      BeginAdd(S, masternode, expands)
                \/ StageThrows(S)
                \/ BeginRemove(S)

\* The changes of the nodes that stay and the catch block, which additions and
\* removals share.
SharedStep ==
    \/ \E n \in Nodes : UpdatePolicy(n) \/ UpdatePolicyUnconfirmed(n)
    \/ \E failure \in {"failed", "cancelled"} :
          \/ \E n \in Nodes : UpdatePolicyThrows(n, failure)
          \/ StepThrows(failure)
          \/ \E M \in SUBSET Inventory : ConnectPeersThrows(M, failure)
    \/ PoliciesUpdated
    \/ \E M \in SUBSET Inventory : ConnectPeers(M)
    \/ Reset \/ Reconcile \/ Settle

AdditionStep ==
    \/ SharedStep
    \/ RootStep
    \/ \E n \in Nodes : Reserve(n)
    \/ \E failure \in {"failed", "cancelled"} :
          \/ \E n \in Nodes : ReserveThrows(n, failure)
          \/ EquipThrows(failure)
    \/ Prepare \/ Claim \/ ClaimThrows \/ Equip \/ StartNodes
    \/ Synchronize \/ Register
    \/ \E R \in SUBSET tx.ids :
          \E failure \in {"failed", "cancelled", "unconfirmed"} :
             RegisterThrows(R, failure)
    \/ WriteLive \/ WriteLiveThrows \/ CommitRefused \/ Publish
    \/ RestoreReservation \/ Revoke \/ StopCandidates \/ Unstage

RemovalStep ==
    SharedStep \/ Mark \/ MarkThrows \/ Unmark \/ PublishRemoval

RetirementStep ==
    \/ RootStep
    \/ Drain \/ DrainTimesOut \/ Retire \/ RetireThrows
    \/ Promote \/ PromoteThrows

CleanupStep == RootStep \/ Rewrite \/ CleanupKilled

EndStep == StopRun \/ Crash \/ CleanupRefused \/ Cleanup

\* Every step belongs to the stretch its handler is in.
LEMMA StepKinds ==
  ASSUME MutationInv, MutationNext
  PROVE  \/ QuietStep
         \/ Begins
         \/ Adding /\ AdditionStep
         \/ Recording /\ (Record \/ RecordThrows)
         \/ Removing /\ RemovalStep
         \/ Retiring /\ RetirementStep
         \/ CleaningUp /\ CleanupStep
         \/ EndStep
<1>0. /\ pc \in Handler \cup Cleaning =>
            Adding \/ Recording \/ Removing \/ Retiring \/ CleaningUp
      /\ tx.kind \in {"none", "add", "remove", "offline"}
      /\ tx.kind = "offline" => pc \in Cleaning \cup Ending
  BY DEF MutationInv, StretchInv, CandidateInv, CoreInv, Shape, TxTypeOK
<1> USE DEF Handler, Cleaning, Ending, Adding, Recording, Removing, Retiring,
      CleaningUp, AddingSteps, RemovingSteps, RetiringSteps, Forward, Undoing
<1>1. ASSUME AddStep \/ \E S \in SUBSET Nodes \ {{}} : BeginRemove(S)
      PROVE  Begins
  BY <1>1 DEF AddStep, Begins
<1>2. ASSUME NEW n \in Nodes, UpdatePolicy(n)
      PROVE  Adding \/ Removing
  BY <1>2, <1>0 DEF UpdatePolicy
<1>3. ASSUME NEW n \in Nodes, UpdatePolicyUnconfirmed(n)
      PROVE  Adding \/ Removing
  BY <1>3, <1>0 DEF UpdatePolicyUnconfirmed
<1>4. ASSUME NEW n \in Nodes, NEW failure \in {"failed", "cancelled"},
             UpdatePolicyThrows(n, failure)
      PROVE  Adding \/ Removing
  BY <1>4, <1>0 DEF UpdatePolicyThrows
<1>5. ASSUME NEW failure \in {"failed", "cancelled"}, StepThrows(failure)
      PROVE  Adding \/ Removing
  BY <1>5, <1>0 DEF StepThrows
<1>6. ASSUME NEW M \in SUBSET Inventory,
             NEW failure \in {"failed", "cancelled"},
             ConnectPeersThrows(M, failure)
      PROVE  Adding \/ Removing
  BY <1>6, <1>0 DEF ConnectPeersThrows
<1>7. ASSUME PoliciesUpdated PROVE Adding \/ Removing
  BY <1>7, <1>0 DEF PoliciesUpdated
<1>8. ASSUME NEW M \in SUBSET Inventory, ConnectPeers(M)
      PROVE  Adding \/ Removing
  BY <1>8, <1>0 DEF ConnectPeers
<1>9. ASSUME Reset PROVE Adding \/ Removing
  BY <1>9, <1>0 DEF Reset
<1>10. ASSUME Reconcile PROVE Adding \/ Removing
  BY <1>10, <1>0 DEF Reconcile
<1>11. ASSUME Settle PROVE Adding \/ Removing
  BY <1>11, <1>0 DEF Settle
<1>12. ASSUME NEW n \in Nodes, UnlinkMarker(n)
      PROVE  Adding \/ Retiring \/ CleaningUp
  BY <1>12, <1>0 DEF UnlinkMarker
<1>13. ASSUME NEW n \in Nodes, UnlinkMarkerThrows(n)
      PROVE  Adding \/ Retiring \/ CleaningUp
  BY <1>13, <1>0 DEF UnlinkMarkerThrows
<1>14. ASSUME RootsRemoved PROVE Adding \/ Retiring \/ CleaningUp
  BY <1>14, <1>0 DEF RootsRemoved
<1>15. ASSUME RemoveDirectory PROVE Adding \/ Retiring \/ CleaningUp
  BY <1>15, <1>0 DEF RemoveDirectory
<1>16. ASSUME RemoveDirectoryThrows PROVE Adding \/ Retiring \/ CleaningUp
  BY <1>16, <1>0 DEF RemoveDirectoryThrows
<1>17. ASSUME NEW n \in Nodes, Reserve(n)
      PROVE  Adding
  BY <1>17, <1>0 DEF Reserve
<1>18. ASSUME NEW n \in Nodes, NEW failure \in {"failed", "cancelled"},
              ReserveThrows(n, failure)
      PROVE  Adding
  BY <1>18, <1>0 DEF ReserveThrows
<1>19. ASSUME NEW failure \in {"failed", "cancelled"}, EquipThrows(failure)
      PROVE  Adding
  BY <1>19, <1>0 DEF EquipThrows
<1>20. ASSUME Prepare PROVE Adding
  BY <1>20, <1>0 DEF Prepare
<1>21. ASSUME Claim PROVE Adding
  BY <1>21, <1>0 DEF Claim
<1>22. ASSUME ClaimThrows PROVE Adding
  BY <1>22, <1>0 DEF ClaimThrows
<1>23. ASSUME Equip PROVE Adding
  BY <1>23, <1>0 DEF Equip
<1>24. ASSUME StartNodes PROVE Adding
  BY <1>24, <1>0 DEF StartNodes
<1>25. ASSUME Synchronize PROVE Adding
  BY <1>25, <1>0 DEF Synchronize
<1>26. ASSUME Register PROVE Adding
  BY <1>26, <1>0 DEF Register
<1>27. ASSUME NEW R \in SUBSET tx.ids,
              NEW failure \in {"failed", "cancelled", "unconfirmed"},
              RegisterThrows(R, failure)
      PROVE  Adding
  BY <1>27, <1>0 DEF RegisterThrows
<1>28. ASSUME WriteLive PROVE Adding
  BY <1>28, <1>0 DEF WriteLive
<1>29. ASSUME WriteLiveThrows PROVE Adding
  BY <1>29, <1>0 DEF WriteLiveThrows
<1>30. ASSUME CommitRefused PROVE Adding
  BY <1>30, <1>0 DEF CommitRefused
<1>31. ASSUME Publish PROVE Adding
  BY <1>31, <1>0 DEF Publish
<1>32. ASSUME RestoreReservation PROVE Adding
  BY <1>32, <1>0 DEF RestoreReservation
<1>33. ASSUME Revoke PROVE Adding
  BY <1>33, <1>0 DEF Revoke
<1>34. ASSUME StopCandidates PROVE Adding
  BY <1>34, <1>0 DEF StopCandidates
<1>35. ASSUME Unstage PROVE Adding
  BY <1>35, <1>0 DEF Unstage
<1>36. ASSUME Record PROVE Recording
  BY <1>36, <1>0 DEF Record
<1>37. ASSUME RecordThrows PROVE Recording
  BY <1>37, <1>0 DEF RecordThrows
<1>38. ASSUME Mark PROVE Removing
  BY <1>38, <1>0 DEF Mark
<1>39. ASSUME MarkThrows PROVE Removing
  BY <1>39, <1>0 DEF MarkThrows
<1>40. ASSUME Unmark PROVE Removing
  BY <1>40, <1>0 DEF Unmark
<1>41. ASSUME PublishRemoval PROVE Removing
  BY <1>41, <1>0 DEF PublishRemoval
<1>42. ASSUME Drain PROVE Retiring
  BY <1>42, <1>0 DEF Drain
<1>43. ASSUME DrainTimesOut PROVE Retiring
  BY <1>43, <1>0 DEF DrainTimesOut
<1>44. ASSUME Retire PROVE Retiring
  BY <1>44, <1>0 DEF Retire
<1>45. ASSUME RetireThrows PROVE Retiring
  BY <1>45, <1>0 DEF RetireThrows
<1>46. ASSUME Promote PROVE Retiring
  BY <1>46, <1>0 DEF Promote
<1>47. ASSUME PromoteThrows PROVE Retiring
  BY <1>47, <1>0 DEF PromoteThrows
<1>48. ASSUME Rewrite PROVE CleaningUp
  BY <1>48, <1>0 DEF Rewrite
<1>49. ASSUME CleanupKilled PROVE CleaningUp
  BY <1>49, <1>0 DEF CleanupKilled
<1> QED
  BY <1>1, <1>2, <1>3, <1>4, <1>5, <1>6, <1>7, <1>8, <1>9, <1>10, <1>11, <1>12,
      <1>13, <1>14, <1>15, <1>16, <1>17, <1>18, <1>19, <1>20, <1>21, <1>22,
      <1>23, <1>24, <1>25, <1>26, <1>27, <1>28, <1>29, <1>30, <1>31, <1>32,
      <1>33, <1>34, <1>35, <1>36, <1>37, <1>38, <1>39, <1>40, <1>41, <1>42,
      <1>43, <1>44, <1>45, <1>46, <1>47, <1>48, <1>49 DEF MutationNext,
      QuietStep, HandlerStep, RootStep, AdditionStep, SharedStep, RemovalStep,
      RetirementStep, CleanupStep, EndStep

-----------------------------------------------------------------------------
(* The steps of each stretch. *)


\* A step that publishes nothing, moves no lease and takes no node away.
LEMMA LeasesFrame ==
  ASSUME History, Leases, UNCHANGED <<gens, used, held>>,
         support \subseteq support', Running' <=> Running, pc' # "retire"
  PROVE  (History /\ Leases)'
<1>1. History'
  BY DEF History, IdsNeverReused
<1>2. LeaseHonoured'
  BY DEF Leases, LeaseHonoured
<1>3. (Running => Inventory \subseteq support)'
  BY DEF Leases, Inventory
<1>4. (~Running => \A r \in Readers : held[r] = 0)'
  BY DEF Leases
<1> QED
  BY <1>1, <1>2, <1>3, <1>4 DEF Leases

-----------------------------------------------------------------------------
(* Up to the commit or the end of the rollback.                            *)

\* The bookkeeping of the candidates by AddRuntimeNodesTransactional: each is
\* to come, in preparation or acquired.
LEMMA CandidatesKept ==
  ASSUME MutationInv, Adding, AdditionStep
  PROVE  Candidates'
<1>0. /\ TypeOK /\ TxTypeOK /\ Shape /\ Adding /\ Inventory \subseteq Nodes
      /\ Len(gens) \in Nat \ {0} /\ Inventory \subseteq used
      /\ Candidates
  BY InventoryType DEF MutationInv, StretchInv, CandidateInv, CoreInv, History,
      Inventory
<1> USE DEF Handler, Cleaning, Ending, TypeOK, TxTypeOK
<1>1. ASSUME Reset PROVE Candidates'
<2>1. PICK kept : tx' = [tx EXCEPT !.errors = Failed(kept # {})]
    BY <1>1 DEF Reset
<2>2. Failed(kept # {}) \in BOOLEAN /\ (tx.errors => Failed(kept # {}))
    BY <1>0 DEF Failed
<2>3. pc = "reset" /\ pc' = "unlink" /\ UNCHANGED <<used, gens>>
    BY <1>1, <1>0 DEF Reset, Adding
<2> QED
    BY <1>0, <2>1, <2>2, <2>3 DEF Candidates, Adding, Forward, Undoing
<1>2. ASSUME NEW n \in Nodes, UnlinkMarkerThrows(n)
      PROVE  Candidates'
<2>1. /\ pc = "unlink" /\ n \in tx.todo /\ RootKept(n)
      /\ tx.kind # "remove" /\ UNCHANGED inventory
    BY <1>2, <1>0 DEF UnlinkMarkerThrows, Adding
<2>2. /\ pc' = "unlink" /\ tx'.known = tx.known /\ tx'.ids = tx.ids
      /\ tx'.acquired = tx.acquired /\ tx'.failure = tx.failure
      /\ tx'.current = {} /\ tx'.errors = TRUE
      /\ tx'.todo = tx.todo \ {n} /\ tx'.verified = tx.verified \ {n}
    BY <1>0, <2>1, KeptRoot
<2> QED
    BY <1>0, <2>1, <2>2 DEF Candidates, Forward, Undoing
<1>3. ASSUME RemoveDirectoryThrows PROVE Candidates'
<2>1. PICK n \in tx.current \cap roots : RootKept(n)
    BY <1>3 DEF RemoveDirectoryThrows
<2>2. /\ pc = "rmdir" /\ tx.kind # "remove"
      /\ UNCHANGED <<inventory, roots, manifest, staged, docsAhead, host>>
    BY <1>3, <1>0 DEF RemoveDirectoryThrows, Adding
<2>3. tx.current \ {n} = {}
    BY <1>0, <2>1, <2>2 DEF Shape
<2>4. /\ pc' = "unlink" /\ UNCHANGED control /\ tx'.known = tx.known
      /\ tx'.kind = tx.kind /\ tx'.ids = tx.ids /\ tx'.failure = tx.failure
      /\ tx'.acquired = tx.acquired /\ tx'.published = tx.published
      /\ tx'.unrestored = tx.unrestored /\ tx'.peers = tx.peers
      /\ tx'.flagged = tx.flagged /\ tx'.current = {} /\ tx'.errors = TRUE
      /\ tx'.todo = tx.todo \ {n} /\ tx'.verified = tx.verified \ {n}
    BY <1>0, <2>1, <2>2, KeptRoot
<2> QED
    BY <1>0, <2>1, <2>2, <2>3, <2>4 DEF Candidates, Inventory, Adding,
      Recording, Removing, Retiring, CleaningUp, AddingSteps, RemovingSteps,
      RetiringSteps, Forward, Undoing, host
<1>4. ASSUME Equip PROVE Candidates'
<2>1. CASE tx.todo = {}
    BY <1>4, <1>0, <2>1 DEF Equip, Candidates, durable, Adding, Forward,
      Undoing
<2>2. CASE tx.todo # {}
    BY <1>4, <1>0, <2>2 DEF Equip, Candidates, durable, Adding, Forward,
      Undoing
<2> QED
    BY <2>1, <2>2
<1>5. ASSUME RestoreReservation PROVE Candidates'
<2>1. /\ pc = "restore" /\ pc' = CatchBlock
      /\ UNCHANGED <<inventory, held, roots, marked, staged, host, control>>
    BY <1>5 DEF RestoreReservation
<2> QED
    BY <1>0, <2>1, <1>5, Restoration DEF Candidates, Inventory, Adding,
      Recording, Removing, Retiring, CleaningUp, AddingSteps, RemovingSteps,
      RetiringSteps, Forward, Undoing, host
<1>6. ASSUME StopCandidates PROVE Candidates'
<2>1. PICK V \in SUBSET tx.acquired :
         tx' = [tx EXCEPT !.verified = V, !.todo = V,
                          !.errors = Failed(V # tx.acquired)]
    BY <1>6 DEF StopCandidates
<2>2. /\ Failed(V # tx.acquired) \in BOOLEAN
      /\ V # tx.acquired => Failed(V # tx.acquired)
    BY <1>0 DEF Failed
<2>3. pc' = "reset" /\ UNCHANGED <<used, gens>>
    BY <1>6 DEF StopCandidates
<2> QED
    BY <1>0, <2>1, <2>2, <2>3 DEF Candidates, Adding, Forward, Undoing
<1> USE DEF Candidates, Inventory, Adding, Recording, Removing, Retiring,
    CleaningUp, AddingSteps, RemovingSteps, RetiringSteps, Forward, Undoing,
    durable, inventory, host, control
<1>7. ASSUME NEW n \in Nodes, UpdatePolicy(n)
      PROVE  Candidates'
  BY <1>7, <1>0 DEF UpdatePolicy
<1>8. ASSUME NEW n \in Nodes, UpdatePolicyUnconfirmed(n)
      PROVE  Candidates'
  BY <1>8, <1>0 DEF UpdatePolicyUnconfirmed
<1>9. ASSUME NEW n \in Nodes, NEW failure \in {"failed", "cancelled"},
             UpdatePolicyThrows(n, failure)
      PROVE  Candidates'
  BY <1>9, <1>0 DEF UpdatePolicyThrows, Throws
<1>10. ASSUME NEW failure \in {"failed", "cancelled"}, StepThrows(failure)
      PROVE  Candidates'
  BY <1>10, <1>0 DEF StepThrows, Throws
<1>11. ASSUME NEW M \in SUBSET Inventory,
              NEW failure \in {"failed", "cancelled"},
              ConnectPeersThrows(M, failure)
      PROVE  Candidates'
  BY <1>11, <1>0 DEF ConnectPeersThrows, Throws
<1>12. ASSUME PoliciesUpdated PROVE Candidates'
  BY <1>12, <1>0 DEF PoliciesUpdated
<1>13. ASSUME NEW M \in SUBSET Inventory, ConnectPeers(M)
      PROVE  Candidates'
  BY <1>13, <1>0 DEF ConnectPeers, AfterPeers
<1>14. ASSUME Reconcile PROVE Candidates'
  BY <1>14, <1>0 DEF Reconcile
<1>15. ASSUME Settle PROVE Candidates'
  BY <1>15, <1>0 DEF Settle, Ends, NoTx
<1>16. ASSUME NEW n \in Nodes, UnlinkMarker(n)
      PROVE  Candidates'
  BY <1>16, <1>0 DEF UnlinkMarker
<1>17. ASSUME RootsRemoved PROVE Candidates'
  BY <1>17, <1>0 DEF RootsRemoved, AfterRoots
<1>18. ASSUME RemoveDirectory PROVE Candidates'
  BY <1>18, <1>0 DEF RemoveDirectory
<1>19. ASSUME NEW n \in Nodes, Reserve(n)
      PROVE  Candidates'
  BY <1>19, <1>0 DEF Reserve
<1>20. ASSUME NEW n \in Nodes, NEW failure \in {"failed", "cancelled"},
              ReserveThrows(n, failure)
      PROVE  Candidates'
  BY <1>20, <1>0 DEF ReserveThrows, Throws
<1>21. ASSUME NEW failure \in {"failed", "cancelled"}, EquipThrows(failure)
      PROVE  Candidates'
  BY <1>21, <1>0 DEF EquipThrows, Throws
<1>22. ASSUME Prepare PROVE Candidates'
  BY <1>22, <1>0 DEF Prepare
<1>23. ASSUME Claim PROVE Candidates'
  BY <1>23, <1>0 DEF Claim
<1>24. ASSUME ClaimThrows PROVE Candidates'
  BY <1>24, <1>0 DEF ClaimThrows
<1>25. ASSUME StartNodes PROVE Candidates'
  BY <1>25, <1>0 DEF StartNodes
<1>26. ASSUME Synchronize PROVE Candidates'
  BY <1>26, <1>0 DEF Synchronize
<1>27. ASSUME Register PROVE Candidates'
  BY <1>27, <1>0 DEF Register
<1>28. ASSUME NEW R \in SUBSET tx.ids,
              NEW failure \in {"failed", "cancelled", "unconfirmed"},
              RegisterThrows(R, failure)
      PROVE  Candidates'
  BY <1>28, <1>0 DEF RegisterThrows, Throws
<1>29. ASSUME WriteLive PROVE Candidates'
  BY <1>29, <1>0 DEF WriteLive
<1>30. ASSUME WriteLiveThrows PROVE Candidates'
  BY <1>30, <1>0 DEF WriteLiveThrows
<1>31. ASSUME CommitRefused PROVE Candidates'
  BY <1>31, <1>0 DEF CommitRefused
<1>32. ASSUME Publish PROVE Candidates'
  BY <1>32, <1>0 DEF Publish
<1>33. ASSUME Revoke PROVE Candidates'
  BY <1>33, <1>0 DEF Revoke, FaultIf, Failed
<1>34. ASSUME Unstage PROVE Candidates'
  BY <1>34, <1>0 DEF Unstage
<1> QED
  BY <1>1, <1>2, <1>3, <1>4, <1>5, <1>6, <1>7, <1>8, <1>9, <1>10, <1>11, <1>12,
      <1>13, <1>14, <1>15, <1>16, <1>17, <1>18, <1>19, <1>20, <1>21, <1>22,
      <1>23, <1>24, <1>25, <1>26, <1>27, <1>28, <1>29, <1>30, <1>31, <1>32,
      <1>33, <1>34 DEF AdditionStep, SharedStep, RootStep

\* The roots of an addition are those of the inventory and of the candidates
\* acquired, until the rollback removes the latter.
LEMMA RootsKept ==
  ASSUME MutationInv, Adding, AdditionStep
  PROVE  CandidateRoots'
<1>0. /\ TypeOK /\ TxTypeOK /\ Shape /\ Adding /\ Inventory \subseteq Nodes
      /\ Len(gens) \in Nat \ {0} /\ Inventory \subseteq used
      /\ Candidates /\ CandidateRoots
  BY InventoryType DEF MutationInv, StretchInv, CandidateInv, CoreInv, History,
      Inventory
<1> USE DEF Handler, Cleaning, Ending, TypeOK, TxTypeOK
<1>1. ASSUME NEW n \in Nodes, UnlinkMarkerThrows(n)
      PROVE  CandidateRoots'
  BY <1>1, <1>0, KeptRoot, ZenonT(40) DEF UnlinkMarkerThrows, CandidateRoots,
    Candidates, Inventory, Adding, Recording, Removing, Retiring, CleaningUp,
    AddingSteps, RemovingSteps, RetiringSteps, Forward, Undoing, durable, host
<1>2. ASSUME RemoveDirectoryThrows PROVE CandidateRoots'
<2>1. PICK n \in tx.current \cap roots : RootKept(n)
    BY <1>2 DEF RemoveDirectoryThrows
<2>2. /\ pc = "rmdir" /\ tx.kind # "remove"
      /\ UNCHANGED <<inventory, roots, manifest, staged, docsAhead, host>>
    BY <1>2, <1>0 DEF RemoveDirectoryThrows, Adding
<2>3. tx.current \ {n} = {}
    BY <1>0, <2>1, <2>2 DEF Shape
<2>4. /\ pc' = "unlink" /\ UNCHANGED control /\ tx'.known = tx.known
      /\ tx'.kind = tx.kind /\ tx'.ids = tx.ids /\ tx'.failure = tx.failure
      /\ tx'.acquired = tx.acquired /\ tx'.published = tx.published
      /\ tx'.unrestored = tx.unrestored /\ tx'.peers = tx.peers
      /\ tx'.flagged = tx.flagged /\ tx'.current = {} /\ tx'.errors = TRUE
      /\ tx'.todo = tx.todo \ {n} /\ tx'.verified = tx.verified \ {n}
    BY <1>0, <2>1, <2>2, KeptRoot
<2> QED
    BY <1>0, <2>1, <2>2, <2>3, <2>4 DEF CandidateRoots, Candidates, Inventory,
      Adding, Recording, Removing, Retiring, CleaningUp, AddingSteps,
      RemovingSteps, RetiringSteps, Forward, Undoing, host
<1>3. ASSUME RestoreReservation PROVE CandidateRoots'
<2>1. /\ pc = "restore" /\ pc' = CatchBlock
      /\ UNCHANGED <<inventory, held, roots, marked, staged, host, control>>
    BY <1>3 DEF RestoreReservation
<2> QED
    BY <1>0, <2>1, <1>3, Restoration DEF CandidateRoots, Candidates,
      Inventory, Adding, Recording, Removing, Retiring, CleaningUp,
      AddingSteps, RemovingSteps, RetiringSteps, Forward, Undoing, host
<1> USE DEF CandidateRoots, Candidates, Inventory, Adding, Recording, Removing,
    Retiring, CleaningUp, AddingSteps, RemovingSteps, RetiringSteps, Forward,
    Undoing, durable, inventory, host, control
<1>4. ASSUME NEW n \in Nodes, UpdatePolicy(n)
      PROVE  CandidateRoots'
  BY <1>4, <1>0 DEF UpdatePolicy
<1>5. ASSUME NEW n \in Nodes, UpdatePolicyUnconfirmed(n)
      PROVE  CandidateRoots'
  BY <1>5, <1>0 DEF UpdatePolicyUnconfirmed
<1>6. ASSUME NEW n \in Nodes, NEW failure \in {"failed", "cancelled"},
             UpdatePolicyThrows(n, failure)
      PROVE  CandidateRoots'
  BY <1>6, <1>0 DEF UpdatePolicyThrows, Throws
<1>7. ASSUME NEW failure \in {"failed", "cancelled"}, StepThrows(failure)
      PROVE  CandidateRoots'
  BY <1>7, <1>0 DEF StepThrows, Throws
<1>8. ASSUME NEW M \in SUBSET Inventory,
             NEW failure \in {"failed", "cancelled"},
             ConnectPeersThrows(M, failure)
      PROVE  CandidateRoots'
  BY <1>8, <1>0 DEF ConnectPeersThrows, Throws
<1>9. ASSUME PoliciesUpdated PROVE CandidateRoots'
  BY <1>9, <1>0 DEF PoliciesUpdated
<1>10. ASSUME NEW M \in SUBSET Inventory, ConnectPeers(M)
      PROVE  CandidateRoots'
  BY <1>10, <1>0 DEF ConnectPeers, AfterPeers
<1>11. ASSUME Reset PROVE CandidateRoots'
  BY <1>11, <1>0 DEF Reset, FaultIf, Failed, Restorable
<1>12. ASSUME Reconcile PROVE CandidateRoots'
  BY <1>12, <1>0 DEF Reconcile
<1>13. ASSUME Settle PROVE CandidateRoots'
  BY <1>13, <1>0 DEF Settle, Ends, NoTx
<1>14. ASSUME NEW n \in Nodes, UnlinkMarker(n)
      PROVE  CandidateRoots'
  BY <1>14, <1>0 DEF UnlinkMarker
<1>15. ASSUME RootsRemoved PROVE CandidateRoots'
  BY <1>15, <1>0 DEF RootsRemoved, AfterRoots
<1>16. ASSUME RemoveDirectory PROVE CandidateRoots'
  BY <1>16, <1>0 DEF RemoveDirectory
<1>17. ASSUME NEW n \in Nodes, Reserve(n)
      PROVE  CandidateRoots'
  BY <1>17, <1>0 DEF Reserve
<1>18. ASSUME NEW n \in Nodes, NEW failure \in {"failed", "cancelled"},
              ReserveThrows(n, failure)
      PROVE  CandidateRoots'
  BY <1>18, <1>0 DEF ReserveThrows, Throws
<1>19. ASSUME NEW failure \in {"failed", "cancelled"}, EquipThrows(failure)
      PROVE  CandidateRoots'
  BY <1>19, <1>0 DEF EquipThrows, Throws
<1>20. ASSUME Prepare PROVE CandidateRoots'
  BY <1>20, <1>0 DEF Prepare
<1>21. ASSUME Claim PROVE CandidateRoots'
  BY <1>21, <1>0 DEF Claim
<1>22. ASSUME ClaimThrows PROVE CandidateRoots'
  BY <1>22, <1>0 DEF ClaimThrows
<1>23. ASSUME Equip PROVE CandidateRoots'
  BY <1>23, <1>0 DEF Equip
<1>24. ASSUME StartNodes PROVE CandidateRoots'
  BY <1>24, <1>0 DEF StartNodes
<1>25. ASSUME Synchronize PROVE CandidateRoots'
  BY <1>25, <1>0 DEF Synchronize
<1>26. ASSUME Register PROVE CandidateRoots'
  BY <1>26, <1>0 DEF Register
<1>27. ASSUME NEW R \in SUBSET tx.ids,
              NEW failure \in {"failed", "cancelled", "unconfirmed"},
              RegisterThrows(R, failure)
      PROVE  CandidateRoots'
  BY <1>27, <1>0 DEF RegisterThrows, Throws
<1>28. ASSUME WriteLive PROVE CandidateRoots'
  BY <1>28, <1>0 DEF WriteLive
<1>29. ASSUME WriteLiveThrows PROVE CandidateRoots'
  BY <1>29, <1>0 DEF WriteLiveThrows
<1>30. ASSUME CommitRefused PROVE CandidateRoots'
  BY <1>30, <1>0 DEF CommitRefused
<1>31. ASSUME Publish PROVE CandidateRoots'
  BY <1>31, <1>0 DEF Publish
<1>32. ASSUME Revoke PROVE CandidateRoots'
  BY <1>32, <1>0 DEF Revoke, FaultIf, Failed
<1>33. ASSUME StopCandidates PROVE CandidateRoots'
  BY <1>33, <1>0 DEF StopCandidates, FaultIf, Failed
<1>34. ASSUME Unstage PROVE CandidateRoots'
  BY <1>34, <1>0 DEF Unstage
<1> QED
  BY <1>1, <1>2, <1>3, <1>4, <1>5, <1>6, <1>7, <1>8, <1>9, <1>10, <1>11, <1>12,
      <1>13, <1>14, <1>15, <1>16, <1>17, <1>18, <1>19, <1>20, <1>21, <1>22,
      <1>23, <1>24, <1>25, <1>26, <1>27, <1>28, <1>29, <1>30, <1>31, <1>32,
      <1>33, <1>34 DEF AdditionStep, SharedStep, RootStep

\* Processes, cgroups and namespaces of an addition follow its roots.
LEMMA SupportKept ==
  ASSUME MutationInv, Adding, AdditionStep
  PROVE  CandidateSupport'
<1>0. /\ TypeOK /\ TxTypeOK /\ Shape /\ Adding /\ Inventory \subseteq Nodes
      /\ Len(gens) \in Nat \ {0} /\ Inventory \subseteq used
      /\ Candidates /\ CandidateSupport
  BY InventoryType DEF MutationInv, StretchInv, CandidateInv, CoreInv, History,
      Inventory
<1> USE DEF Handler, Cleaning, Ending, TypeOK, TxTypeOK
<1>1. ASSUME NEW n \in Nodes, UnlinkMarkerThrows(n)
      PROVE  CandidateSupport'
  BY <1>1, <1>0, KeptRoot DEF UnlinkMarkerThrows, CandidateSupport,
    Candidates, Inventory, Adding, Recording, Removing, Retiring, CleaningUp,
    AddingSteps, RemovingSteps, RetiringSteps, Forward, Undoing, durable, host
<1>2. ASSUME RemoveDirectoryThrows PROVE CandidateSupport'
<2>1. PICK n \in tx.current \cap roots : RootKept(n)
    BY <1>2 DEF RemoveDirectoryThrows
<2>2. /\ pc = "rmdir" /\ tx.kind # "remove"
      /\ UNCHANGED <<inventory, roots, manifest, staged, docsAhead, host>>
    BY <1>2, <1>0 DEF RemoveDirectoryThrows, Adding
<2>3. tx.current \ {n} = {}
    BY <1>0, <2>1, <2>2 DEF Shape
<2>4. /\ pc' = "unlink" /\ UNCHANGED control /\ tx'.known = tx.known
      /\ tx'.kind = tx.kind /\ tx'.ids = tx.ids /\ tx'.failure = tx.failure
      /\ tx'.acquired = tx.acquired /\ tx'.published = tx.published
      /\ tx'.unrestored = tx.unrestored /\ tx'.peers = tx.peers
      /\ tx'.flagged = tx.flagged /\ tx'.current = {} /\ tx'.errors = TRUE
      /\ tx'.todo = tx.todo \ {n} /\ tx'.verified = tx.verified \ {n}
    BY <1>0, <2>1, <2>2, KeptRoot
<2> QED
    BY <1>0, <2>1, <2>2, <2>3, <2>4 DEF CandidateSupport, Candidates,
      Inventory, Adding, Recording, Removing, Retiring, CleaningUp,
      AddingSteps, RemovingSteps, RetiringSteps, Forward, Undoing, host
<1>3. ASSUME RestoreReservation PROVE CandidateSupport'
<2>1. /\ pc = "restore" /\ pc' = CatchBlock
      /\ UNCHANGED <<inventory, held, roots, marked, staged, host, control>>
    BY <1>3 DEF RestoreReservation
<2> QED
    BY <1>0, <2>1, <1>3, Restoration DEF CandidateSupport, Candidates,
      Inventory, Adding, Recording, Removing, Retiring, CleaningUp,
      AddingSteps, RemovingSteps, RetiringSteps, Forward, Undoing, host
<1> USE DEF CandidateSupport, Candidates, Inventory, Adding, Recording,
    Removing, Retiring, CleaningUp, AddingSteps, RemovingSteps, RetiringSteps,
    Forward, Undoing, durable, inventory, host, control
<1>4. ASSUME NEW n \in Nodes, UpdatePolicy(n)
      PROVE  CandidateSupport'
  BY <1>4, <1>0 DEF UpdatePolicy
<1>5. ASSUME NEW n \in Nodes, UpdatePolicyUnconfirmed(n)
      PROVE  CandidateSupport'
  BY <1>5, <1>0 DEF UpdatePolicyUnconfirmed
<1>6. ASSUME NEW n \in Nodes, NEW failure \in {"failed", "cancelled"},
             UpdatePolicyThrows(n, failure)
      PROVE  CandidateSupport'
  BY <1>6, <1>0 DEF UpdatePolicyThrows, Throws
<1>7. ASSUME NEW failure \in {"failed", "cancelled"}, StepThrows(failure)
      PROVE  CandidateSupport'
  BY <1>7, <1>0 DEF StepThrows, Throws
<1>8. ASSUME NEW M \in SUBSET Inventory,
             NEW failure \in {"failed", "cancelled"},
             ConnectPeersThrows(M, failure)
      PROVE  CandidateSupport'
  BY <1>8, <1>0 DEF ConnectPeersThrows, Throws
<1>9. ASSUME PoliciesUpdated PROVE CandidateSupport'
  BY <1>9, <1>0 DEF PoliciesUpdated
<1>10. ASSUME NEW M \in SUBSET Inventory, ConnectPeers(M)
      PROVE  CandidateSupport'
  BY <1>10, <1>0 DEF ConnectPeers, AfterPeers
<1>11. ASSUME Reset PROVE CandidateSupport'
  BY <1>11, <1>0 DEF Reset, FaultIf, Failed, Restorable
<1>12. ASSUME Reconcile PROVE CandidateSupport'
  BY <1>12, <1>0 DEF Reconcile
<1>13. ASSUME Settle PROVE CandidateSupport'
  BY <1>13, <1>0 DEF Settle, Ends, NoTx
<1>14. ASSUME NEW n \in Nodes, UnlinkMarker(n)
      PROVE  CandidateSupport'
  BY <1>14, <1>0 DEF UnlinkMarker
<1>15. ASSUME RootsRemoved PROVE CandidateSupport'
  BY <1>15, <1>0 DEF RootsRemoved, AfterRoots
<1>16. ASSUME RemoveDirectory PROVE CandidateSupport'
  BY <1>16, <1>0 DEF RemoveDirectory
<1>17. ASSUME NEW n \in Nodes, Reserve(n)
      PROVE  CandidateSupport'
  BY <1>17, <1>0 DEF Reserve
<1>18. ASSUME NEW n \in Nodes, NEW failure \in {"failed", "cancelled"},
              ReserveThrows(n, failure)
      PROVE  CandidateSupport'
  BY <1>18, <1>0 DEF ReserveThrows, Throws
<1>19. ASSUME NEW failure \in {"failed", "cancelled"}, EquipThrows(failure)
      PROVE  CandidateSupport'
  BY <1>19, <1>0 DEF EquipThrows, Throws
<1>20. ASSUME Prepare PROVE CandidateSupport'
  BY <1>20, <1>0 DEF Prepare
<1>21. ASSUME Claim PROVE CandidateSupport'
  BY <1>21, <1>0 DEF Claim
<1>22. ASSUME ClaimThrows PROVE CandidateSupport'
  BY <1>22, <1>0 DEF ClaimThrows
<1>23. ASSUME Equip PROVE CandidateSupport'
  BY <1>23, <1>0 DEF Equip
<1>24. ASSUME StartNodes PROVE CandidateSupport'
  BY <1>24, <1>0 DEF StartNodes
<1>25. ASSUME Synchronize PROVE CandidateSupport'
  BY <1>25, <1>0 DEF Synchronize
<1>26. ASSUME Register PROVE CandidateSupport'
  BY <1>26, <1>0 DEF Register
<1>27. ASSUME NEW R \in SUBSET tx.ids,
              NEW failure \in {"failed", "cancelled", "unconfirmed"},
              RegisterThrows(R, failure)
      PROVE  CandidateSupport'
  BY <1>27, <1>0 DEF RegisterThrows, Throws
<1>28. ASSUME WriteLive PROVE CandidateSupport'
  BY <1>28, <1>0 DEF WriteLive
<1>29. ASSUME WriteLiveThrows PROVE CandidateSupport'
  BY <1>29, <1>0 DEF WriteLiveThrows
<1>30. ASSUME CommitRefused PROVE CandidateSupport'
  BY <1>30, <1>0 DEF CommitRefused
<1>31. ASSUME Publish PROVE CandidateSupport'
  BY <1>31, <1>0 DEF Publish
<1>32. ASSUME Revoke PROVE CandidateSupport'
  BY <1>32, <1>0 DEF Revoke, FaultIf, Failed
<1>33. ASSUME StopCandidates PROVE CandidateSupport'
  BY <1>33, <1>0 DEF StopCandidates, FaultIf, Failed
<1>34. ASSUME Unstage PROVE CandidateSupport'
  BY <1>34, <1>0 DEF Unstage
<1> QED
  BY <1>1, <1>2, <1>3, <1>4, <1>5, <1>6, <1>7, <1>8, <1>9, <1>10, <1>11, <1>12,
      <1>13, <1>14, <1>15, <1>16, <1>17, <1>18, <1>19, <1>20, <1>21, <1>22,
      <1>23, <1>24, <1>25, <1>26, <1>27, <1>28, <1>29, <1>30, <1>31, <1>32,
      <1>33, <1>34 DEF AdditionStep, SharedStep, RootStep

\* An addition lists its candidates before it creates anything of theirs.
LEMMA EntriesKept ==
  ASSUME MutationInv, Adding, AdditionStep
  PROVE  CandidateEntries'
<1>0. /\ TypeOK /\ TxTypeOK /\ Shape /\ Adding /\ Inventory \subseteq Nodes
      /\ Len(gens) \in Nat \ {0} /\ Inventory \subseteq used
      /\ Candidates /\ CandidateEntries
  BY InventoryType DEF MutationInv, StretchInv, CandidateInv, CoreInv, History,
      Inventory
<1> USE DEF Handler, Cleaning, Ending, TypeOK, TxTypeOK
<1>1. ASSUME NEW n \in Nodes, UnlinkMarkerThrows(n)
      PROVE  CandidateEntries'
  BY <1>1, <1>0, KeptRoot DEF UnlinkMarkerThrows, CandidateEntries,
    Candidates, Inventory, Adding, Recording, Removing, Retiring, CleaningUp,
    AddingSteps, RemovingSteps, RetiringSteps, Forward, Undoing, durable, host
<1>2. ASSUME RemoveDirectoryThrows PROVE CandidateEntries'
<2>1. PICK n \in tx.current \cap roots : RootKept(n)
    BY <1>2 DEF RemoveDirectoryThrows
<2>2. /\ pc = "rmdir" /\ tx.kind # "remove"
      /\ UNCHANGED <<inventory, roots, manifest, staged, docsAhead, host>>
    BY <1>2, <1>0 DEF RemoveDirectoryThrows, Adding
<2>3. tx.current \ {n} = {}
    BY <1>0, <2>1, <2>2 DEF Shape
<2>4. /\ pc' = "unlink" /\ UNCHANGED control /\ tx'.known = tx.known
      /\ tx'.kind = tx.kind /\ tx'.ids = tx.ids /\ tx'.failure = tx.failure
      /\ tx'.acquired = tx.acquired /\ tx'.published = tx.published
      /\ tx'.unrestored = tx.unrestored /\ tx'.peers = tx.peers
      /\ tx'.flagged = tx.flagged /\ tx'.current = {} /\ tx'.errors = TRUE
      /\ tx'.todo = tx.todo \ {n} /\ tx'.verified = tx.verified \ {n}
    BY <1>0, <2>1, <2>2, KeptRoot
<2> QED
    BY <1>0, <2>1, <2>2, <2>3, <2>4 DEF CandidateEntries, Candidates,
      Inventory, Adding, Recording, Removing, Retiring, CleaningUp,
      AddingSteps, RemovingSteps, RetiringSteps, Forward, Undoing, host
<1>3. ASSUME RestoreReservation PROVE CandidateEntries'
<2>1. /\ pc = "restore" /\ pc' = CatchBlock
      /\ UNCHANGED <<inventory, held, roots, marked, staged, host, control>>
    BY <1>3 DEF RestoreReservation
<2> QED
    BY <1>0, <2>1, <1>3, Restoration DEF CandidateEntries, Candidates,
      PendingManifest, PriorManifest, With, Live, Inventory, Adding,
      Recording, Removing, Retiring, CleaningUp, AddingSteps, RemovingSteps,
      RetiringSteps, Forward, Undoing, host
<1> USE DEF CandidateEntries, Candidates, Inventory, Adding, Recording,
    Removing, Retiring, CleaningUp, AddingSteps, RemovingSteps, RetiringSteps,
    Forward, Undoing, durable, inventory, host, control
<1>4. ASSUME NEW n \in Nodes, UpdatePolicy(n)
      PROVE  CandidateEntries'
  BY <1>4, <1>0 DEF UpdatePolicy
<1>5. ASSUME NEW n \in Nodes, UpdatePolicyUnconfirmed(n)
      PROVE  CandidateEntries'
  BY <1>5, <1>0 DEF UpdatePolicyUnconfirmed
<1>6. ASSUME NEW n \in Nodes, NEW failure \in {"failed", "cancelled"},
             UpdatePolicyThrows(n, failure)
      PROVE  CandidateEntries'
  BY <1>6, <1>0 DEF UpdatePolicyThrows, Throws
<1>7. ASSUME NEW failure \in {"failed", "cancelled"}, StepThrows(failure)
      PROVE  CandidateEntries'
  BY <1>7, <1>0 DEF StepThrows, Throws
<1>8. ASSUME NEW M \in SUBSET Inventory,
             NEW failure \in {"failed", "cancelled"},
             ConnectPeersThrows(M, failure)
      PROVE  CandidateEntries'
  BY <1>8, <1>0 DEF ConnectPeersThrows, Throws
<1>9. ASSUME PoliciesUpdated PROVE CandidateEntries'
  BY <1>9, <1>0 DEF PoliciesUpdated
<1>10. ASSUME NEW M \in SUBSET Inventory, ConnectPeers(M)
      PROVE  CandidateEntries'
  BY <1>10, <1>0 DEF ConnectPeers, AfterPeers
<1>11. ASSUME Reset PROVE CandidateEntries'
  BY <1>11, <1>0 DEF Reset, FaultIf, Failed, Restorable
<1>12. ASSUME Reconcile PROVE CandidateEntries'
  BY <1>12, <1>0 DEF Reconcile, RollbackManifest, PriorManifest, With, Live
<1>13. ASSUME Settle PROVE CandidateEntries'
  BY <1>13, <1>0 DEF Settle, Ends, NoTx
<1>14. ASSUME NEW n \in Nodes, UnlinkMarker(n)
      PROVE  CandidateEntries'
  BY <1>14, <1>0 DEF UnlinkMarker
<1>15. ASSUME RootsRemoved PROVE CandidateEntries'
  BY <1>15, <1>0 DEF RootsRemoved, AfterRoots
<1>16. ASSUME RemoveDirectory PROVE CandidateEntries'
  BY <1>16, <1>0 DEF RemoveDirectory
<1>17. ASSUME NEW n \in Nodes, Reserve(n)
      PROVE  CandidateEntries'
  BY <1>17, <1>0 DEF Reserve, With
<1>18. ASSUME NEW n \in Nodes, NEW failure \in {"failed", "cancelled"},
              ReserveThrows(n, failure)
      PROVE  CandidateEntries'
  BY <1>18, <1>0 DEF ReserveThrows, Throws, With
<1>19. ASSUME NEW failure \in {"failed", "cancelled"}, EquipThrows(failure)
      PROVE  CandidateEntries'
  BY <1>19, <1>0 DEF EquipThrows, Throws
<1>20. ASSUME Prepare PROVE CandidateEntries'
  BY <1>20, <1>0 DEF Prepare
<1>21. ASSUME Claim PROVE CandidateEntries'
  BY <1>21, <1>0 DEF Claim
<1>22. ASSUME ClaimThrows PROVE CandidateEntries'
  BY <1>22, <1>0 DEF ClaimThrows
<1>23. ASSUME Equip PROVE CandidateEntries'
  BY <1>23, <1>0 DEF Equip
<1>24. ASSUME StartNodes PROVE CandidateEntries'
  BY <1>24, <1>0 DEF StartNodes
<1>25. ASSUME Synchronize PROVE CandidateEntries'
  BY <1>25, <1>0 DEF Synchronize
<1>26. ASSUME Register PROVE CandidateEntries'
  BY <1>26, <1>0 DEF Register
<1>27. ASSUME NEW R \in SUBSET tx.ids,
              NEW failure \in {"failed", "cancelled", "unconfirmed"},
              RegisterThrows(R, failure)
      PROVE  CandidateEntries'
  BY <1>27, <1>0 DEF RegisterThrows, Throws
<1>28. ASSUME WriteLive PROVE CandidateEntries'
  BY <1>28, <1>0 DEF WriteLive, Live
<1>29. ASSUME WriteLiveThrows PROVE CandidateEntries'
  BY <1>29, <1>0 DEF WriteLiveThrows, Live
<1>30. ASSUME CommitRefused PROVE CandidateEntries'
  BY <1>30, <1>0 DEF CommitRefused
<1>31. ASSUME Publish PROVE CandidateEntries'
  BY <1>31, <1>0 DEF Publish
<1>32. ASSUME Revoke PROVE CandidateEntries'
  BY <1>32, <1>0 DEF Revoke, FaultIf, Failed
<1>33. ASSUME StopCandidates PROVE CandidateEntries'
  BY <1>33, <1>0 DEF StopCandidates, FaultIf, Failed
<1>34. ASSUME Unstage PROVE CandidateEntries'
  BY <1>34, <1>0 DEF Unstage
<1> QED
  BY <1>1, <1>2, <1>3, <1>4, <1>5, <1>6, <1>7, <1>8, <1>9, <1>10, <1>11, <1>12,
      <1>13, <1>14, <1>15, <1>16, <1>17, <1>18, <1>19, <1>20, <1>21, <1>22,
      <1>23, <1>24, <1>25, <1>26, <1>27, <1>28, <1>29, <1>30, <1>31, <1>32,
      <1>33, <1>34 DEF AdditionStep, SharedStep, RootStep

\* Registrations, the staged event and the capacity documents of an addition
\* are accounted for by its locals.
LEMMA TracesKept ==
  ASSUME MutationInv, Adding, AdditionStep
  PROVE  CandidateTraces'
<1>0. /\ TypeOK /\ TxTypeOK /\ Shape /\ Adding /\ Inventory \subseteq Nodes
      /\ Len(gens) \in Nat \ {0} /\ Inventory \subseteq used
      /\ Candidates /\ CandidateTraces
  BY InventoryType DEF MutationInv, StretchInv, CandidateInv, CoreInv, History,
      Inventory
<1> USE DEF Handler, Cleaning, Ending, TypeOK, TxTypeOK
<1>1. ASSUME NEW n \in Nodes, UnlinkMarkerThrows(n)
      PROVE  CandidateTraces'
  BY <1>1, <1>0, KeptRoot DEF UnlinkMarkerThrows, CandidateTraces, Candidates,
    Inventory, Adding, Recording, Removing, Retiring, CleaningUp, AddingSteps,
    RemovingSteps, RetiringSteps, Forward, Undoing, durable, host
<1>2. ASSUME RemoveDirectoryThrows PROVE CandidateTraces'
<2>1. PICK n \in tx.current \cap roots : RootKept(n)
    BY <1>2 DEF RemoveDirectoryThrows
<2>2. /\ pc = "rmdir" /\ tx.kind # "remove"
      /\ UNCHANGED <<inventory, roots, manifest, staged, docsAhead, host>>
    BY <1>2, <1>0 DEF RemoveDirectoryThrows, Adding
<2>3. tx.current \ {n} = {}
    BY <1>0, <2>1, <2>2 DEF Shape
<2>4. /\ pc' = "unlink" /\ UNCHANGED control /\ tx'.known = tx.known
      /\ tx'.kind = tx.kind /\ tx'.ids = tx.ids /\ tx'.failure = tx.failure
      /\ tx'.acquired = tx.acquired /\ tx'.published = tx.published
      /\ tx'.unrestored = tx.unrestored /\ tx'.peers = tx.peers
      /\ tx'.flagged = tx.flagged /\ tx'.current = {} /\ tx'.errors = TRUE
      /\ tx'.todo = tx.todo \ {n} /\ tx'.verified = tx.verified \ {n}
    BY <1>0, <2>1, <2>2, KeptRoot
<2> QED
    BY <1>0, <2>1, <2>2, <2>3, <2>4 DEF CandidateTraces, Candidates,
      Inventory, Adding, Recording, Removing, Retiring, CleaningUp,
      AddingSteps, RemovingSteps, RetiringSteps, Forward, Undoing, host
<1>3. ASSUME RestoreReservation PROVE CandidateTraces'
<2>1. /\ pc = "restore" /\ pc' = CatchBlock
      /\ UNCHANGED <<inventory, held, roots, marked, staged, host, control>>
    BY <1>3 DEF RestoreReservation
<2> QED
    BY <1>0, <2>1, <1>3, Restoration DEF CandidateTraces, Candidates,
      Inventory, Adding, Recording, Removing, Retiring, CleaningUp,
      AddingSteps, RemovingSteps, RetiringSteps, Forward, Undoing, host
<1> USE DEF CandidateTraces, Candidates, Inventory, Adding, Recording,
    Removing, Retiring, CleaningUp, AddingSteps, RemovingSteps, RetiringSteps,
    Forward, Undoing, durable, inventory, host, control
<1>4. ASSUME NEW n \in Nodes, UpdatePolicy(n)
      PROVE  CandidateTraces'
  BY <1>4, <1>0 DEF UpdatePolicy
<1>5. ASSUME NEW n \in Nodes, UpdatePolicyUnconfirmed(n)
      PROVE  CandidateTraces'
  BY <1>5, <1>0 DEF UpdatePolicyUnconfirmed
<1>6. ASSUME NEW n \in Nodes, NEW failure \in {"failed", "cancelled"},
             UpdatePolicyThrows(n, failure)
      PROVE  CandidateTraces'
  BY <1>6, <1>0 DEF UpdatePolicyThrows, Throws
<1>7. ASSUME NEW failure \in {"failed", "cancelled"}, StepThrows(failure)
      PROVE  CandidateTraces'
  BY <1>7, <1>0 DEF StepThrows, Throws
<1>8. ASSUME NEW M \in SUBSET Inventory,
             NEW failure \in {"failed", "cancelled"},
             ConnectPeersThrows(M, failure)
      PROVE  CandidateTraces'
  BY <1>8, <1>0 DEF ConnectPeersThrows, Throws
<1>9. ASSUME PoliciesUpdated PROVE CandidateTraces'
  BY <1>9, <1>0 DEF PoliciesUpdated
<1>10. ASSUME NEW M \in SUBSET Inventory, ConnectPeers(M)
      PROVE  CandidateTraces'
  BY <1>10, <1>0 DEF ConnectPeers, AfterPeers
<1>11. ASSUME Reset PROVE CandidateTraces'
  BY <1>11, <1>0 DEF Reset, FaultIf, Failed, Restorable
<1>12. ASSUME Reconcile PROVE CandidateTraces'
  BY <1>12, <1>0 DEF Reconcile
<1>13. ASSUME Settle PROVE CandidateTraces'
  BY <1>13, <1>0 DEF Settle, Ends, NoTx
<1>14. ASSUME NEW n \in Nodes, UnlinkMarker(n)
      PROVE  CandidateTraces'
  BY <1>14, <1>0 DEF UnlinkMarker
<1>15. ASSUME RootsRemoved PROVE CandidateTraces'
  BY <1>15, <1>0 DEF RootsRemoved, AfterRoots
<1>16. ASSUME RemoveDirectory PROVE CandidateTraces'
  BY <1>16, <1>0 DEF RemoveDirectory
<1>17. ASSUME NEW n \in Nodes, Reserve(n)
      PROVE  CandidateTraces'
  BY <1>17, <1>0 DEF Reserve
<1>18. ASSUME NEW n \in Nodes, NEW failure \in {"failed", "cancelled"},
              ReserveThrows(n, failure)
      PROVE  CandidateTraces'
  BY <1>18, <1>0 DEF ReserveThrows, Throws
<1>19. ASSUME NEW failure \in {"failed", "cancelled"}, EquipThrows(failure)
      PROVE  CandidateTraces'
  BY <1>19, <1>0 DEF EquipThrows, Throws
<1>20. ASSUME Prepare PROVE CandidateTraces'
  BY <1>20, <1>0 DEF Prepare
<1>21. ASSUME Claim PROVE CandidateTraces'
  BY <1>21, <1>0 DEF Claim
<1>22. ASSUME ClaimThrows PROVE CandidateTraces'
  BY <1>22, <1>0 DEF ClaimThrows
<1>23. ASSUME Equip PROVE CandidateTraces'
  BY <1>23, <1>0 DEF Equip
<1>24. ASSUME StartNodes PROVE CandidateTraces'
  BY <1>24, <1>0 DEF StartNodes
<1>25. ASSUME Synchronize PROVE CandidateTraces'
  BY <1>25, <1>0 DEF Synchronize
<1>26. ASSUME Register PROVE CandidateTraces'
  BY <1>26, <1>0 DEF Register
<1>27. ASSUME NEW R \in SUBSET tx.ids,
              NEW failure \in {"failed", "cancelled", "unconfirmed"},
              RegisterThrows(R, failure)
      PROVE  CandidateTraces'
  BY <1>27, <1>0 DEF RegisterThrows, Throws
<1>28. ASSUME WriteLive PROVE CandidateTraces'
  BY <1>28, <1>0 DEF WriteLive
<1>29. ASSUME WriteLiveThrows PROVE CandidateTraces'
  BY <1>29, <1>0 DEF WriteLiveThrows
<1>30. ASSUME CommitRefused PROVE CandidateTraces'
  BY <1>30, <1>0 DEF CommitRefused
<1>31. ASSUME Publish PROVE CandidateTraces'
  BY <1>31, <1>0 DEF Publish
<1>32. ASSUME Revoke PROVE CandidateTraces'
  BY <1>32, <1>0 DEF Revoke, FaultIf, Failed
<1>33. ASSUME StopCandidates PROVE CandidateTraces'
  BY <1>33, <1>0 DEF StopCandidates, FaultIf, Failed
<1>34. ASSUME Unstage PROVE CandidateTraces'
  BY <1>34, <1>0 DEF Unstage
<1> QED
  BY <1>1, <1>2, <1>3, <1>4, <1>5, <1>6, <1>7, <1>8, <1>9, <1>10, <1>11, <1>12,
      <1>13, <1>14, <1>15, <1>16, <1>17, <1>18, <1>19, <1>20, <1>21, <1>22,
      <1>23, <1>24, <1>25, <1>26, <1>27, <1>28, <1>29, <1>30, <1>31, <1>32,
      <1>33, <1>34 DEF AdditionStep, SharedStep, RootStep

\* No step of an addition leaves a root or a process unlisted, and none makes a
\* published node a pending one.
LEMMA AdditionIsListed ==
  ASSUME MutationInv, Adding, AdditionStep
  PROVE  (ResourcesAreListed /\ PublishedSurvivesRecovery /\ LiveHasRoot)'
<1>0. /\ TypeOK /\ TxTypeOK /\ Shape /\ Adding /\ Inventory \subseteq Nodes
      /\ Len(gens) \in Nat \ {0} /\ Inventory \subseteq used
      /\ Candidates /\ CandidateRoots /\ CandidateSupport /\ CandidateEntries
      /\ CandidateTraces
      /\ ResourcesAreListed /\ PublishedSurvivesRecovery /\ LiveHasRoot
  BY InventoryType DEF MutationInv, StretchInv, CandidateInv, CoreInv, History,
      Inventory
<1> USE DEF Handler, Cleaning, Ending, TypeOK, TxTypeOK
<1>1. ASSUME NEW n \in Nodes, UnlinkMarkerThrows(n)
      PROVE  (ResourcesAreListed /\ PublishedSurvivesRecovery /\ LiveHasRoot)'
  BY <1>1, <1>0, KeptRoot DEF UnlinkMarkerThrows, Candidates, CandidateRoots,
    CandidateSupport, CandidateEntries, ResourcesAreListed,
    PublishedSurvivesRecovery, LiveHasRoot, Inventory, Adding, Recording,
    Removing, Retiring, CleaningUp, AddingSteps, RemovingSteps, RetiringSteps,
    Forward, Undoing, durable, host
<1>2. ASSUME RemoveDirectoryThrows
      PROVE  (ResourcesAreListed /\ PublishedSurvivesRecovery /\ LiveHasRoot)'
<2>1. PICK n \in tx.current \cap roots :
         RootKept(n) /\ marked' \in {marked, marked \cup {n}}
    BY <1>2 DEF RemoveDirectoryThrows
<2>2. tx.kind # "remove" /\ UNCHANGED <<inventory, roots, manifest, support>>
    BY <1>2, <1>0 DEF RemoveDirectoryThrows, Adding, host
<2>3. tx'.unrestored = tx.unrestored
    BY <1>0, <2>1, <2>2, KeptRoot
<2>4. Inventory' = Inventory /\ marked \subseteq marked'
    BY <2>1, <2>2 DEF Inventory
<2> QED
    BY <1>0, <2>2, <2>3, <2>4 DEF ResourcesAreListed, LiveHasRoot,
        PublishedSurvivesRecovery
<1>3. ASSUME Publish
      PROVE  (ResourcesAreListed /\ PublishedSurvivesRecovery /\ LiveHasRoot)'
<2>1. Inventory' = Inventory \cup tx.ids
    BY <1>3, <1>0, AppendGeneration DEF Publish
<2>2. /\ pc = "commit" /\ tx'.unrestored = tx.unrestored
      /\ UNCHANGED <<roots, marked, support, manifest>>
    BY <1>3, <1>0 DEF Publish
<2>3. manifest = Live(Inventory \cup tx.ids) /\ tx.ids \subseteq marked
    BY <1>0, <2>2 DEF CandidateEntries, Candidates, CandidateRoots, Forward
<2> QED
    BY <1>0, <2>1, <2>2, <2>3 DEF ResourcesAreListed, LiveHasRoot,
        PublishedSurvivesRecovery, Live
<1>4. ASSUME RestoreReservation
      PROVE  (ResourcesAreListed /\ PublishedSurvivesRecovery /\ LiveHasRoot)'
<2>1. /\ pc = "restore"
      /\ UNCHANGED <<inventory, roots, marked, support>>
    BY <1>4 DEF RestoreReservation, host
<2>2. Inventory' = Inventory
    BY <2>1 DEF Inventory
<2>3. /\ DOMAIN PendingManifest = Inventory \cup tx.ids
      /\ \A n \in Inventory : n \notin tx.ids /\ PendingManifest[n] = "live"
      /\ \A n \in tx.ids : PendingManifest[n] = "pendingAdd"
    BY <1>0 DEF PendingManifest, PriorManifest, With, Live, Candidates
<2>4. manifest' = manifest \/ manifest' = PendingManifest
    BY <1>4, <1>0, Restoration
<2>5. (~tx.unrestored)' => manifest' = PendingManifest
    BY <1>4, <1>0, Restoration
<2>6. ResourcesAreListed'
    BY <1>0, <2>1, <2>2, <2>3, <2>4 DEF ResourcesAreListed, Candidates,
        CandidateRoots, CandidateSupport
<2>7. PublishedSurvivesRecovery'
    BY <1>0, <2>1, <2>2, <2>3, <2>4 DEF PublishedSurvivesRecovery
<2>8. LiveHasRoot'
    BY <1>0, <2>1, <2>3, <2>5 DEF LiveHasRoot, PublishedSurvivesRecovery
<2> QED
    BY <2>6, <2>7, <2>8
<1> USE DEF Candidates, CandidateRoots, CandidateSupport, CandidateEntries,
    ResourcesAreListed, PublishedSurvivesRecovery, LiveHasRoot, Inventory,
    Adding, Recording, Removing, Retiring, CleaningUp, AddingSteps,
    RemovingSteps, RetiringSteps, Forward, Undoing, durable, inventory, host,
    control
<1>5. ASSUME NEW n \in Nodes, UpdatePolicy(n)
      PROVE  (ResourcesAreListed /\ PublishedSurvivesRecovery /\ LiveHasRoot)'
  BY <1>5, <1>0 DEF UpdatePolicy
<1>6. ASSUME NEW n \in Nodes, UpdatePolicyUnconfirmed(n)
      PROVE  (ResourcesAreListed /\ PublishedSurvivesRecovery /\ LiveHasRoot)'
  BY <1>6, <1>0 DEF UpdatePolicyUnconfirmed
<1>7. ASSUME NEW n \in Nodes, NEW failure \in {"failed", "cancelled"},
             UpdatePolicyThrows(n, failure)
      PROVE  (ResourcesAreListed /\ PublishedSurvivesRecovery /\ LiveHasRoot)'
  BY <1>7, <1>0 DEF UpdatePolicyThrows, Throws
<1>8. ASSUME NEW failure \in {"failed", "cancelled"}, StepThrows(failure)
      PROVE  (ResourcesAreListed /\ PublishedSurvivesRecovery /\ LiveHasRoot)'
  BY <1>8, <1>0 DEF StepThrows, Throws
<1>9. ASSUME NEW M \in SUBSET Inventory,
             NEW failure \in {"failed", "cancelled"},
             ConnectPeersThrows(M, failure)
      PROVE  (ResourcesAreListed /\ PublishedSurvivesRecovery /\ LiveHasRoot)'
  BY <1>9, <1>0 DEF ConnectPeersThrows, Throws
<1>10. ASSUME PoliciesUpdated
      PROVE  (ResourcesAreListed /\ PublishedSurvivesRecovery /\ LiveHasRoot)'
  BY <1>10, <1>0 DEF PoliciesUpdated
<1>11. ASSUME NEW M \in SUBSET Inventory, ConnectPeers(M)
      PROVE  (ResourcesAreListed /\ PublishedSurvivesRecovery /\ LiveHasRoot)'
  BY <1>11, <1>0 DEF ConnectPeers, AfterPeers
<1>12. ASSUME Reset
      PROVE  (ResourcesAreListed /\ PublishedSurvivesRecovery /\ LiveHasRoot)'
  BY <1>12, <1>0 DEF Reset, FaultIf, Failed, Restorable
<1>13. ASSUME Reconcile
      PROVE  (ResourcesAreListed /\ PublishedSurvivesRecovery /\ LiveHasRoot)'
  BY <1>13, <1>0 DEF Reconcile, RollbackManifest, PriorManifest, With, Live
<1>14. ASSUME Settle
      PROVE  (ResourcesAreListed /\ PublishedSurvivesRecovery /\ LiveHasRoot)'
  BY <1>14, <1>0 DEF Settle, Ends, NoTx, Live
<1>15. ASSUME NEW n \in Nodes, UnlinkMarker(n)
      PROVE  (ResourcesAreListed /\ PublishedSurvivesRecovery /\ LiveHasRoot)'
  BY <1>15, <1>0 DEF UnlinkMarker
<1>16. ASSUME RootsRemoved
      PROVE  (ResourcesAreListed /\ PublishedSurvivesRecovery /\ LiveHasRoot)'
  BY <1>16, <1>0 DEF RootsRemoved, AfterRoots
<1>17. ASSUME RemoveDirectory
      PROVE  (ResourcesAreListed /\ PublishedSurvivesRecovery /\ LiveHasRoot)'
  BY <1>17, <1>0 DEF RemoveDirectory
<1>18. ASSUME NEW n \in Nodes, Reserve(n)
      PROVE  (ResourcesAreListed /\ PublishedSurvivesRecovery /\ LiveHasRoot)'
  BY <1>18, <1>0 DEF Reserve, With
<1>19. ASSUME NEW n \in Nodes, NEW failure \in {"failed", "cancelled"},
              ReserveThrows(n, failure)
      PROVE  (ResourcesAreListed /\ PublishedSurvivesRecovery /\ LiveHasRoot)'
  BY <1>19, <1>0 DEF ReserveThrows, Throws, With
<1>20. ASSUME NEW failure \in {"failed", "cancelled"}, EquipThrows(failure)
      PROVE  (ResourcesAreListed /\ PublishedSurvivesRecovery /\ LiveHasRoot)'
  BY <1>20, <1>0 DEF EquipThrows, Throws
<1>21. ASSUME Prepare
      PROVE  (ResourcesAreListed /\ PublishedSurvivesRecovery /\ LiveHasRoot)'
  BY <1>21, <1>0 DEF Prepare
<1>22. ASSUME Claim
      PROVE  (ResourcesAreListed /\ PublishedSurvivesRecovery /\ LiveHasRoot)'
  BY <1>22, <1>0 DEF Claim
<1>23. ASSUME ClaimThrows
      PROVE  (ResourcesAreListed /\ PublishedSurvivesRecovery /\ LiveHasRoot)'
  BY <1>23, <1>0 DEF ClaimThrows
<1>24. ASSUME Equip
      PROVE  (ResourcesAreListed /\ PublishedSurvivesRecovery /\ LiveHasRoot)'
  BY <1>24, <1>0 DEF Equip
<1>25. ASSUME StartNodes
      PROVE  (ResourcesAreListed /\ PublishedSurvivesRecovery /\ LiveHasRoot)'
  BY <1>25, <1>0 DEF StartNodes
<1>26. ASSUME Synchronize
      PROVE  (ResourcesAreListed /\ PublishedSurvivesRecovery /\ LiveHasRoot)'
  BY <1>26, <1>0 DEF Synchronize
<1>27. ASSUME Register
      PROVE  (ResourcesAreListed /\ PublishedSurvivesRecovery /\ LiveHasRoot)'
  BY <1>27, <1>0 DEF Register
<1>28. ASSUME NEW R \in SUBSET tx.ids,
              NEW failure \in {"failed", "cancelled", "unconfirmed"},
              RegisterThrows(R, failure)
      PROVE  (ResourcesAreListed /\ PublishedSurvivesRecovery /\ LiveHasRoot)'
  BY <1>28, <1>0 DEF RegisterThrows, Throws
<1>29. ASSUME WriteLive
      PROVE  (ResourcesAreListed /\ PublishedSurvivesRecovery /\ LiveHasRoot)'
  BY <1>29, <1>0 DEF WriteLive, Live
<1>30. ASSUME WriteLiveThrows
      PROVE  (ResourcesAreListed /\ PublishedSurvivesRecovery /\ LiveHasRoot)'
  BY <1>30, <1>0 DEF WriteLiveThrows, Live
<1>31. ASSUME CommitRefused
      PROVE  (ResourcesAreListed /\ PublishedSurvivesRecovery /\ LiveHasRoot)'
  BY <1>31, <1>0 DEF CommitRefused
<1>32. ASSUME Revoke
      PROVE  (ResourcesAreListed /\ PublishedSurvivesRecovery /\ LiveHasRoot)'
  BY <1>32, <1>0 DEF Revoke, FaultIf, Failed
<1>33. ASSUME StopCandidates
      PROVE  (ResourcesAreListed /\ PublishedSurvivesRecovery /\ LiveHasRoot)'
  BY <1>33, <1>0 DEF StopCandidates, FaultIf, Failed
<1>34. ASSUME Unstage
      PROVE  (ResourcesAreListed /\ PublishedSurvivesRecovery /\ LiveHasRoot)'
  BY <1>34, <1>0 DEF Unstage
<1> QED
  BY <1>1, <1>2, <1>3, <1>4, <1>5, <1>6, <1>7, <1>8, <1>9, <1>10, <1>11, <1>12,
      <1>13, <1>14, <1>15, <1>16, <1>17, <1>18, <1>19, <1>20, <1>21, <1>22,
      <1>23, <1>24, <1>25, <1>26, <1>27, <1>28, <1>29, <1>30, <1>31, <1>32,
      <1>33, <1>34 DEF AdditionStep, SharedStep, RootStep

\* An addition undoes the policies and the peers it changed.
LEMMA AdditionDrifts ==
  ASSUME MutationInv, Adding, AdditionStep
  PROVE  Drifted'
<1>0. /\ TypeOK /\ TxTypeOK /\ Shape /\ Adding /\ Inventory \subseteq Nodes
      /\ Len(gens) \in Nat \ {0} /\ Inventory \subseteq used
      /\ Drifted
  BY InventoryType DEF MutationInv, StretchInv, CandidateInv, CoreInv, History,
      Inventory
<1> USE DEF Handler, Cleaning, Ending, TypeOK, TxTypeOK
<1>1. ASSUME NEW n \in Nodes, UnlinkMarkerThrows(n)
      PROVE  Drifted'
  BY <1>1, <1>0, KeptRoot DEF UnlinkMarkerThrows, Drifted, Inventory, Adding,
    Recording, Removing, Retiring, CleaningUp, AddingSteps, RemovingSteps,
    RetiringSteps, Forward, Undoing, durable, host
<1>2. ASSUME RemoveDirectoryThrows PROVE Drifted'
<2>1. PICK n \in tx.current \cap roots : RootKept(n)
    BY <1>2 DEF RemoveDirectoryThrows
<2>2. /\ pc = "rmdir" /\ tx.kind # "remove"
      /\ UNCHANGED <<inventory, roots, manifest, staged, docsAhead, host>>
    BY <1>2, <1>0 DEF RemoveDirectoryThrows, Adding
<2>3. tx.current \ {n} = {}
    BY <1>0, <2>1, <2>2 DEF Shape
<2>4. /\ pc' = "unlink" /\ UNCHANGED control /\ tx'.known = tx.known
      /\ tx'.kind = tx.kind /\ tx'.ids = tx.ids /\ tx'.failure = tx.failure
      /\ tx'.acquired = tx.acquired /\ tx'.published = tx.published
      /\ tx'.unrestored = tx.unrestored /\ tx'.peers = tx.peers
      /\ tx'.flagged = tx.flagged /\ tx'.current = {} /\ tx'.errors = TRUE
      /\ tx'.todo = tx.todo \ {n} /\ tx'.verified = tx.verified \ {n}
    BY <1>0, <2>1, <2>2, KeptRoot
<2> QED
    BY <1>0, <2>1, <2>2, <2>3, <2>4 DEF Drifted, Inventory, Adding, Recording,
      Removing, Retiring, CleaningUp, AddingSteps, RemovingSteps,
      RetiringSteps, Forward, Undoing, host
<1>3. ASSUME RestoreReservation PROVE Drifted'
<2>1. /\ pc = "restore" /\ pc' = CatchBlock
      /\ UNCHANGED <<inventory, held, roots, marked, staged, host, control>>
    BY <1>3 DEF RestoreReservation
<2> QED
    BY <1>0, <2>1, <1>3, Restoration DEF Drifted, Inventory, Adding,
      Recording, Removing, Retiring, CleaningUp, AddingSteps, RemovingSteps,
      RetiringSteps, Forward, Undoing, host
<1> USE DEF Drifted, Inventory, Adding, Recording, Removing, Retiring,
    CleaningUp, AddingSteps, RemovingSteps, RetiringSteps, Forward, Undoing,
    durable, inventory, host, control
<1>4. ASSUME NEW n \in Nodes, UpdatePolicy(n)
      PROVE  Drifted'
  BY <1>4, <1>0 DEF UpdatePolicy
<1>5. ASSUME NEW n \in Nodes, UpdatePolicyUnconfirmed(n)
      PROVE  Drifted'
  BY <1>5, <1>0 DEF UpdatePolicyUnconfirmed
<1>6. ASSUME NEW n \in Nodes, NEW failure \in {"failed", "cancelled"},
             UpdatePolicyThrows(n, failure)
      PROVE  Drifted'
  BY <1>6, <1>0 DEF UpdatePolicyThrows, Throws
<1>7. ASSUME NEW failure \in {"failed", "cancelled"}, StepThrows(failure)
      PROVE  Drifted'
  BY <1>7, <1>0 DEF StepThrows, Throws
<1>8. ASSUME NEW M \in SUBSET Inventory,
             NEW failure \in {"failed", "cancelled"},
             ConnectPeersThrows(M, failure)
      PROVE  Drifted'
  BY <1>8, <1>0 DEF ConnectPeersThrows, Throws
<1>9. ASSUME PoliciesUpdated PROVE Drifted'
  BY <1>9, <1>0 DEF PoliciesUpdated
<1>10. ASSUME NEW M \in SUBSET Inventory, ConnectPeers(M)
      PROVE  Drifted'
  BY <1>10, <1>0 DEF ConnectPeers, AfterPeers
<1>11. ASSUME Reset PROVE Drifted'
  BY <1>11, <1>0, ZenonT(40) DEF Reset, FaultIf, Failed, Restorable
<1>12. ASSUME Reconcile PROVE Drifted'
  BY <1>12, <1>0 DEF Reconcile
<1>13. ASSUME Settle PROVE Drifted'
  BY <1>13, <1>0 DEF Settle, Ends, NoTx
<1>14. ASSUME NEW n \in Nodes, UnlinkMarker(n)
      PROVE  Drifted'
  BY <1>14, <1>0 DEF UnlinkMarker
<1>15. ASSUME RootsRemoved PROVE Drifted'
  BY <1>15, <1>0 DEF RootsRemoved, AfterRoots
<1>16. ASSUME RemoveDirectory PROVE Drifted'
  BY <1>16, <1>0 DEF RemoveDirectory
<1>17. ASSUME NEW n \in Nodes, Reserve(n)
      PROVE  Drifted'
  BY <1>17, <1>0 DEF Reserve
<1>18. ASSUME NEW n \in Nodes, NEW failure \in {"failed", "cancelled"},
              ReserveThrows(n, failure)
      PROVE  Drifted'
  BY <1>18, <1>0 DEF ReserveThrows, Throws
<1>19. ASSUME NEW failure \in {"failed", "cancelled"}, EquipThrows(failure)
      PROVE  Drifted'
  BY <1>19, <1>0 DEF EquipThrows, Throws
<1>20. ASSUME Prepare PROVE Drifted'
  BY <1>20, <1>0 DEF Prepare
<1>21. ASSUME Claim PROVE Drifted'
  BY <1>21, <1>0 DEF Claim
<1>22. ASSUME ClaimThrows PROVE Drifted'
  BY <1>22, <1>0 DEF ClaimThrows
<1>23. ASSUME Equip PROVE Drifted'
  BY <1>23, <1>0 DEF Equip
<1>24. ASSUME StartNodes PROVE Drifted'
  BY <1>24, <1>0 DEF StartNodes
<1>25. ASSUME Synchronize PROVE Drifted'
  BY <1>25, <1>0 DEF Synchronize
<1>26. ASSUME Register PROVE Drifted'
  BY <1>26, <1>0 DEF Register
<1>27. ASSUME NEW R \in SUBSET tx.ids,
              NEW failure \in {"failed", "cancelled", "unconfirmed"},
              RegisterThrows(R, failure)
      PROVE  Drifted'
  BY <1>27, <1>0 DEF RegisterThrows, Throws
<1>28. ASSUME WriteLive PROVE Drifted'
  BY <1>28, <1>0 DEF WriteLive
<1>29. ASSUME WriteLiveThrows PROVE Drifted'
  BY <1>29, <1>0 DEF WriteLiveThrows
<1>30. ASSUME CommitRefused PROVE Drifted'
  BY <1>30, <1>0 DEF CommitRefused
<1>31. ASSUME Publish PROVE Drifted'
  BY <1>31, <1>0 DEF Publish
<1>32. ASSUME Revoke PROVE Drifted'
  BY <1>32, <1>0 DEF Revoke, FaultIf, Failed
<1>33. ASSUME StopCandidates PROVE Drifted'
  BY <1>33, <1>0 DEF StopCandidates, FaultIf, Failed
<1>34. ASSUME Unstage PROVE Drifted'
  BY <1>34, <1>0 DEF Unstage
<1> QED
  BY <1>1, <1>2, <1>3, <1>4, <1>5, <1>6, <1>7, <1>8, <1>9, <1>10, <1>11, <1>12,
      <1>13, <1>14, <1>15, <1>16, <1>17, <1>18, <1>19, <1>20, <1>21, <1>22,
      <1>23, <1>24, <1>25, <1>26, <1>27, <1>28, <1>29, <1>30, <1>31, <1>32,
      <1>33, <1>34 DEF AdditionStep, SharedStep, RootStep

\* An addition takes new ids only and leaves the leased nodes running.
LEMMA AdditionKeepsHistory ==
  ASSUME MutationInv, Adding, AdditionStep
  PROVE  (History /\ Leases)'
<1>0. /\ TypeOK /\ TxTypeOK /\ Shape /\ Adding /\ Inventory \subseteq Nodes
      /\ Len(gens) \in Nat \ {0} /\ Inventory \subseteq used
      /\ History /\ Leases /\ Candidates /\ CandidateSupport
  BY InventoryType DEF MutationInv, StretchInv, CandidateInv, CoreInv, History,
      Inventory
<1> USE DEF Handler, Cleaning, Ending, TypeOK, TxTypeOK
<1>1. ASSUME NEW n \in Nodes, UnlinkMarkerThrows(n)
      PROVE  (History /\ Leases)'
<2>1. tx'.kind = tx.kind /\ pc' \in Handler \ {"retire"}
    BY <1>1, <1>0, KeptRoot DEF UnlinkMarkerThrows, Adding
<2>2. pc \in Handler /\ UNCHANGED <<gens, used, held, support>>
    BY <1>1 DEF UnlinkMarkerThrows, host
<2> QED
    BY <1>0, <2>1, <2>2, LeasesFrame DEF Running, Adding
<1>2. ASSUME RemoveDirectoryThrows PROVE (History /\ Leases)'
<2>1. tx'.kind = tx.kind /\ pc' \in Handler \ {"retire"}
    BY <1>2, <1>0, KeptRoot DEF RemoveDirectoryThrows, Adding
<2>2. pc \in Handler /\ UNCHANGED <<gens, used, held, support>>
    BY <1>2 DEF RemoveDirectoryThrows, host
<2> QED
    BY <1>0, <2>1, <2>2, LeasesFrame DEF Running, Adding
<1>3. ASSUME Publish PROVE (History /\ Leases)'
<2> DEFINE S == Inventory \cup tx.ids
<2>1. /\ gens' = Append(gens, S) /\ used' = used \cup tx.ids
      /\ UNCHANGED <<held, support>> /\ S \in SUBSET Nodes
      /\ Running /\ Running' /\ pc = "commit" /\ pc' = "record"
    BY <1>3, <1>0 DEF Publish, Running, Adding
<2>2. /\ Len(gens') = Len(gens) + 1 /\ Inventory' = S
      /\ gens'[Len(gens) + 1] = S
      /\ \A i \in DOMAIN gens : gens'[i] = gens[i]
      /\ DOMAIN gens' = DOMAIN gens \cup {Len(gens) + 1}
    BY <1>0, <2>1, AppendGeneration DEF Inventory
<2>3. DOMAIN gens = 1..Len(gens) /\ Inventory = gens[Len(gens)]
    BY <1>0 DEF Inventory
<2>4. tx.ids \cap used = {} /\ S \subseteq support
    BY <1>0, <2>1 DEF Candidates, CandidateSupport, Leases, Forward
<2>5. \A i \in DOMAIN gens' : gens'[i] \subseteq used'
    BY <1>0, <2>1, <2>2, <2>3 DEF History
<2>6. ASSUME NEW i \in DOMAIN gens', NEW j \in DOMAIN gens',
             NEW k \in DOMAIN gens', i < j, j < k
      PROVE  gens'[i] \cap gens'[k] \subseteq gens'[j]
  <3>1. i \in DOMAIN gens /\ j \in DOMAIN gens
    BY <1>0, <2>2, <2>3, <2>6
  <3>2. CASE k \in DOMAIN gens
    BY <1>0, <2>2, <2>6, <3>1, <3>2 DEF History, IdsNeverReused
  <3>3. CASE k = Len(gens) + 1
    <4>1. gens[i] \cap S \subseteq gens[Len(gens)]
      BY <1>0, <2>3, <2>4, <3>1 DEF History
    <4>2. j < Len(gens) => gens[i] \cap gens[Len(gens)] \subseteq gens[j]
      BY <1>0, <2>3, <2>6, <3>1 DEF History, IdsNeverReused
    <4>3. j < Len(gens) \/ j = Len(gens)
      BY <1>0, <2>3, <3>1
    <4> QED
      BY <2>2, <3>1, <3>3, <4>1, <4>2, <4>3
  <3> QED
    BY <2>2, <3>2, <3>3
<2>7. LeaseHonoured'
    BY <1>0, <2>1, <2>2, <2>3, <2>4 DEF Leases, LeaseHonoured
<2> QED
    BY <2>1, <2>2, <2>4, <2>5, <2>6, <2>7 DEF History, IdsNeverReused, Leases
<1>4. ASSUME RestoreReservation PROVE (History /\ Leases)'
<2>1. tx'.kind = tx.kind /\ pc' \in Handler \ {"retire"}
    BY <1>4, <1>0, Restoration DEF RestoreReservation
<2>2. pc \in Handler /\ UNCHANGED <<gens, used, held, support>>
    BY <1>4 DEF RestoreReservation, host
<2> QED
    BY <1>0, <2>1, <2>2, LeasesFrame DEF Running, Adding
<1>5. ASSUME StopCandidates PROVE (History /\ Leases)'
<2>1. PICK left : support' = support \ (tx.acquired \ left)
    BY <1>5 DEF StopCandidates
<2>2. /\ UNCHANGED <<gens, used, held>> /\ Running /\ Running' /\ pc' = "reset"
    BY <1>5, <1>0 DEF StopCandidates, Running, Adding
<2>3. tx.acquired \cap used = {}
    BY <1>0 DEF Candidates
<2>4. History'
    BY <1>0, <2>2 DEF History, IdsNeverReused
<2>5. \A r \in Readers : held[r] # 0 => gens[held[r]] \subseteq used
    BY <1>0 DEF History
<2>6. LeaseHonoured'
    BY <1>0, <2>1, <2>2, <2>3, <2>5 DEF Leases, LeaseHonoured
<2>7. (Inventory \subseteq support)'
    BY <1>0, <2>1, <2>2, <2>3 DEF Leases, Inventory
<2> QED
    BY <2>2, <2>4, <2>6, <2>7 DEF Leases
<1> USE DEF History, Leases, IdsNeverReused, LeaseHonoured, Running,
    ReadersDrained, Inventory, Adding, Recording, Removing, Retiring,
    CleaningUp, AddingSteps, RemovingSteps, RetiringSteps, Forward, Undoing,
    durable, inventory, host, control
<1>6. ASSUME NEW n \in Nodes, UpdatePolicy(n)
      PROVE  (History /\ Leases)'
  BY <1>6, <1>0 DEF UpdatePolicy
<1>7. ASSUME NEW n \in Nodes, UpdatePolicyUnconfirmed(n)
      PROVE  (History /\ Leases)'
  BY <1>7, <1>0 DEF UpdatePolicyUnconfirmed
<1>8. ASSUME NEW n \in Nodes, NEW failure \in {"failed", "cancelled"},
             UpdatePolicyThrows(n, failure)
      PROVE  (History /\ Leases)'
  BY <1>8, <1>0 DEF UpdatePolicyThrows, Throws
<1>9. ASSUME NEW failure \in {"failed", "cancelled"}, StepThrows(failure)
      PROVE  (History /\ Leases)'
  BY <1>9, <1>0 DEF StepThrows, Throws
<1>10. ASSUME NEW M \in SUBSET Inventory,
              NEW failure \in {"failed", "cancelled"},
              ConnectPeersThrows(M, failure)
      PROVE  (History /\ Leases)'
  BY <1>10, <1>0 DEF ConnectPeersThrows, Throws
<1>11. ASSUME PoliciesUpdated PROVE (History /\ Leases)'
  BY <1>11, <1>0 DEF PoliciesUpdated
<1>12. ASSUME NEW M \in SUBSET Inventory, ConnectPeers(M)
      PROVE  (History /\ Leases)'
  BY <1>12, <1>0 DEF ConnectPeers, AfterPeers
<1>13. ASSUME Reset PROVE (History /\ Leases)'
  BY <1>13, <1>0 DEF Reset, FaultIf, Failed, Restorable
<1>14. ASSUME Reconcile PROVE (History /\ Leases)'
  BY <1>14, <1>0 DEF Reconcile
<1>15. ASSUME Settle PROVE (History /\ Leases)'
  BY <1>15, <1>0 DEF Settle, Ends, NoTx
<1>16. ASSUME NEW n \in Nodes, UnlinkMarker(n)
      PROVE  (History /\ Leases)'
  BY <1>16, <1>0 DEF UnlinkMarker
<1>17. ASSUME RootsRemoved PROVE (History /\ Leases)'
  BY <1>17, <1>0 DEF RootsRemoved, AfterRoots
<1>18. ASSUME RemoveDirectory PROVE (History /\ Leases)'
  BY <1>18, <1>0 DEF RemoveDirectory
<1>19. ASSUME NEW n \in Nodes, Reserve(n)
      PROVE  (History /\ Leases)'
  BY <1>19, <1>0 DEF Reserve
<1>20. ASSUME NEW n \in Nodes, NEW failure \in {"failed", "cancelled"},
              ReserveThrows(n, failure)
      PROVE  (History /\ Leases)'
  BY <1>20, <1>0 DEF ReserveThrows, Throws
<1>21. ASSUME NEW failure \in {"failed", "cancelled"}, EquipThrows(failure)
      PROVE  (History /\ Leases)'
  BY <1>21, <1>0 DEF EquipThrows, Throws
<1>22. ASSUME Prepare PROVE (History /\ Leases)'
  BY <1>22, <1>0 DEF Prepare
<1>23. ASSUME Claim PROVE (History /\ Leases)'
  BY <1>23, <1>0 DEF Claim
<1>24. ASSUME ClaimThrows PROVE (History /\ Leases)'
  BY <1>24, <1>0 DEF ClaimThrows
<1>25. ASSUME Equip PROVE (History /\ Leases)'
  BY <1>25, <1>0 DEF Equip
<1>26. ASSUME StartNodes PROVE (History /\ Leases)'
  BY <1>26, <1>0 DEF StartNodes
<1>27. ASSUME Synchronize PROVE (History /\ Leases)'
  BY <1>27, <1>0 DEF Synchronize
<1>28. ASSUME Register PROVE (History /\ Leases)'
  BY <1>28, <1>0 DEF Register
<1>29. ASSUME NEW R \in SUBSET tx.ids,
              NEW failure \in {"failed", "cancelled", "unconfirmed"},
              RegisterThrows(R, failure)
      PROVE  (History /\ Leases)'
  BY <1>29, <1>0 DEF RegisterThrows, Throws
<1>30. ASSUME WriteLive PROVE (History /\ Leases)'
  BY <1>30, <1>0 DEF WriteLive
<1>31. ASSUME WriteLiveThrows PROVE (History /\ Leases)'
  BY <1>31, <1>0 DEF WriteLiveThrows
<1>32. ASSUME CommitRefused PROVE (History /\ Leases)'
  BY <1>32, <1>0 DEF CommitRefused
<1>33. ASSUME Revoke PROVE (History /\ Leases)'
  BY <1>33, <1>0 DEF Revoke, FaultIf, Failed
<1>34. ASSUME Unstage PROVE (History /\ Leases)'
  BY <1>34, <1>0 DEF Unstage
<1> QED
  BY <1>1, <1>2, <1>3, <1>4, <1>5, <1>6, <1>7, <1>8, <1>9, <1>10, <1>11, <1>12,
      <1>13, <1>14, <1>15, <1>16, <1>17, <1>18, <1>19, <1>20, <1>21, <1>22,
      <1>23, <1>24, <1>25, <1>26, <1>27, <1>28, <1>29, <1>30, <1>31, <1>32,
      <1>33, <1>34 DEF AdditionStep, SharedStep, RootStep

\* An addition that ends definitely leaves the state its inventory tells.
LEMMA AdditionSettles ==
  ASSUME MutationInv, Adding, AdditionStep
  PROVE  (SettledIsConsistent /\ Recorded /\ RecoveryIsComplete)'
<1>0. /\ TypeOK /\ TxTypeOK /\ Shape /\ Adding /\ Inventory \subseteq Nodes
      /\ Len(gens) \in Nat \ {0} /\ Inventory \subseteq used
      /\ Candidates /\ CandidateRoots /\ CandidateSupport /\ CandidateEntries
      /\ CandidateTraces
      /\ Drifted /\ Inventory \subseteq support /\ Inventory \subseteq roots
  BY InventoryType DEF MutationInv, StretchInv, CandidateInv, CoreInv, History,
      Inventory, Leases, Running, PublishedSurvivesRecovery, TypeOK, Adding,
      AddingSteps, Forward, Undoing, Ending
<1> USE DEF Handler, Cleaning, Ending, TypeOK, TxTypeOK
<1>1. ASSUME Settle
      PROVE  (SettledIsConsistent /\ Recorded /\ RecoveryIsComplete)'
<2>1. /\ pc = "settle" /\ UNCHANGED <<inventory, durable, host>>
    BY <1>1 DEF Settle
<2>2. CASE tx.errors \/ tx.failure = "unconfirmed"
    BY <1>1, <1>0, <2>2 DEF Settle, Ends, SettledIsConsistent, Recorded,
        Recording, RecoveryIsComplete
<2>3. CASE ~tx.errors /\ tx.failure # "unconfirmed"
  <3>1. /\ manifest = Live(Inventory) /\ drift \subseteq {"mixed"} \X Nodes
        /\ chain \subseteq Inventory /\ ~staged /\ ~docsAhead
    BY <1>0, <2>1, <2>3 DEF CandidateEntries, CandidateTraces, Drifted, Undoing
  <3>2. roots = Inventory /\ support = Inventory
    BY <1>0, <2>1, <2>3, ZenonT(40) DEF Candidates, CandidateRoots,
        CandidateSupport, Undoing
  <3>3. Inventory' = Inventory
    BY <2>1 DEF Inventory
  <3>4. /\ tx' = NoTx
        /\ pc' = IF tx.failure = "unconfirmed" THEN "stopping" ELSE "idle"
    BY <1>1, <2>3 DEF Settle, Ends
  <3> QED
    BY <2>1, <2>3, <3>1, <3>2, <3>3, <3>4 DEF SettledIsConsistent, Recorded,
        Recording, RecoveryIsComplete, durable, host
<2> QED
    BY <2>2, <2>3
<1>2. ASSUME NEW n \in Nodes, UnlinkMarkerThrows(n)
      PROVE  (SettledIsConsistent /\ Recorded /\ RecoveryIsComplete)'
  BY <1>2, <1>0, KeptRoot DEF UnlinkMarkerThrows, Candidates, CandidateRoots,
    CandidateSupport, CandidateEntries, CandidateTraces, Drifted,
    SettledIsConsistent, Recorded, RecoveryIsComplete, Inventory, Adding,
    Recording, Removing, Retiring, CleaningUp, AddingSteps, RemovingSteps,
    RetiringSteps, Forward, Undoing, durable, host
<1>3. ASSUME RemoveDirectoryThrows
      PROVE  (SettledIsConsistent /\ Recorded /\ RecoveryIsComplete)'
<2>1. PICK n \in tx.current \cap roots : RootKept(n)
    BY <1>3 DEF RemoveDirectoryThrows
<2>2. /\ pc = "rmdir" /\ tx.kind # "remove"
      /\ UNCHANGED <<inventory, roots, manifest, staged, docsAhead, host>>
    BY <1>3, <1>0 DEF RemoveDirectoryThrows, Adding
<2>3. tx.current \ {n} = {}
    BY <1>0, <2>1, <2>2 DEF Shape
<2>4. /\ pc' = "unlink" /\ UNCHANGED control /\ tx'.known = tx.known
      /\ tx'.kind = tx.kind /\ tx'.ids = tx.ids /\ tx'.failure = tx.failure
      /\ tx'.acquired = tx.acquired /\ tx'.published = tx.published
      /\ tx'.unrestored = tx.unrestored /\ tx'.peers = tx.peers
      /\ tx'.flagged = tx.flagged /\ tx'.current = {} /\ tx'.errors = TRUE
      /\ tx'.todo = tx.todo \ {n} /\ tx'.verified = tx.verified \ {n}
    BY <1>0, <2>1, <2>2, KeptRoot
<2> QED
    BY <1>0, <2>1, <2>2, <2>3, <2>4 DEF Candidates, CandidateRoots,
      CandidateSupport, CandidateEntries, CandidateTraces, Drifted,
      SettledIsConsistent, Recorded, RecoveryIsComplete, Inventory, Adding,
      Recording, Removing, Retiring, CleaningUp, AddingSteps, RemovingSteps,
      RetiringSteps, Forward, Undoing, host
<1>4. ASSUME RestoreReservation
      PROVE  (SettledIsConsistent /\ Recorded /\ RecoveryIsComplete)'
<2>1. /\ pc = "restore" /\ pc' = CatchBlock
      /\ UNCHANGED <<inventory, held, roots, marked, staged, host, control>>
    BY <1>4 DEF RestoreReservation
<2> QED
    BY <1>0, <2>1, <1>4, Restoration DEF Candidates, CandidateRoots,
      CandidateSupport, CandidateEntries, CandidateTraces, Drifted,
      SettledIsConsistent, Recorded, RecoveryIsComplete, Inventory, Adding,
      Recording, Removing, Retiring, CleaningUp, AddingSteps, RemovingSteps,
      RetiringSteps, Forward, Undoing, host
<1> USE DEF Candidates, CandidateRoots, CandidateSupport, CandidateEntries,
    CandidateTraces, Drifted, SettledIsConsistent, Recorded,
    RecoveryIsComplete, Inventory, Adding, Recording, Removing, Retiring,
    CleaningUp, AddingSteps, RemovingSteps, RetiringSteps, Forward, Undoing,
    durable, inventory, host, control
<1>5. ASSUME NEW n \in Nodes, UpdatePolicy(n)
      PROVE  (SettledIsConsistent /\ Recorded /\ RecoveryIsComplete)'
  BY <1>5, <1>0 DEF UpdatePolicy
<1>6. ASSUME NEW n \in Nodes, UpdatePolicyUnconfirmed(n)
      PROVE  (SettledIsConsistent /\ Recorded /\ RecoveryIsComplete)'
  BY <1>6, <1>0 DEF UpdatePolicyUnconfirmed
<1>7. ASSUME NEW n \in Nodes, NEW failure \in {"failed", "cancelled"},
             UpdatePolicyThrows(n, failure)
      PROVE  (SettledIsConsistent /\ Recorded /\ RecoveryIsComplete)'
  BY <1>7, <1>0 DEF UpdatePolicyThrows, Throws
<1>8. ASSUME NEW failure \in {"failed", "cancelled"}, StepThrows(failure)
      PROVE  (SettledIsConsistent /\ Recorded /\ RecoveryIsComplete)'
  BY <1>8, <1>0 DEF StepThrows, Throws
<1>9. ASSUME NEW M \in SUBSET Inventory,
             NEW failure \in {"failed", "cancelled"},
             ConnectPeersThrows(M, failure)
      PROVE  (SettledIsConsistent /\ Recorded /\ RecoveryIsComplete)'
  BY <1>9, <1>0 DEF ConnectPeersThrows, Throws
<1>10. ASSUME PoliciesUpdated
      PROVE  (SettledIsConsistent /\ Recorded /\ RecoveryIsComplete)'
  BY <1>10, <1>0 DEF PoliciesUpdated
<1>11. ASSUME NEW M \in SUBSET Inventory, ConnectPeers(M)
      PROVE  (SettledIsConsistent /\ Recorded /\ RecoveryIsComplete)'
  BY <1>11, <1>0 DEF ConnectPeers, AfterPeers
<1>12. ASSUME Reset
      PROVE  (SettledIsConsistent /\ Recorded /\ RecoveryIsComplete)'
  BY <1>12, <1>0 DEF Reset, FaultIf, Failed, Restorable
<1>13. ASSUME Reconcile
      PROVE  (SettledIsConsistent /\ Recorded /\ RecoveryIsComplete)'
  BY <1>13, <1>0 DEF Reconcile
<1>14. ASSUME NEW n \in Nodes, UnlinkMarker(n)
      PROVE  (SettledIsConsistent /\ Recorded /\ RecoveryIsComplete)'
  BY <1>14, <1>0 DEF UnlinkMarker
<1>15. ASSUME RootsRemoved
      PROVE  (SettledIsConsistent /\ Recorded /\ RecoveryIsComplete)'
  BY <1>15, <1>0 DEF RootsRemoved, AfterRoots
<1>16. ASSUME RemoveDirectory
      PROVE  (SettledIsConsistent /\ Recorded /\ RecoveryIsComplete)'
  BY <1>16, <1>0 DEF RemoveDirectory
<1>17. ASSUME NEW n \in Nodes, Reserve(n)
      PROVE  (SettledIsConsistent /\ Recorded /\ RecoveryIsComplete)'
  BY <1>17, <1>0 DEF Reserve
<1>18. ASSUME NEW n \in Nodes, NEW failure \in {"failed", "cancelled"},
              ReserveThrows(n, failure)
      PROVE  (SettledIsConsistent /\ Recorded /\ RecoveryIsComplete)'
  BY <1>18, <1>0 DEF ReserveThrows, Throws
<1>19. ASSUME NEW failure \in {"failed", "cancelled"}, EquipThrows(failure)
      PROVE  (SettledIsConsistent /\ Recorded /\ RecoveryIsComplete)'
  BY <1>19, <1>0 DEF EquipThrows, Throws
<1>20. ASSUME Prepare
      PROVE  (SettledIsConsistent /\ Recorded /\ RecoveryIsComplete)'
  BY <1>20, <1>0 DEF Prepare
<1>21. ASSUME Claim
      PROVE  (SettledIsConsistent /\ Recorded /\ RecoveryIsComplete)'
  BY <1>21, <1>0 DEF Claim
<1>22. ASSUME ClaimThrows
      PROVE  (SettledIsConsistent /\ Recorded /\ RecoveryIsComplete)'
  BY <1>22, <1>0 DEF ClaimThrows
<1>23. ASSUME Equip
      PROVE  (SettledIsConsistent /\ Recorded /\ RecoveryIsComplete)'
  BY <1>23, <1>0 DEF Equip
<1>24. ASSUME StartNodes
      PROVE  (SettledIsConsistent /\ Recorded /\ RecoveryIsComplete)'
  BY <1>24, <1>0 DEF StartNodes
<1>25. ASSUME Synchronize
      PROVE  (SettledIsConsistent /\ Recorded /\ RecoveryIsComplete)'
  BY <1>25, <1>0 DEF Synchronize
<1>26. ASSUME Register
      PROVE  (SettledIsConsistent /\ Recorded /\ RecoveryIsComplete)'
  BY <1>26, <1>0 DEF Register
<1>27. ASSUME NEW R \in SUBSET tx.ids,
              NEW failure \in {"failed", "cancelled", "unconfirmed"},
              RegisterThrows(R, failure)
      PROVE  (SettledIsConsistent /\ Recorded /\ RecoveryIsComplete)'
  BY <1>27, <1>0 DEF RegisterThrows, Throws
<1>28. ASSUME WriteLive
      PROVE  (SettledIsConsistent /\ Recorded /\ RecoveryIsComplete)'
  BY <1>28, <1>0 DEF WriteLive
<1>29. ASSUME WriteLiveThrows
      PROVE  (SettledIsConsistent /\ Recorded /\ RecoveryIsComplete)'
  BY <1>29, <1>0 DEF WriteLiveThrows
<1>30. ASSUME CommitRefused
      PROVE  (SettledIsConsistent /\ Recorded /\ RecoveryIsComplete)'
  BY <1>30, <1>0 DEF CommitRefused
<1>31. ASSUME Publish
      PROVE  (SettledIsConsistent /\ Recorded /\ RecoveryIsComplete)'
  BY <1>31, <1>0 DEF Publish
<1>32. ASSUME Revoke
      PROVE  (SettledIsConsistent /\ Recorded /\ RecoveryIsComplete)'
  BY <1>32, <1>0 DEF Revoke, FaultIf, Failed
<1>33. ASSUME StopCandidates
      PROVE  (SettledIsConsistent /\ Recorded /\ RecoveryIsComplete)'
  BY <1>33, <1>0 DEF StopCandidates, FaultIf, Failed
<1>34. ASSUME Unstage
      PROVE  (SettledIsConsistent /\ Recorded /\ RecoveryIsComplete)'
  BY <1>34, <1>0 DEF Unstage
<1> QED
  BY <1>1, <1>2, <1>3, <1>4, <1>5, <1>6, <1>7, <1>8, <1>9, <1>10, <1>11, <1>12,
      <1>13, <1>14, <1>15, <1>16, <1>17, <1>18, <1>19, <1>20, <1>21, <1>22,
      <1>23, <1>24, <1>25, <1>26, <1>27, <1>28, <1>29, <1>30, <1>31, <1>32,
      <1>33, <1>34 DEF AdditionStep, SharedStep, RootStep

\* An addition turns into no removal and no cleanup.
LEMMA AdditionIsNoRemoval ==
  ASSUME MutationInv, Adding, AdditionStep
  PROVE  (Leaving /\ Retired /\ Cleaned)'
<1>0. /\ TypeOK /\ TxTypeOK /\ Shape /\ Adding /\ Inventory \subseteq Nodes
      /\ Len(gens) \in Nat \ {0} /\ Inventory \subseteq used
      /\ TRUE
  BY InventoryType DEF MutationInv, StretchInv, CandidateInv, CoreInv, History,
      Inventory
<1> USE DEF Handler, Cleaning, Ending, TypeOK, TxTypeOK
<1>1. ASSUME NEW n \in Nodes, UnlinkMarkerThrows(n)
      PROVE  (Leaving /\ Retired /\ Cleaned)'
  BY <1>1, <1>0, KeptRoot DEF UnlinkMarkerThrows, Leaving, Retired, Cleaned,
    Inventory, Adding, Recording, Removing, Retiring, CleaningUp, AddingSteps,
    RemovingSteps, RetiringSteps, Forward, Undoing, durable, host
<1>2. ASSUME RemoveDirectoryThrows PROVE (Leaving /\ Retired /\ Cleaned)'
<2>1. PICK n \in tx.current \cap roots : RootKept(n)
    BY <1>2 DEF RemoveDirectoryThrows
<2>2. /\ pc = "rmdir" /\ tx.kind # "remove"
      /\ UNCHANGED <<inventory, roots, manifest, staged, docsAhead, host>>
    BY <1>2, <1>0 DEF RemoveDirectoryThrows, Adding
<2>3. tx.current \ {n} = {}
    BY <1>0, <2>1, <2>2 DEF Shape
<2>4. /\ pc' = "unlink" /\ UNCHANGED control /\ tx'.known = tx.known
      /\ tx'.kind = tx.kind /\ tx'.ids = tx.ids /\ tx'.failure = tx.failure
      /\ tx'.acquired = tx.acquired /\ tx'.published = tx.published
      /\ tx'.unrestored = tx.unrestored /\ tx'.peers = tx.peers
      /\ tx'.flagged = tx.flagged /\ tx'.current = {} /\ tx'.errors = TRUE
      /\ tx'.todo = tx.todo \ {n} /\ tx'.verified = tx.verified \ {n}
    BY <1>0, <2>1, <2>2, KeptRoot
<2> QED
    BY <1>0, <2>1, <2>2, <2>3, <2>4 DEF Leaving, Retired, Cleaned, Inventory,
      Adding, Recording, Removing, Retiring, CleaningUp, AddingSteps,
      RemovingSteps, RetiringSteps, Forward, Undoing, host
<1>3. ASSUME RestoreReservation PROVE (Leaving /\ Retired /\ Cleaned)'
<2>1. /\ pc = "restore" /\ pc' = CatchBlock
      /\ UNCHANGED <<inventory, held, roots, marked, staged, host, control>>
    BY <1>3 DEF RestoreReservation
<2> QED
    BY <1>0, <2>1, <1>3, Restoration DEF Leaving, Retired, Cleaned, Inventory,
      Adding, Recording, Removing, Retiring, CleaningUp, AddingSteps,
      RemovingSteps, RetiringSteps, Forward, Undoing, host
<1> USE DEF Leaving, Retired, Cleaned, Inventory, Adding, Recording, Removing,
    Retiring, CleaningUp, AddingSteps, RemovingSteps, RetiringSteps, Forward,
    Undoing, durable, inventory, host, control
<1>4. ASSUME NEW n \in Nodes, UpdatePolicy(n)
      PROVE  (Leaving /\ Retired /\ Cleaned)'
  BY <1>4, <1>0 DEF UpdatePolicy
<1>5. ASSUME NEW n \in Nodes, UpdatePolicyUnconfirmed(n)
      PROVE  (Leaving /\ Retired /\ Cleaned)'
  BY <1>5, <1>0 DEF UpdatePolicyUnconfirmed
<1>6. ASSUME NEW n \in Nodes, NEW failure \in {"failed", "cancelled"},
             UpdatePolicyThrows(n, failure)
      PROVE  (Leaving /\ Retired /\ Cleaned)'
  BY <1>6, <1>0 DEF UpdatePolicyThrows, Throws
<1>7. ASSUME NEW failure \in {"failed", "cancelled"}, StepThrows(failure)
      PROVE  (Leaving /\ Retired /\ Cleaned)'
  BY <1>7, <1>0 DEF StepThrows, Throws
<1>8. ASSUME NEW M \in SUBSET Inventory,
             NEW failure \in {"failed", "cancelled"},
             ConnectPeersThrows(M, failure)
      PROVE  (Leaving /\ Retired /\ Cleaned)'
  BY <1>8, <1>0 DEF ConnectPeersThrows, Throws
<1>9. ASSUME PoliciesUpdated PROVE (Leaving /\ Retired /\ Cleaned)'
  BY <1>9, <1>0 DEF PoliciesUpdated
<1>10. ASSUME NEW M \in SUBSET Inventory, ConnectPeers(M)
      PROVE  (Leaving /\ Retired /\ Cleaned)'
  BY <1>10, <1>0 DEF ConnectPeers, AfterPeers
<1>11. ASSUME Reset PROVE (Leaving /\ Retired /\ Cleaned)'
  BY <1>11, <1>0 DEF Reset, FaultIf, Failed, Restorable
<1>12. ASSUME Reconcile PROVE (Leaving /\ Retired /\ Cleaned)'
  BY <1>12, <1>0 DEF Reconcile
<1>13. ASSUME Settle PROVE (Leaving /\ Retired /\ Cleaned)'
  BY <1>13, <1>0 DEF Settle, Ends, NoTx
<1>14. ASSUME NEW n \in Nodes, UnlinkMarker(n)
      PROVE  (Leaving /\ Retired /\ Cleaned)'
  BY <1>14, <1>0 DEF UnlinkMarker
<1>15. ASSUME RootsRemoved PROVE (Leaving /\ Retired /\ Cleaned)'
  BY <1>15, <1>0 DEF RootsRemoved, AfterRoots
<1>16. ASSUME RemoveDirectory PROVE (Leaving /\ Retired /\ Cleaned)'
  BY <1>16, <1>0 DEF RemoveDirectory
<1>17. ASSUME NEW n \in Nodes, Reserve(n)
      PROVE  (Leaving /\ Retired /\ Cleaned)'
  BY <1>17, <1>0 DEF Reserve
<1>18. ASSUME NEW n \in Nodes, NEW failure \in {"failed", "cancelled"},
              ReserveThrows(n, failure)
      PROVE  (Leaving /\ Retired /\ Cleaned)'
  BY <1>18, <1>0 DEF ReserveThrows, Throws
<1>19. ASSUME NEW failure \in {"failed", "cancelled"}, EquipThrows(failure)
      PROVE  (Leaving /\ Retired /\ Cleaned)'
  BY <1>19, <1>0 DEF EquipThrows, Throws
<1>20. ASSUME Prepare PROVE (Leaving /\ Retired /\ Cleaned)'
  BY <1>20, <1>0 DEF Prepare
<1>21. ASSUME Claim PROVE (Leaving /\ Retired /\ Cleaned)'
  BY <1>21, <1>0 DEF Claim
<1>22. ASSUME ClaimThrows PROVE (Leaving /\ Retired /\ Cleaned)'
  BY <1>22, <1>0 DEF ClaimThrows
<1>23. ASSUME Equip PROVE (Leaving /\ Retired /\ Cleaned)'
  BY <1>23, <1>0 DEF Equip
<1>24. ASSUME StartNodes PROVE (Leaving /\ Retired /\ Cleaned)'
  BY <1>24, <1>0 DEF StartNodes
<1>25. ASSUME Synchronize PROVE (Leaving /\ Retired /\ Cleaned)'
  BY <1>25, <1>0 DEF Synchronize
<1>26. ASSUME Register PROVE (Leaving /\ Retired /\ Cleaned)'
  BY <1>26, <1>0 DEF Register
<1>27. ASSUME NEW R \in SUBSET tx.ids,
              NEW failure \in {"failed", "cancelled", "unconfirmed"},
              RegisterThrows(R, failure)
      PROVE  (Leaving /\ Retired /\ Cleaned)'
  BY <1>27, <1>0 DEF RegisterThrows, Throws
<1>28. ASSUME WriteLive PROVE (Leaving /\ Retired /\ Cleaned)'
  BY <1>28, <1>0 DEF WriteLive
<1>29. ASSUME WriteLiveThrows PROVE (Leaving /\ Retired /\ Cleaned)'
  BY <1>29, <1>0 DEF WriteLiveThrows
<1>30. ASSUME CommitRefused PROVE (Leaving /\ Retired /\ Cleaned)'
  BY <1>30, <1>0 DEF CommitRefused
<1>31. ASSUME Publish PROVE (Leaving /\ Retired /\ Cleaned)'
  BY <1>31, <1>0 DEF Publish
<1>32. ASSUME Revoke PROVE (Leaving /\ Retired /\ Cleaned)'
  BY <1>32, <1>0 DEF Revoke, FaultIf, Failed
<1>33. ASSUME StopCandidates PROVE (Leaving /\ Retired /\ Cleaned)'
  BY <1>33, <1>0 DEF StopCandidates, FaultIf, Failed
<1>34. ASSUME Unstage PROVE (Leaving /\ Retired /\ Cleaned)'
  BY <1>34, <1>0 DEF Unstage
<1> QED
  BY <1>1, <1>2, <1>3, <1>4, <1>5, <1>6, <1>7, <1>8, <1>9, <1>10, <1>11, <1>12,
      <1>13, <1>14, <1>15, <1>16, <1>17, <1>18, <1>19, <1>20, <1>21, <1>22,
      <1>23, <1>24, <1>25, <1>26, <1>27, <1>28, <1>29, <1>30, <1>31, <1>32,
      <1>33, <1>34 DEF AdditionStep, SharedStep, RootStep

-----------------------------------------------------------------------------
(* The record of a published addition.                                     *)

\* Recording the event of a published addition: the manifest stays, ...
LEMMA RecordIsListed ==
  ASSUME MutationInv, Recording, Record \/ RecordThrows
  PROVE  (ResourcesAreListed /\ PublishedSurvivesRecovery /\ LiveHasRoot)'
<1>0. /\ TypeOK /\ TxTypeOK /\ Shape /\ Recording /\ Inventory \subseteq Nodes
      /\ Len(gens) \in Nat \ {0} /\ Inventory \subseteq used
      /\ Recorded /\ ResourcesAreListed
      /\ PublishedSurvivesRecovery /\ LiveHasRoot
  BY InventoryType DEF MutationInv, StretchInv, CandidateInv, CoreInv, History,
      Inventory
<1> USE DEF Handler, Cleaning, Ending, TypeOK, TxTypeOK
<1> USE DEF Recorded, ResourcesAreListed, PublishedSurvivesRecovery,
    LiveHasRoot, Inventory, Adding, Recording, Removing, Retiring, CleaningUp,
    AddingSteps, RemovingSteps, RetiringSteps, Forward, Undoing, durable,
    inventory, host, control
<1>1. ASSUME Record
      PROVE  (ResourcesAreListed /\ PublishedSurvivesRecovery /\ LiveHasRoot)'
  BY <1>1, <1>0 DEF Record, Ends, NoTx, Live
<1>2. ASSUME RecordThrows
      PROVE  (ResourcesAreListed /\ PublishedSurvivesRecovery /\ LiveHasRoot)'
  BY <1>2, <1>0 DEF RecordThrows, Ends
<1> QED
  BY <1>1, <1>2

\* ... the generations and the leases stay, ...
LEMMA RecordKeepsHistory ==
  ASSUME MutationInv, Recording, Record \/ RecordThrows
  PROVE  (History /\ Leases)'
<1>0. /\ TypeOK /\ TxTypeOK /\ Shape /\ Recording /\ Inventory \subseteq Nodes
      /\ Len(gens) \in Nat \ {0} /\ Inventory \subseteq used
      /\ History /\ Leases
  BY InventoryType DEF MutationInv, StretchInv, CandidateInv, CoreInv, History,
      Inventory
<1> USE DEF Handler, Cleaning, Ending, TypeOK, TxTypeOK
<1> USE DEF History, Leases, IdsNeverReused, LeaseHonoured, Running,
    ReadersDrained, Inventory, Adding, Recording, Removing, Retiring,
    CleaningUp, AddingSteps, RemovingSteps, RetiringSteps, Forward, Undoing,
    durable, inventory, host, control
<1>1. ASSUME Record PROVE (History /\ Leases)'
  BY <1>1, <1>0 DEF Record, Ends, NoTx
<1>2. ASSUME RecordThrows PROVE (History /\ Leases)'
  BY <1>2, <1>0 DEF RecordThrows, Ends
<1> QED
  BY <1>1, <1>2

\* ... the run is consistent again, ...
LEMMA RecordSettles ==
  ASSUME MutationInv, Recording, Record \/ RecordThrows
  PROVE  (SettledIsConsistent /\ RecoveryIsComplete)'
<1>0. /\ TypeOK /\ TxTypeOK /\ Shape /\ Recording /\ Inventory \subseteq Nodes
      /\ Len(gens) \in Nat \ {0} /\ Inventory \subseteq used
      /\ Recorded /\ Drifted
  BY InventoryType DEF MutationInv, StretchInv, CandidateInv, CoreInv, History,
      Inventory
<1> USE DEF Handler, Cleaning, Ending, TypeOK, TxTypeOK
<1> USE DEF SettledIsConsistent, RecoveryIsComplete, Recorded, Drifted,
    Inventory, Adding, Recording, Removing, Retiring, CleaningUp, AddingSteps,
    RemovingSteps, RetiringSteps, Forward, Undoing, durable, inventory, host,
    control
<1>1. ASSUME Record PROVE (SettledIsConsistent /\ RecoveryIsComplete)'
  BY <1>1, <1>0 DEF Record, Ends, NoTx
<1>2. ASSUME RecordThrows PROVE (SettledIsConsistent /\ RecoveryIsComplete)'
  BY <1>2, <1>0 DEF RecordThrows, Ends
<1> QED
  BY <1>1, <1>2

\* ... and the handler is left.
LEMMA RecordEnds ==
  ASSUME MutationInv, Recording, Record \/ RecordThrows
  PROVE  StretchInv'
<1>0. /\ TypeOK /\ TxTypeOK /\ Shape /\ Recording /\ Inventory \subseteq Nodes
      /\ Len(gens) \in Nat \ {0} /\ Inventory \subseteq used
      /\ TRUE
  BY InventoryType DEF MutationInv, StretchInv, CandidateInv, CoreInv, History,
      Inventory
<1> USE DEF Handler, Cleaning, Ending, TypeOK, TxTypeOK
<1> USE DEF StretchInv, CandidateInv, Candidates, CandidateRoots,
    CandidateSupport, CandidateEntries, CandidateTraces, Recorded, Leaving,
    Retired, Drifted, Cleaned, Inventory, Adding, Recording, Removing,
    Retiring, CleaningUp, AddingSteps, RemovingSteps, RetiringSteps, Forward,
    Undoing, durable, inventory, host, control
<1>1. ASSUME Record PROVE StretchInv'
  BY <1>1, <1>0 DEF Record, Ends, NoTx
<1>2. ASSUME RecordThrows PROVE StretchInv'
  BY <1>2, <1>0 DEF RecordThrows, Ends
<1> QED
  BY <1>1, <1>2

-----------------------------------------------------------------------------
(* The beginning of a handler.                                             *)

\* A handler that begins has changed no resource, ...
LEMMA BeginningIsListed ==
  ASSUME MutationInv, Begins
  PROVE  (ResourcesAreListed /\ PublishedSurvivesRecovery /\ LiveHasRoot)'
<1>0. /\ TypeOK /\ TxTypeOK /\ Shape /\ Inventory \subseteq Nodes
      /\ Len(gens) \in Nat \ {0} /\ Inventory \subseteq used
      /\ SettledIsConsistent /\ ResourcesAreListed
      /\ PublishedSurvivesRecovery /\ LiveHasRoot
  BY InventoryType DEF MutationInv, StretchInv, CandidateInv, CoreInv, History,
      Inventory
<1> USE DEF Handler, Cleaning, Ending, TypeOK, TxTypeOK
<1> USE DEF ResourcesAreListed, PublishedSurvivesRecovery, LiveHasRoot,
    SettledIsConsistent, Inventory, Adding, Recording, Removing, Retiring,
    CleaningUp, AddingSteps, RemovingSteps, RetiringSteps, Forward, Undoing,
    durable, inventory, host, control
<1>1. ASSUME NEW S \in SUBSET Nodes, NEW masternode \in BOOLEAN,
             NEW expands \in BOOLEAN, BeginAdd(S, masternode, expands)
      PROVE  (ResourcesAreListed /\ PublishedSurvivesRecovery /\ LiveHasRoot)'
  BY <1>1, <1>0 DEF BeginAdd, NoTx, Live
<1>2. ASSUME NEW S \in SUBSET Nodes, StageThrows(S)
      PROVE  (ResourcesAreListed /\ PublishedSurvivesRecovery /\ LiveHasRoot)'
  BY <1>2, <1>0 DEF StageThrows, NoTx, Live
<1>3. ASSUME NEW S \in SUBSET Nodes, BeginRemove(S)
      PROVE  (ResourcesAreListed /\ PublishedSurvivesRecovery /\ LiveHasRoot)'
  BY <1>3, <1>0 DEF BeginRemove, NoTx, Live
<1> QED
  BY <1>1, <1>2, <1>3 DEF Begins

\* ... no generation and no lease, ...
LEMMA BeginningKeepsHistory ==
  ASSUME MutationInv, Begins
  PROVE  (History /\ Leases)'
<1>0. /\ TypeOK /\ TxTypeOK /\ Shape /\ Inventory \subseteq Nodes
      /\ Len(gens) \in Nat \ {0} /\ Inventory \subseteq used
      /\ History /\ Leases
  BY InventoryType DEF MutationInv, StretchInv, CandidateInv, CoreInv, History,
      Inventory
<1> USE DEF Handler, Cleaning, Ending, TypeOK, TxTypeOK
<1>1. ASSUME NEW S \in SUBSET Nodes, NEW masternode \in BOOLEAN,
             NEW expands \in BOOLEAN, BeginAdd(S, masternode, expands)
      PROVE  (History /\ Leases)'
<2>1. Running /\ Running' /\ pc' # "retire"
    BY <1>1, <1>0 DEF BeginAdd, NoTx, Running, Shape
<2>2. UNCHANGED <<gens, used, held, support>>
    BY <1>1 DEF BeginAdd, host
<2> QED
    BY <1>0, <2>1, <2>2, LeasesFrame
<1>2. ASSUME NEW S \in SUBSET Nodes, StageThrows(S)
      PROVE  (History /\ Leases)'
<2>1. Running /\ Running' /\ pc' # "retire"
    BY <1>2, <1>0 DEF StageThrows, NoTx, Running, Shape
<2>2. UNCHANGED <<gens, used, held, support>>
    BY <1>2 DEF StageThrows, host
<2> QED
    BY <1>0, <2>1, <2>2, LeasesFrame
<1>3. ASSUME NEW S \in SUBSET Nodes, BeginRemove(S)
      PROVE  (History /\ Leases)'
<2>1. Running /\ Running' /\ pc' # "retire"
    BY <1>3, <1>0 DEF BeginRemove, NoTx, Running, Shape
<2>2. UNCHANGED <<gens, used, held, support>>
    BY <1>3 DEF BeginRemove, host
<2> QED
    BY <1>0, <2>1, <2>2, LeasesFrame
<1> QED
  BY <1>1, <1>2, <1>3 DEF Begins

\* ... the run is not settled any more, ...
LEMMA BeginningIsUnsettled ==
  ASSUME MutationInv, Begins
  PROVE  (SettledIsConsistent /\ RecoveryIsComplete)'
<1>0. /\ TypeOK /\ TxTypeOK /\ Shape /\ Inventory \subseteq Nodes
      /\ Len(gens) \in Nat \ {0} /\ Inventory \subseteq used
      /\ TRUE
  BY InventoryType DEF MutationInv, StretchInv, CandidateInv, CoreInv, History,
      Inventory
<1> USE DEF Handler, Cleaning, Ending, TypeOK, TxTypeOK
<1> USE DEF SettledIsConsistent, RecoveryIsComplete, Inventory, Adding,
    Recording, Removing, Retiring, CleaningUp, AddingSteps, RemovingSteps,
    RetiringSteps, Forward, Undoing, durable, inventory, host, control
<1>1. ASSUME NEW S \in SUBSET Nodes, NEW masternode \in BOOLEAN,
             NEW expands \in BOOLEAN, BeginAdd(S, masternode, expands)
      PROVE  (SettledIsConsistent /\ RecoveryIsComplete)'
  BY <1>1, <1>0 DEF BeginAdd, NoTx
<1>2. ASSUME NEW S \in SUBSET Nodes, StageThrows(S)
      PROVE  (SettledIsConsistent /\ RecoveryIsComplete)'
  BY <1>2, <1>0 DEF StageThrows, NoTx
<1>3. ASSUME NEW S \in SUBSET Nodes, BeginRemove(S)
      PROVE  (SettledIsConsistent /\ RecoveryIsComplete)'
  BY <1>3, <1>0 DEF BeginRemove, NoTx
<1> QED
  BY <1>1, <1>2, <1>3 DEF Begins

\* ... and a settled run is where its stretch may start from.
LEMMA BeginningStarts ==
  ASSUME MutationInv, Begins
  PROVE  StretchInv'
<1>0. /\ TypeOK /\ TxTypeOK /\ Shape /\ Inventory \subseteq Nodes
      /\ Len(gens) \in Nat \ {0} /\ Inventory \subseteq used
      /\ SettledIsConsistent /\ Drifted
  BY InventoryType DEF MutationInv, StretchInv, CandidateInv, CoreInv, History,
      Inventory
<1> USE DEF Handler, Cleaning, Ending, TypeOK, TxTypeOK
<1> USE DEF StretchInv, CandidateInv, Candidates, CandidateRoots,
    CandidateSupport, CandidateEntries, CandidateTraces, Recorded, Leaving,
    Retired, Drifted, Cleaned, SettledIsConsistent, Inventory, Adding,
    Recording, Removing, Retiring, CleaningUp, AddingSteps, RemovingSteps,
    RetiringSteps, Forward, Undoing, durable, inventory, host, control
<1>1. ASSUME NEW S \in SUBSET Nodes, NEW masternode \in BOOLEAN,
             NEW expands \in BOOLEAN, BeginAdd(S, masternode, expands)
      PROVE  StretchInv'
  BY <1>1, <1>0 DEF BeginAdd, NoTx, PriorManifest, Live
<1>2. ASSUME NEW S \in SUBSET Nodes, StageThrows(S)
      PROVE  StretchInv'
  BY <1>2, <1>0 DEF StageThrows, NoTx, PriorManifest, Live
<1>3. ASSUME NEW S \in SUBSET Nodes, BeginRemove(S)
      PROVE  StretchInv'
  BY <1>3, <1>0 DEF BeginRemove, NoTx, PriorManifest, Live
<1> QED
  BY <1>1, <1>2, <1>3 DEF Begins


-----------------------------------------------------------------------------
(* A removal up to its publication.                                        *)

\* Before its publication a removal changes the manifest, policies and peers of
\* RemoveRuntimeNodesTransactional and nothing else.
LEMMA LeavingKept ==
  ASSUME MutationInv, Removing, RemovalStep
  PROVE  Leaving'
<1>0. /\ TypeOK /\ TxTypeOK /\ Shape /\ Removing /\ Inventory \subseteq Nodes
      /\ Len(gens) \in Nat \ {0} /\ Inventory \subseteq used
      /\ Leaving
  BY InventoryType DEF MutationInv, StretchInv, CandidateInv, CoreInv, History,
      Inventory
<1> USE DEF Handler, Cleaning, Ending, TypeOK, TxTypeOK
<1>1. ASSUME Reconcile PROVE Leaving'
<2>1. RollbackManifest = Live(Inventory)
  <3>1. tx.acquired \ tx.verified = {}
    BY <1>0 DEF Leaving
  <3> QED
    BY <3>1, WithNothing, Zenon DEF RollbackManifest, PriorManifest
<2>2. /\ pc = "reconcile" /\ pc' = "settle" /\ Inventory' = Inventory
      /\ UNCHANGED <<roots, staged, docsAhead, support, chain>>
    BY <1>1, <1>0 DEF Reconcile, Removing, Inventory, host
<2>3. \/ manifest' = Live(Inventory) /\ tx' = tx
      \/ /\ manifest' \in {manifest, Live(Inventory)}
         /\ tx' = [tx EXCEPT !.errors = TRUE]
    BY <1>1, <2>1, Zenon DEF Reconcile
<2>4. DOMAIN manifest' = Inventory
    BY <1>0, <2>3 DEF Leaving, Live
<2>5. tx'.errors \/ manifest' = Live(Inventory)
    BY <1>0, <2>3
<2>6. /\ tx'.ids = tx.ids /\ tx'.acquired = tx.acquired
      /\ tx'.verified = tx.verified /\ tx'.unrestored = tx.unrestored
      /\ tx'.todo = tx.todo /\ tx'.current = tx.current
    BY <1>0, <2>3
<2> QED
    BY <1>0, <2>2, <2>4, <2>5, <2>6 DEF Leaving
<1> USE DEF Leaving, Inventory, Adding, Recording, Removing, Retiring,
    CleaningUp, AddingSteps, RemovingSteps, RetiringSteps, Forward, Undoing,
    durable, inventory, host, control
<1>2. ASSUME NEW n \in Nodes, UpdatePolicy(n)
      PROVE  Leaving'
  BY <1>2, <1>0 DEF UpdatePolicy
<1>3. ASSUME NEW n \in Nodes, UpdatePolicyUnconfirmed(n)
      PROVE  Leaving'
  BY <1>3, <1>0 DEF UpdatePolicyUnconfirmed
<1>4. ASSUME NEW n \in Nodes, NEW failure \in {"failed", "cancelled"},
             UpdatePolicyThrows(n, failure)
      PROVE  Leaving'
  BY <1>4, <1>0 DEF UpdatePolicyThrows, Throws
<1>5. ASSUME NEW failure \in {"failed", "cancelled"}, StepThrows(failure)
      PROVE  Leaving'
  BY <1>5, <1>0 DEF StepThrows, Throws
<1>6. ASSUME NEW M \in SUBSET Inventory,
             NEW failure \in {"failed", "cancelled"},
             ConnectPeersThrows(M, failure)
      PROVE  Leaving'
  BY <1>6, <1>0 DEF ConnectPeersThrows, Throws
<1>7. ASSUME PoliciesUpdated PROVE Leaving'
  BY <1>7, <1>0 DEF PoliciesUpdated
<1>8. ASSUME NEW M \in SUBSET Inventory, ConnectPeers(M)
      PROVE  Leaving'
  BY <1>8, <1>0 DEF ConnectPeers, AfterPeers
<1>9. ASSUME Reset PROVE Leaving'
  BY <1>9, <1>0 DEF Reset, FaultIf, Failed, Restorable
<1>10. ASSUME Settle PROVE Leaving'
  BY <1>10, <1>0 DEF Settle, Ends, NoTx
<1>11. ASSUME Mark PROVE Leaving'
  BY <1>11, <1>0 DEF Mark, MarkedManifest, PriorManifest, With, Live
<1>12. ASSUME MarkThrows PROVE Leaving'
  BY <1>12, <1>0 DEF MarkThrows, MarkedManifest, PriorManifest, With, Live
<1>13. ASSUME Unmark PROVE Leaving'
  BY <1>13, <1>0 DEF Unmark, Ends, NoTx, PriorManifest, Live
<1>14. ASSUME PublishRemoval PROVE Leaving'
  BY <1>14, <1>0 DEF PublishRemoval
<1> QED
  BY <1>1, <1>2, <1>3, <1>4, <1>5, <1>6, <1>7, <1>8, <1>9, <1>10, <1>11, <1>12,
      <1>13, <1>14 DEF RemovalStep, SharedStep

\* A removal keeps the entries of the nodes that leave.
LEMMA RemovalIsListed ==
  ASSUME MutationInv, Removing, RemovalStep
  PROVE  (ResourcesAreListed /\ PublishedSurvivesRecovery /\ LiveHasRoot)'
<1>0. /\ TypeOK /\ TxTypeOK /\ Shape /\ Removing /\ Inventory \subseteq Nodes
      /\ Len(gens) \in Nat \ {0} /\ Inventory \subseteq used
      /\ Leaving /\ ResourcesAreListed
      /\ PublishedSurvivesRecovery /\ LiveHasRoot
  BY InventoryType DEF MutationInv, StretchInv, CandidateInv, CoreInv, History,
      Inventory
<1> USE DEF Handler, Cleaning, Ending, TypeOK, TxTypeOK
<1> USE DEF Leaving, ResourcesAreListed, PublishedSurvivesRecovery,
    LiveHasRoot, Inventory, Adding, Recording, Removing, Retiring, CleaningUp,
    AddingSteps, RemovingSteps, RetiringSteps, Forward, Undoing, durable,
    inventory, host, control
<1>1. ASSUME NEW n \in Nodes, UpdatePolicy(n)
      PROVE  (ResourcesAreListed /\ PublishedSurvivesRecovery /\ LiveHasRoot)'
  BY <1>1, <1>0 DEF UpdatePolicy
<1>2. ASSUME NEW n \in Nodes, UpdatePolicyUnconfirmed(n)
      PROVE  (ResourcesAreListed /\ PublishedSurvivesRecovery /\ LiveHasRoot)'
  BY <1>2, <1>0 DEF UpdatePolicyUnconfirmed
<1>3. ASSUME NEW n \in Nodes, NEW failure \in {"failed", "cancelled"},
             UpdatePolicyThrows(n, failure)
      PROVE  (ResourcesAreListed /\ PublishedSurvivesRecovery /\ LiveHasRoot)'
  BY <1>3, <1>0 DEF UpdatePolicyThrows, Throws
<1>4. ASSUME NEW failure \in {"failed", "cancelled"}, StepThrows(failure)
      PROVE  (ResourcesAreListed /\ PublishedSurvivesRecovery /\ LiveHasRoot)'
  BY <1>4, <1>0 DEF StepThrows, Throws
<1>5. ASSUME NEW M \in SUBSET Inventory,
             NEW failure \in {"failed", "cancelled"},
             ConnectPeersThrows(M, failure)
      PROVE  (ResourcesAreListed /\ PublishedSurvivesRecovery /\ LiveHasRoot)'
  BY <1>5, <1>0 DEF ConnectPeersThrows, Throws
<1>6. ASSUME PoliciesUpdated
      PROVE  (ResourcesAreListed /\ PublishedSurvivesRecovery /\ LiveHasRoot)'
  BY <1>6, <1>0 DEF PoliciesUpdated
<1>7. ASSUME NEW M \in SUBSET Inventory, ConnectPeers(M)
      PROVE  (ResourcesAreListed /\ PublishedSurvivesRecovery /\ LiveHasRoot)'
  BY <1>7, <1>0 DEF ConnectPeers, AfterPeers
<1>8. ASSUME Reset
      PROVE  (ResourcesAreListed /\ PublishedSurvivesRecovery /\ LiveHasRoot)'
  BY <1>8, <1>0 DEF Reset, FaultIf, Failed, Restorable
<1>9. ASSUME Reconcile
      PROVE  (ResourcesAreListed /\ PublishedSurvivesRecovery /\ LiveHasRoot)'
  BY <1>9, <1>0 DEF Reconcile, RollbackManifest, PriorManifest, With, Live
<1>10. ASSUME Settle
      PROVE  (ResourcesAreListed /\ PublishedSurvivesRecovery /\ LiveHasRoot)'
  BY <1>10, <1>0 DEF Settle, Ends, NoTx
<1>11. ASSUME Mark
      PROVE  (ResourcesAreListed /\ PublishedSurvivesRecovery /\ LiveHasRoot)'
  BY <1>11, <1>0 DEF Mark, MarkedManifest, PriorManifest, With, Live
<1>12. ASSUME MarkThrows
      PROVE  (ResourcesAreListed /\ PublishedSurvivesRecovery /\ LiveHasRoot)'
  BY <1>12, <1>0 DEF MarkThrows, MarkedManifest, PriorManifest, With, Live
<1>13. ASSUME Unmark
      PROVE  (ResourcesAreListed /\ PublishedSurvivesRecovery /\ LiveHasRoot)'
  BY <1>13, <1>0 DEF Unmark, Ends, NoTx, PriorManifest, Live
<1>14. ASSUME PublishRemoval
      PROVE  (ResourcesAreListed /\ PublishedSurvivesRecovery /\ LiveHasRoot)'
  BY <1>14, <1>0 DEF PublishRemoval
<1> QED
  BY <1>1, <1>2, <1>3, <1>4, <1>5, <1>6, <1>7, <1>8, <1>9, <1>10, <1>11, <1>12,
      <1>13, <1>14 DEF RemovalStep, SharedStep

\* A removal that fails undoes the policies and the peers it changed.
LEMMA RemovalDrifts ==
  ASSUME MutationInv, Removing, RemovalStep
  PROVE  Drifted'
<1>0. /\ TypeOK /\ TxTypeOK /\ Shape /\ Removing /\ Inventory \subseteq Nodes
      /\ Len(gens) \in Nat \ {0} /\ Inventory \subseteq used
      /\ Drifted
  BY InventoryType DEF MutationInv, StretchInv, CandidateInv, CoreInv, History,
      Inventory
<1> USE DEF Handler, Cleaning, Ending, TypeOK, TxTypeOK
<1> USE DEF Drifted, Inventory, Adding, Recording, Removing, Retiring,
    CleaningUp, AddingSteps, RemovingSteps, RetiringSteps, Forward, Undoing,
    durable, inventory, host, control
<1>1. ASSUME NEW n \in Nodes, UpdatePolicy(n)
      PROVE  Drifted'
  BY <1>1, <1>0 DEF UpdatePolicy
<1>2. ASSUME NEW n \in Nodes, UpdatePolicyUnconfirmed(n)
      PROVE  Drifted'
  BY <1>2, <1>0 DEF UpdatePolicyUnconfirmed
<1>3. ASSUME NEW n \in Nodes, NEW failure \in {"failed", "cancelled"},
             UpdatePolicyThrows(n, failure)
      PROVE  Drifted'
  BY <1>3, <1>0 DEF UpdatePolicyThrows, Throws
<1>4. ASSUME NEW failure \in {"failed", "cancelled"}, StepThrows(failure)
      PROVE  Drifted'
  BY <1>4, <1>0 DEF StepThrows, Throws
<1>5. ASSUME NEW M \in SUBSET Inventory,
             NEW failure \in {"failed", "cancelled"},
             ConnectPeersThrows(M, failure)
      PROVE  Drifted'
  BY <1>5, <1>0 DEF ConnectPeersThrows, Throws
<1>6. ASSUME PoliciesUpdated PROVE Drifted'
  BY <1>6, <1>0 DEF PoliciesUpdated
<1>7. ASSUME NEW M \in SUBSET Inventory, ConnectPeers(M)
      PROVE  Drifted'
  BY <1>7, <1>0 DEF ConnectPeers, AfterPeers
<1>8. ASSUME Reset PROVE Drifted'
  BY <1>8, <1>0, ZenonT(40) DEF Reset, FaultIf, Failed, Restorable
<1>9. ASSUME Reconcile PROVE Drifted'
  BY <1>9, <1>0 DEF Reconcile
<1>10. ASSUME Settle PROVE Drifted'
  BY <1>10, <1>0 DEF Settle, Ends, NoTx
<1>11. ASSUME Mark PROVE Drifted'
  BY <1>11, <1>0 DEF Mark
<1>12. ASSUME MarkThrows PROVE Drifted'
  BY <1>12, <1>0 DEF MarkThrows
<1>13. ASSUME Unmark PROVE Drifted'
  BY <1>13, <1>0 DEF Unmark, Ends, NoTx
<1>14. ASSUME PublishRemoval PROVE Drifted'
  BY <1>14, <1>0 DEF PublishRemoval
<1> QED
  BY <1>1, <1>2, <1>3, <1>4, <1>5, <1>6, <1>7, <1>8, <1>9, <1>10, <1>11, <1>12,
      <1>13, <1>14 DEF RemovalStep, SharedStep

\* A removal publishes a part of its inventory: no id comes back.
LEMMA RemovalKeepsHistory ==
  ASSUME MutationInv, Removing, RemovalStep
  PROVE  (History /\ Leases)'
<1>0. /\ TypeOK /\ TxTypeOK /\ Shape /\ Removing /\ Inventory \subseteq Nodes
      /\ Len(gens) \in Nat \ {0} /\ Inventory \subseteq used
      /\ History /\ Leases
  BY InventoryType DEF MutationInv, StretchInv, CandidateInv, CoreInv, History,
      Inventory
<1> USE DEF Handler, Cleaning, Ending, TypeOK, TxTypeOK
<1>1. ASSUME PublishRemoval PROVE (History /\ Leases)'
<2> DEFINE S == Inventory \ tx.ids
<2>1. /\ gens' = Append(gens, S) /\ S \in SUBSET Nodes
      /\ UNCHANGED <<used, held, support>>
      /\ Running /\ Running' /\ pc' = "drain"
    BY <1>1, <1>0 DEF PublishRemoval, durable, Running, Removing
<2>2. /\ Len(gens') = Len(gens) + 1 /\ Inventory' = S
      /\ gens'[Len(gens) + 1] = S
      /\ \A i \in DOMAIN gens : gens'[i] = gens[i]
      /\ DOMAIN gens' = DOMAIN gens \cup {Len(gens) + 1}
    BY <1>0, <2>1, AppendGeneration DEF Inventory
<2>3. DOMAIN gens = 1..Len(gens) /\ Inventory = gens[Len(gens)]
    BY <1>0 DEF Inventory
<2>4. S \subseteq support
    BY <1>0, <2>1 DEF Leases
<2>5. \A i \in DOMAIN gens' : gens'[i] \subseteq used'
    BY <1>0, <2>1, <2>2, <2>3 DEF History
<2>6. ASSUME NEW i \in DOMAIN gens', NEW j \in DOMAIN gens',
             NEW k \in DOMAIN gens', i < j, j < k
      PROVE  gens'[i] \cap gens'[k] \subseteq gens'[j]
  <3>1. i \in DOMAIN gens /\ j \in DOMAIN gens
    BY <1>0, <2>2, <2>3, <2>6
  <3>2. CASE k \in DOMAIN gens
    BY <1>0, <2>2, <2>6, <3>1, <3>2 DEF History, IdsNeverReused
  <3>3. CASE k = Len(gens) + 1
    <4>1. j < Len(gens) => gens[i] \cap gens[Len(gens)] \subseteq gens[j]
      BY <1>0, <2>3, <2>6, <3>1 DEF History, IdsNeverReused
    <4>2. j < Len(gens) \/ j = Len(gens)
      BY <1>0, <2>3, <3>1
    <4> QED
      BY <2>2, <2>3, <3>1, <3>3, <4>1, <4>2
  <3> QED
    BY <2>2, <3>2, <3>3
<2>7. LeaseHonoured'
    BY <1>0, <2>1, <2>2, <2>3, <2>4 DEF Leases, LeaseHonoured
<2> QED
    BY <2>1, <2>2, <2>4, <2>5, <2>6, <2>7 DEF History, IdsNeverReused, Leases
<1> USE DEF History, Leases, IdsNeverReused, LeaseHonoured, Running,
    ReadersDrained, Inventory, Adding, Recording, Removing, Retiring,
    CleaningUp, AddingSteps, RemovingSteps, RetiringSteps, Forward, Undoing,
    durable, inventory, host, control
<1>2. ASSUME NEW n \in Nodes, UpdatePolicy(n)
      PROVE  (History /\ Leases)'
  BY <1>2, <1>0 DEF UpdatePolicy
<1>3. ASSUME NEW n \in Nodes, UpdatePolicyUnconfirmed(n)
      PROVE  (History /\ Leases)'
  BY <1>3, <1>0 DEF UpdatePolicyUnconfirmed
<1>4. ASSUME NEW n \in Nodes, NEW failure \in {"failed", "cancelled"},
             UpdatePolicyThrows(n, failure)
      PROVE  (History /\ Leases)'
  BY <1>4, <1>0 DEF UpdatePolicyThrows, Throws
<1>5. ASSUME NEW failure \in {"failed", "cancelled"}, StepThrows(failure)
      PROVE  (History /\ Leases)'
  BY <1>5, <1>0 DEF StepThrows, Throws
<1>6. ASSUME NEW M \in SUBSET Inventory,
             NEW failure \in {"failed", "cancelled"},
             ConnectPeersThrows(M, failure)
      PROVE  (History /\ Leases)'
  BY <1>6, <1>0 DEF ConnectPeersThrows, Throws
<1>7. ASSUME PoliciesUpdated PROVE (History /\ Leases)'
  BY <1>7, <1>0 DEF PoliciesUpdated
<1>8. ASSUME NEW M \in SUBSET Inventory, ConnectPeers(M)
      PROVE  (History /\ Leases)'
  BY <1>8, <1>0 DEF ConnectPeers, AfterPeers
<1>9. ASSUME Reset PROVE (History /\ Leases)'
  BY <1>9, <1>0 DEF Reset, FaultIf, Failed, Restorable
<1>10. ASSUME Reconcile PROVE (History /\ Leases)'
  BY <1>10, <1>0 DEF Reconcile
<1>11. ASSUME Settle PROVE (History /\ Leases)'
  BY <1>11, <1>0 DEF Settle, Ends, NoTx
<1>12. ASSUME Mark PROVE (History /\ Leases)'
  BY <1>12, <1>0 DEF Mark
<1>13. ASSUME MarkThrows PROVE (History /\ Leases)'
  BY <1>13, <1>0 DEF MarkThrows
<1>14. ASSUME Unmark PROVE (History /\ Leases)'
  BY <1>14, <1>0 DEF Unmark, Ends, NoTx
<1> QED
  BY <1>1, <1>2, <1>3, <1>4, <1>5, <1>6, <1>7, <1>8, <1>9, <1>10, <1>11, <1>12,
      <1>13, <1>14 DEF RemovalStep, SharedStep

\* A removal that fails definitely leaves the state its inventory tells; one
\* that publishes leaves to the retirement nodes that are all still there.
LEMMA RemovalSettles ==
  ASSUME MutationInv, Removing, RemovalStep
  PROVE  (SettledIsConsistent /\ Retired /\ RecoveryIsComplete)'
<1>0. /\ TypeOK /\ TxTypeOK /\ Shape /\ Removing /\ Inventory \subseteq Nodes
      /\ Len(gens) \in Nat \ {0} /\ Inventory \subseteq used
      /\ Leaving /\ Drifted
  BY InventoryType DEF MutationInv, StretchInv, CandidateInv, CoreInv, History,
      Inventory
<1> USE DEF Handler, Cleaning, Ending, TypeOK, TxTypeOK
<1>1. ASSUME PublishRemoval
      PROVE  (SettledIsConsistent /\ Retired /\ RecoveryIsComplete)'
<2>1. Inventory' = Inventory \ tx.ids
    BY <1>1, <1>0, AppendGeneration DEF PublishRemoval
<2>2. /\ pc = "publish" /\ pc' = "drain"
      /\ tx' = [tx EXCEPT !.published = TRUE]
      /\ UNCHANGED <<roots, manifest, staged, docsAhead, support, chain>>
    BY <1>1 DEF PublishRemoval, durable
<2> QED
    BY <1>0, <2>1, <2>2 DEF Leaving, Retired, SettledIsConsistent,
        RecoveryIsComplete
<1> USE DEF Leaving, Drifted, SettledIsConsistent, Retired, RecoveryIsComplete,
    Inventory, Adding, Recording, Removing, Retiring, CleaningUp, AddingSteps,
    RemovingSteps, RetiringSteps, Forward, Undoing, durable, inventory, host,
    control
<1>2. ASSUME NEW n \in Nodes, UpdatePolicy(n)
      PROVE  (SettledIsConsistent /\ Retired /\ RecoveryIsComplete)'
  BY <1>2, <1>0 DEF UpdatePolicy
<1>3. ASSUME NEW n \in Nodes, UpdatePolicyUnconfirmed(n)
      PROVE  (SettledIsConsistent /\ Retired /\ RecoveryIsComplete)'
  BY <1>3, <1>0 DEF UpdatePolicyUnconfirmed
<1>4. ASSUME NEW n \in Nodes, NEW failure \in {"failed", "cancelled"},
             UpdatePolicyThrows(n, failure)
      PROVE  (SettledIsConsistent /\ Retired /\ RecoveryIsComplete)'
  BY <1>4, <1>0 DEF UpdatePolicyThrows, Throws
<1>5. ASSUME NEW failure \in {"failed", "cancelled"}, StepThrows(failure)
      PROVE  (SettledIsConsistent /\ Retired /\ RecoveryIsComplete)'
  BY <1>5, <1>0 DEF StepThrows, Throws
<1>6. ASSUME NEW M \in SUBSET Inventory,
             NEW failure \in {"failed", "cancelled"},
             ConnectPeersThrows(M, failure)
      PROVE  (SettledIsConsistent /\ Retired /\ RecoveryIsComplete)'
  BY <1>6, <1>0 DEF ConnectPeersThrows, Throws
<1>7. ASSUME PoliciesUpdated
      PROVE  (SettledIsConsistent /\ Retired /\ RecoveryIsComplete)'
  BY <1>7, <1>0 DEF PoliciesUpdated
<1>8. ASSUME NEW M \in SUBSET Inventory, ConnectPeers(M)
      PROVE  (SettledIsConsistent /\ Retired /\ RecoveryIsComplete)'
  BY <1>8, <1>0 DEF ConnectPeers, AfterPeers
<1>9. ASSUME Reset
      PROVE  (SettledIsConsistent /\ Retired /\ RecoveryIsComplete)'
  BY <1>9, <1>0 DEF Reset, FaultIf, Failed, Restorable
<1>10. ASSUME Reconcile
      PROVE  (SettledIsConsistent /\ Retired /\ RecoveryIsComplete)'
  BY <1>10, <1>0 DEF Reconcile, RollbackManifest, PriorManifest, With, Live
<1>11. ASSUME Settle
      PROVE  (SettledIsConsistent /\ Retired /\ RecoveryIsComplete)'
  BY <1>11, <1>0 DEF Settle, Ends, NoTx
<1>12. ASSUME Mark
      PROVE  (SettledIsConsistent /\ Retired /\ RecoveryIsComplete)'
  BY <1>12, <1>0 DEF Mark, MarkedManifest, PriorManifest, With, Live
<1>13. ASSUME MarkThrows
      PROVE  (SettledIsConsistent /\ Retired /\ RecoveryIsComplete)'
  BY <1>13, <1>0 DEF MarkThrows, MarkedManifest, PriorManifest, With, Live
<1>14. ASSUME Unmark
      PROVE  (SettledIsConsistent /\ Retired /\ RecoveryIsComplete)'
  BY <1>14, <1>0 DEF Unmark, Ends, NoTx, PriorManifest, Live
<1> QED
  BY <1>1, <1>2, <1>3, <1>4, <1>5, <1>6, <1>7, <1>8, <1>9, <1>10, <1>11, <1>12,
      <1>13, <1>14 DEF RemovalStep, SharedStep

\* A removal turns into no addition and no cleanup.
LEMMA RemovalIsNoAddition ==
  ASSUME MutationInv, Removing, RemovalStep
  PROVE  (CandidateInv /\ Recorded /\ Cleaned)'
<1>0. /\ TypeOK /\ TxTypeOK /\ Shape /\ Removing /\ Inventory \subseteq Nodes
      /\ Len(gens) \in Nat \ {0} /\ Inventory \subseteq used
      /\ TRUE
  BY InventoryType DEF MutationInv, StretchInv, CandidateInv, CoreInv, History,
      Inventory
<1> USE DEF Handler, Cleaning, Ending, TypeOK, TxTypeOK
<1> USE DEF CandidateInv, Candidates, CandidateRoots, CandidateSupport,
    CandidateEntries, CandidateTraces, Recorded, Cleaned, Inventory, Adding,
    Recording, Removing, Retiring, CleaningUp, AddingSteps, RemovingSteps,
    RetiringSteps, Forward, Undoing, durable, inventory, host, control
<1>1. ASSUME NEW n \in Nodes, UpdatePolicy(n)
      PROVE  (CandidateInv /\ Recorded /\ Cleaned)'
  BY <1>1, <1>0 DEF UpdatePolicy
<1>2. ASSUME NEW n \in Nodes, UpdatePolicyUnconfirmed(n)
      PROVE  (CandidateInv /\ Recorded /\ Cleaned)'
  BY <1>2, <1>0 DEF UpdatePolicyUnconfirmed
<1>3. ASSUME NEW n \in Nodes, NEW failure \in {"failed", "cancelled"},
             UpdatePolicyThrows(n, failure)
      PROVE  (CandidateInv /\ Recorded /\ Cleaned)'
  BY <1>3, <1>0 DEF UpdatePolicyThrows, Throws
<1>4. ASSUME NEW failure \in {"failed", "cancelled"}, StepThrows(failure)
      PROVE  (CandidateInv /\ Recorded /\ Cleaned)'
  BY <1>4, <1>0 DEF StepThrows, Throws
<1>5. ASSUME NEW M \in SUBSET Inventory,
             NEW failure \in {"failed", "cancelled"},
             ConnectPeersThrows(M, failure)
      PROVE  (CandidateInv /\ Recorded /\ Cleaned)'
  BY <1>5, <1>0 DEF ConnectPeersThrows, Throws
<1>6. ASSUME PoliciesUpdated PROVE (CandidateInv /\ Recorded /\ Cleaned)'
  BY <1>6, <1>0 DEF PoliciesUpdated
<1>7. ASSUME NEW M \in SUBSET Inventory, ConnectPeers(M)
      PROVE  (CandidateInv /\ Recorded /\ Cleaned)'
  BY <1>7, <1>0 DEF ConnectPeers, AfterPeers
<1>8. ASSUME Reset PROVE (CandidateInv /\ Recorded /\ Cleaned)'
  BY <1>8, <1>0 DEF Reset, FaultIf, Failed, Restorable
<1>9. ASSUME Reconcile PROVE (CandidateInv /\ Recorded /\ Cleaned)'
  BY <1>9, <1>0 DEF Reconcile
<1>10. ASSUME Settle PROVE (CandidateInv /\ Recorded /\ Cleaned)'
  BY <1>10, <1>0 DEF Settle, Ends, NoTx
<1>11. ASSUME Mark PROVE (CandidateInv /\ Recorded /\ Cleaned)'
  BY <1>11, <1>0 DEF Mark
<1>12. ASSUME MarkThrows PROVE (CandidateInv /\ Recorded /\ Cleaned)'
  BY <1>12, <1>0 DEF MarkThrows
<1>13. ASSUME Unmark PROVE (CandidateInv /\ Recorded /\ Cleaned)'
  BY <1>13, <1>0 DEF Unmark, Ends, NoTx
<1>14. ASSUME PublishRemoval PROVE (CandidateInv /\ Recorded /\ Cleaned)'
  BY <1>14, <1>0 DEF PublishRemoval
<1> QED
  BY <1>1, <1>2, <1>3, <1>4, <1>5, <1>6, <1>7, <1>8, <1>9, <1>10, <1>11, <1>12,
      <1>13, <1>14 DEF RemovalStep, SharedStep

-----------------------------------------------------------------------------
(* The retirement of the nodes that left.                                  *)

\* The retirement destroys the nodes that left, and those only.
LEMMA RetirementKept ==
  ASSUME MutationInv, Retiring, RetirementStep
  PROVE  (Retired /\ Drifted)'
<1>0. /\ TypeOK /\ TxTypeOK /\ Shape /\ Retiring /\ Inventory \subseteq Nodes
      /\ Len(gens) \in Nat \ {0} /\ Inventory \subseteq used
      /\ Retired /\ Drifted /\ PublishedSurvivesRecovery
  BY InventoryType DEF MutationInv, StretchInv, CandidateInv, CoreInv, History,
      Inventory
<1> USE DEF Handler, Cleaning, Ending, TypeOK, TxTypeOK
<1> USE DEF Retired, Drifted, PublishedSurvivesRecovery, Inventory, Adding,
    Recording, Removing, Retiring, CleaningUp, AddingSteps, RemovingSteps,
    RetiringSteps, Forward, Undoing, durable, inventory, host, control
<1>1. ASSUME NEW n \in Nodes, UnlinkMarker(n)
      PROVE  (Retired /\ Drifted)'
  BY <1>1, <1>0 DEF UnlinkMarker
<1>2. ASSUME NEW n \in Nodes, UnlinkMarkerThrows(n)
      PROVE  (Retired /\ Drifted)'
  BY <1>2, <1>0 DEF UnlinkMarkerThrows, RootKept, FaultIf, Ends
<1>3. ASSUME RootsRemoved PROVE (Retired /\ Drifted)'
  BY <1>3, <1>0 DEF RootsRemoved, AfterRoots
<1>4. ASSUME RemoveDirectory PROVE (Retired /\ Drifted)'
  BY <1>4, <1>0 DEF RemoveDirectory
<1>5. ASSUME RemoveDirectoryThrows PROVE (Retired /\ Drifted)'
  BY <1>5, <1>0 DEF RemoveDirectoryThrows, RootKept, Ends
<1>6. ASSUME Drain PROVE (Retired /\ Drifted)'
  BY <1>6, <1>0 DEF Drain
<1>7. ASSUME DrainTimesOut PROVE (Retired /\ Drifted)'
  BY <1>7, <1>0 DEF DrainTimesOut, Ends
<1>8. ASSUME Retire PROVE (Retired /\ Drifted)'
  BY <1>8, <1>0 DEF Retire
<1>9. ASSUME RetireThrows PROVE (Retired /\ Drifted)'
  BY <1>9, <1>0 DEF RetireThrows, Ends
<1>10. ASSUME Promote PROVE (Retired /\ Drifted)'
  BY <1>10, <1>0 DEF Promote, Ends, NoTx, Live
<1>11. ASSUME PromoteThrows PROVE (Retired /\ Drifted)'
  BY <1>11, <1>0 DEF PromoteThrows, Ends, Live
<1> QED
  BY <1>1, <1>2, <1>3, <1>4, <1>5, <1>6, <1>7, <1>8, <1>9, <1>10, <1>11 DEF
      RetirementStep, RootStep

\* Their entries stay until all of them are gone.
LEMMA RetirementIsListed ==
  ASSUME MutationInv, Retiring, RetirementStep
  PROVE  (ResourcesAreListed /\ PublishedSurvivesRecovery /\ LiveHasRoot)'
<1>0. /\ TypeOK /\ TxTypeOK /\ Shape /\ Retiring /\ Inventory \subseteq Nodes
      /\ Len(gens) \in Nat \ {0} /\ Inventory \subseteq used
      /\ Retired /\ ResourcesAreListed
      /\ PublishedSurvivesRecovery /\ LiveHasRoot
  BY InventoryType DEF MutationInv, StretchInv, CandidateInv, CoreInv, History,
      Inventory
<1> USE DEF Handler, Cleaning, Ending, TypeOK, TxTypeOK
<1> USE DEF Retired, ResourcesAreListed, PublishedSurvivesRecovery,
    LiveHasRoot, Inventory, Adding, Recording, Removing, Retiring, CleaningUp,
    AddingSteps, RemovingSteps, RetiringSteps, Forward, Undoing, durable,
    inventory, host, control
<1>1. ASSUME NEW n \in Nodes, UnlinkMarker(n)
      PROVE  (ResourcesAreListed /\ PublishedSurvivesRecovery /\ LiveHasRoot)'
  BY <1>1, <1>0 DEF UnlinkMarker
<1>2. ASSUME NEW n \in Nodes, UnlinkMarkerThrows(n)
      PROVE  (ResourcesAreListed /\ PublishedSurvivesRecovery /\ LiveHasRoot)'
  BY <1>2, <1>0 DEF UnlinkMarkerThrows, RootKept, FaultIf, Ends
<1>3. ASSUME RootsRemoved
      PROVE  (ResourcesAreListed /\ PublishedSurvivesRecovery /\ LiveHasRoot)'
  BY <1>3, <1>0 DEF RootsRemoved, AfterRoots
<1>4. ASSUME RemoveDirectory
      PROVE  (ResourcesAreListed /\ PublishedSurvivesRecovery /\ LiveHasRoot)'
  BY <1>4, <1>0 DEF RemoveDirectory
<1>5. ASSUME RemoveDirectoryThrows
      PROVE  (ResourcesAreListed /\ PublishedSurvivesRecovery /\ LiveHasRoot)'
  BY <1>5, <1>0 DEF RemoveDirectoryThrows, RootKept, Ends
<1>6. ASSUME Drain
      PROVE  (ResourcesAreListed /\ PublishedSurvivesRecovery /\ LiveHasRoot)'
  BY <1>6, <1>0 DEF Drain
<1>7. ASSUME DrainTimesOut
      PROVE  (ResourcesAreListed /\ PublishedSurvivesRecovery /\ LiveHasRoot)'
  BY <1>7, <1>0 DEF DrainTimesOut, Ends
<1>8. ASSUME Retire
      PROVE  (ResourcesAreListed /\ PublishedSurvivesRecovery /\ LiveHasRoot)'
  BY <1>8, <1>0 DEF Retire
<1>9. ASSUME RetireThrows
      PROVE  (ResourcesAreListed /\ PublishedSurvivesRecovery /\ LiveHasRoot)'
  BY <1>9, <1>0 DEF RetireThrows, Ends
<1>10. ASSUME Promote
      PROVE  (ResourcesAreListed /\ PublishedSurvivesRecovery /\ LiveHasRoot)'
  BY <1>10, <1>0 DEF Promote, Ends, NoTx, Live
<1>11. ASSUME PromoteThrows
      PROVE  (ResourcesAreListed /\ PublishedSurvivesRecovery /\ LiveHasRoot)'
  BY <1>11, <1>0 DEF PromoteThrows, Ends, Live
<1> QED
  BY <1>1, <1>2, <1>3, <1>4, <1>5, <1>6, <1>7, <1>8, <1>9, <1>10, <1>11 DEF
      RetirementStep, RootStep

\* The retirement waits for the readers of the generation it replaces.
LEMMA RetirementKeepsHistory ==
  ASSUME MutationInv, Retiring, RetirementStep
  PROVE  (History /\ Leases)'
<1>0. /\ TypeOK /\ TxTypeOK /\ Shape /\ Retiring /\ Inventory \subseteq Nodes
      /\ Len(gens) \in Nat \ {0} /\ Inventory \subseteq used
      /\ History /\ Leases /\ Retired
  BY InventoryType DEF MutationInv, StretchInv, CandidateInv, CoreInv, History,
      Inventory
<1> USE DEF Handler, Cleaning, Ending, TypeOK, TxTypeOK
<1> USE DEF History, Leases, IdsNeverReused, LeaseHonoured, Running,
    ReadersDrained, Retired, Inventory, Adding, Recording, Removing, Retiring,
    CleaningUp, AddingSteps, RemovingSteps, RetiringSteps, Forward, Undoing,
    durable, inventory, host, control
<1>1. ASSUME NEW n \in Nodes, UnlinkMarker(n)
      PROVE  (History /\ Leases)'
  BY <1>1, <1>0 DEF UnlinkMarker
<1>2. ASSUME NEW n \in Nodes, UnlinkMarkerThrows(n)
      PROVE  (History /\ Leases)'
  BY <1>2, <1>0 DEF UnlinkMarkerThrows, RootKept, FaultIf, Ends
<1>3. ASSUME RootsRemoved PROVE (History /\ Leases)'
  BY <1>3, <1>0 DEF RootsRemoved, AfterRoots
<1>4. ASSUME RemoveDirectory PROVE (History /\ Leases)'
  BY <1>4, <1>0 DEF RemoveDirectory
<1>5. ASSUME RemoveDirectoryThrows PROVE (History /\ Leases)'
  BY <1>5, <1>0 DEF RemoveDirectoryThrows, RootKept, Ends
<1>6. ASSUME Drain PROVE (History /\ Leases)'
  BY <1>6, <1>0 DEF Drain
<1>7. ASSUME DrainTimesOut PROVE (History /\ Leases)'
  BY <1>7, <1>0 DEF DrainTimesOut, Ends
<1>8. ASSUME Retire PROVE (History /\ Leases)'
  BY <1>8, <1>0 DEF Retire
<1>9. ASSUME RetireThrows PROVE (History /\ Leases)'
  BY <1>9, <1>0 DEF RetireThrows, Ends
<1>10. ASSUME Promote PROVE (History /\ Leases)'
  BY <1>10, <1>0 DEF Promote, Ends, NoTx
<1>11. ASSUME PromoteThrows PROVE (History /\ Leases)'
  BY <1>11, <1>0 DEF PromoteThrows, Ends
<1> QED
  BY <1>1, <1>2, <1>3, <1>4, <1>5, <1>6, <1>7, <1>8, <1>9, <1>10, <1>11 DEF
      RetirementStep, RootStep

\* A retirement that completes leaves the state its inventory tells.
LEMMA RetirementSettles ==
  ASSUME MutationInv, Retiring, RetirementStep
  PROVE  (SettledIsConsistent /\ RecoveryIsComplete)'
<1>0. /\ TypeOK /\ TxTypeOK /\ Shape /\ Retiring /\ Inventory \subseteq Nodes
      /\ Len(gens) \in Nat \ {0} /\ Inventory \subseteq used
      /\ Retired /\ Drifted
  BY InventoryType DEF MutationInv, StretchInv, CandidateInv, CoreInv, History,
      Inventory
<1> USE DEF Handler, Cleaning, Ending, TypeOK, TxTypeOK
<1> USE DEF Retired, Drifted, SettledIsConsistent, RecoveryIsComplete,
    Inventory, Adding, Recording, Removing, Retiring, CleaningUp, AddingSteps,
    RemovingSteps, RetiringSteps, Forward, Undoing, durable, inventory, host,
    control
<1>1. ASSUME NEW n \in Nodes, UnlinkMarker(n)
      PROVE  (SettledIsConsistent /\ RecoveryIsComplete)'
  BY <1>1, <1>0 DEF UnlinkMarker
<1>2. ASSUME NEW n \in Nodes, UnlinkMarkerThrows(n)
      PROVE  (SettledIsConsistent /\ RecoveryIsComplete)'
  BY <1>2, <1>0 DEF UnlinkMarkerThrows, RootKept, FaultIf, Ends
<1>3. ASSUME RootsRemoved PROVE (SettledIsConsistent /\ RecoveryIsComplete)'
  BY <1>3, <1>0 DEF RootsRemoved, AfterRoots
<1>4. ASSUME RemoveDirectory
      PROVE  (SettledIsConsistent /\ RecoveryIsComplete)'
  BY <1>4, <1>0 DEF RemoveDirectory
<1>5. ASSUME RemoveDirectoryThrows
      PROVE  (SettledIsConsistent /\ RecoveryIsComplete)'
  BY <1>5, <1>0 DEF RemoveDirectoryThrows, RootKept, Ends
<1>6. ASSUME Drain PROVE (SettledIsConsistent /\ RecoveryIsComplete)'
  BY <1>6, <1>0 DEF Drain
<1>7. ASSUME DrainTimesOut PROVE (SettledIsConsistent /\ RecoveryIsComplete)'
  BY <1>7, <1>0 DEF DrainTimesOut, Ends
<1>8. ASSUME Retire PROVE (SettledIsConsistent /\ RecoveryIsComplete)'
  BY <1>8, <1>0 DEF Retire
<1>9. ASSUME RetireThrows PROVE (SettledIsConsistent /\ RecoveryIsComplete)'
  BY <1>9, <1>0 DEF RetireThrows, Ends
<1>10. ASSUME Promote PROVE (SettledIsConsistent /\ RecoveryIsComplete)'
  BY <1>10, <1>0 DEF Promote, Ends, NoTx
<1>11. ASSUME PromoteThrows PROVE (SettledIsConsistent /\ RecoveryIsComplete)'
  BY <1>11, <1>0 DEF PromoteThrows, Ends
<1> QED
  BY <1>1, <1>2, <1>3, <1>4, <1>5, <1>6, <1>7, <1>8, <1>9, <1>10, <1>11 DEF
      RetirementStep, RootStep

\* A retirement turns into nothing else.
LEMMA RetirementIsNoOther ==
  ASSUME MutationInv, Retiring, RetirementStep
  PROVE  (CandidateInv /\ Recorded /\ Leaving /\ Cleaned)'
<1>0. /\ TypeOK /\ TxTypeOK /\ Shape /\ Retiring /\ Inventory \subseteq Nodes
      /\ Len(gens) \in Nat \ {0} /\ Inventory \subseteq used
      /\ TRUE
  BY InventoryType DEF MutationInv, StretchInv, CandidateInv, CoreInv, History,
      Inventory
<1> USE DEF Handler, Cleaning, Ending, TypeOK, TxTypeOK
<1> USE DEF CandidateInv, Candidates, CandidateRoots, CandidateSupport,
    CandidateEntries, CandidateTraces, Recorded, Leaving, Cleaned, Inventory,
    Adding, Recording, Removing, Retiring, CleaningUp, AddingSteps,
    RemovingSteps, RetiringSteps, Forward, Undoing, durable, inventory, host,
    control
<1>1. ASSUME NEW n \in Nodes, UnlinkMarker(n)
      PROVE  (CandidateInv /\ Recorded /\ Leaving /\ Cleaned)'
  BY <1>1, <1>0 DEF UnlinkMarker
<1>2. ASSUME NEW n \in Nodes, UnlinkMarkerThrows(n)
      PROVE  (CandidateInv /\ Recorded /\ Leaving /\ Cleaned)'
  BY <1>2, <1>0 DEF UnlinkMarkerThrows, RootKept, FaultIf, Ends
<1>3. ASSUME RootsRemoved
      PROVE  (CandidateInv /\ Recorded /\ Leaving /\ Cleaned)'
  BY <1>3, <1>0 DEF RootsRemoved, AfterRoots
<1>4. ASSUME RemoveDirectory
      PROVE  (CandidateInv /\ Recorded /\ Leaving /\ Cleaned)'
  BY <1>4, <1>0 DEF RemoveDirectory
<1>5. ASSUME RemoveDirectoryThrows
      PROVE  (CandidateInv /\ Recorded /\ Leaving /\ Cleaned)'
  BY <1>5, <1>0 DEF RemoveDirectoryThrows, RootKept, Ends
<1>6. ASSUME Drain PROVE (CandidateInv /\ Recorded /\ Leaving /\ Cleaned)'
  BY <1>6, <1>0 DEF Drain
<1>7. ASSUME DrainTimesOut
      PROVE  (CandidateInv /\ Recorded /\ Leaving /\ Cleaned)'
  BY <1>7, <1>0 DEF DrainTimesOut, Ends
<1>8. ASSUME Retire PROVE (CandidateInv /\ Recorded /\ Leaving /\ Cleaned)'
  BY <1>8, <1>0 DEF Retire
<1>9. ASSUME RetireThrows
      PROVE  (CandidateInv /\ Recorded /\ Leaving /\ Cleaned)'
  BY <1>9, <1>0 DEF RetireThrows, Ends
<1>10. ASSUME Promote PROVE (CandidateInv /\ Recorded /\ Leaving /\ Cleaned)'
  BY <1>10, <1>0 DEF Promote, Ends, NoTx
<1>11. ASSUME PromoteThrows
      PROVE  (CandidateInv /\ Recorded /\ Leaving /\ Cleaned)'
  BY <1>11, <1>0 DEF PromoteThrows, Ends
<1> QED
  BY <1>1, <1>2, <1>3, <1>4, <1>5, <1>6, <1>7, <1>8, <1>9, <1>10, <1>11 DEF
      RetirementStep, RootStep

-----------------------------------------------------------------------------
(* The offline cleanup.                                                    *)

\* The offline cleanup removes roots of pending additions it has stopped.
LEMMA CleanupKept ==
  ASSUME MutationInv, CleaningUp, CleanupStep
  PROVE  Cleaned'
<1>0. /\ TypeOK /\ TxTypeOK /\ Shape /\ CleaningUp /\ Inventory \subseteq Nodes
      /\ Len(gens) \in Nat \ {0} /\ Inventory \subseteq used
      /\ Cleaned /\ ResourcesAreListed
  BY InventoryType DEF MutationInv, StretchInv, CandidateInv, CoreInv, History,
      Inventory
<1> USE DEF Handler, Cleaning, Ending, TypeOK, TxTypeOK
<1>1. ASSUME NEW n \in Nodes, UnlinkMarkerThrows(n)
      PROVE  Cleaned'
  BY <1>1, <1>0, KeptRoot, ZenonT(40) DEF UnlinkMarkerThrows, Cleaned,
    Inventory, Adding, Recording, Removing, Retiring, CleaningUp, AddingSteps,
    RemovingSteps, RetiringSteps, Forward, Undoing, durable, host
<1>2. ASSUME RemoveDirectoryThrows PROVE Cleaned'
<2>1. PICK n \in tx.current \cap roots : RootKept(n)
    BY <1>2 DEF RemoveDirectoryThrows
<2>2. /\ pc = "rmdir" /\ tx.kind # "remove"
      /\ UNCHANGED <<inventory, roots, manifest, staged, docsAhead, host>>
    BY <1>2, <1>0 DEF RemoveDirectoryThrows, CleaningUp
<2>3. tx.current \ {n} = {}
    BY <1>0, <2>1, <2>2 DEF Shape
<2>4. /\ pc' = "unlink" /\ tx'.known = tx.known
      /\ tx'.kind = tx.kind /\ tx'.ids = tx.ids /\ tx'.failure = tx.failure
      /\ tx'.acquired = tx.acquired /\ tx'.published = tx.published
      /\ tx'.unrestored = tx.unrestored /\ tx'.peers = tx.peers
      /\ tx'.flagged = tx.flagged /\ tx'.current = {} /\ tx'.errors = TRUE
      /\ tx'.todo = tx.todo \ {n} /\ tx'.verified = tx.verified \ {n}
    BY <1>0, <2>1, <2>2, KeptRoot
<2> QED
    BY <1>0, <2>1, <2>2, <2>3, <2>4 DEF Cleaned, Inventory, Adding, Recording,
      Removing, Retiring, CleaningUp, AddingSteps, RemovingSteps,
      RetiringSteps, Forward, Undoing, host
<1> USE DEF Cleaned, Inventory, Adding, Recording, Removing, Retiring,
    CleaningUp, AddingSteps, RemovingSteps, RetiringSteps, Forward, Undoing,
    durable, inventory, host, control
<1>3. ASSUME NEW n \in Nodes, UnlinkMarker(n)
      PROVE  Cleaned'
  BY <1>3, <1>0 DEF UnlinkMarker
<1>4. ASSUME RootsRemoved PROVE Cleaned'
  BY <1>4, <1>0 DEF RootsRemoved, AfterRoots
<1>5. ASSUME RemoveDirectory PROVE Cleaned'
  BY <1>5, <1>0 DEF RemoveDirectory
<1>6. ASSUME Rewrite PROVE Cleaned'
  BY <1>6, <1>0 DEF Rewrite
<1>7. ASSUME CleanupKilled PROVE Cleaned'
  BY <1>7, <1>0 DEF CleanupKilled
<1> QED
  BY <1>1, <1>2, <1>3, <1>4, <1>5, <1>6, <1>7 DEF CleanupStep, RootStep

\* It drops the entries of what it removed and keeps the published nodes.
LEMMA CleanupIsListed ==
  ASSUME MutationInv, CleaningUp, CleanupStep
  PROVE  (ResourcesAreListed /\ PublishedSurvivesRecovery /\ LiveHasRoot)'
<1>0. /\ TypeOK /\ TxTypeOK /\ Shape /\ CleaningUp /\ Inventory \subseteq Nodes
      /\ Len(gens) \in Nat \ {0} /\ Inventory \subseteq used
      /\ Cleaned /\ ResourcesAreListed
      /\ PublishedSurvivesRecovery /\ LiveHasRoot
  BY InventoryType DEF MutationInv, StretchInv, CandidateInv, CoreInv, History,
      Inventory
<1> USE DEF Handler, Cleaning, Ending, TypeOK, TxTypeOK
<1>1. ASSUME NEW n \in Nodes, UnlinkMarkerThrows(n)
      PROVE  (ResourcesAreListed /\ PublishedSurvivesRecovery /\ LiveHasRoot)'
  BY <1>1, <1>0, KeptRoot DEF UnlinkMarkerThrows, Cleaned, ResourcesAreListed,
    PublishedSurvivesRecovery, LiveHasRoot, Inventory, Adding, Recording,
    Removing, Retiring, CleaningUp, AddingSteps, RemovingSteps, RetiringSteps,
    Forward, Undoing, durable, host
<1>2. ASSUME RemoveDirectoryThrows
      PROVE  (ResourcesAreListed /\ PublishedSurvivesRecovery /\ LiveHasRoot)'
<2>1. PICK n \in tx.current \cap roots :
         RootKept(n) /\ marked' \in {marked, marked \cup {n}}
    BY <1>2 DEF RemoveDirectoryThrows
<2>2. tx.kind # "remove" /\ UNCHANGED <<inventory, roots, manifest, support>>
    BY <1>2, <1>0 DEF RemoveDirectoryThrows, CleaningUp, host
<2>3. tx'.unrestored = tx.unrestored
    BY <1>0, <2>1, <2>2, KeptRoot
<2>4. Inventory' = Inventory /\ marked \subseteq marked'
    BY <2>1, <2>2 DEF Inventory
<2> QED
    BY <1>0, <2>2, <2>3, <2>4 DEF ResourcesAreListed, LiveHasRoot,
        PublishedSurvivesRecovery
<1> USE DEF Cleaned, ResourcesAreListed, PublishedSurvivesRecovery,
    LiveHasRoot, Inventory, Adding, Recording, Removing, Retiring, CleaningUp,
    AddingSteps, RemovingSteps, RetiringSteps, Forward, Undoing, durable,
    inventory, host, control
<1>3. ASSUME NEW n \in Nodes, UnlinkMarker(n)
      PROVE  (ResourcesAreListed /\ PublishedSurvivesRecovery /\ LiveHasRoot)'
  BY <1>3, <1>0 DEF UnlinkMarker
<1>4. ASSUME RootsRemoved
      PROVE  (ResourcesAreListed /\ PublishedSurvivesRecovery /\ LiveHasRoot)'
  BY <1>4, <1>0 DEF RootsRemoved, AfterRoots
<1>5. ASSUME RemoveDirectory
      PROVE  (ResourcesAreListed /\ PublishedSurvivesRecovery /\ LiveHasRoot)'
  BY <1>5, <1>0 DEF RemoveDirectory
<1>6. ASSUME Rewrite
      PROVE  (ResourcesAreListed /\ PublishedSurvivesRecovery /\ LiveHasRoot)'
  BY <1>6, <1>0 DEF Rewrite
<1>7. ASSUME CleanupKilled
      PROVE  (ResourcesAreListed /\ PublishedSurvivesRecovery /\ LiveHasRoot)'
  BY <1>7, <1>0 DEF CleanupKilled
<1> QED
  BY <1>1, <1>2, <1>3, <1>4, <1>5, <1>6, <1>7 DEF CleanupStep, RootStep

\* No reader is left that it could disturb.
LEMMA CleanupKeepsHistory ==
  ASSUME MutationInv, CleaningUp, CleanupStep
  PROVE  (History /\ Leases)'
<1>0. /\ TypeOK /\ TxTypeOK /\ Shape /\ CleaningUp /\ Inventory \subseteq Nodes
      /\ Len(gens) \in Nat \ {0} /\ Inventory \subseteq used
      /\ History /\ Leases
  BY InventoryType DEF MutationInv, StretchInv, CandidateInv, CoreInv, History,
      Inventory
<1> USE DEF Handler, Cleaning, Ending, TypeOK, TxTypeOK
<1>1. ASSUME NEW n \in Nodes, UnlinkMarkerThrows(n)
      PROVE  (History /\ Leases)'
<2>1. tx'.kind = tx.kind /\ pc' \in Handler \ {"retire"}
    BY <1>1, <1>0, KeptRoot DEF UnlinkMarkerThrows, CleaningUp
<2>2. pc \in Handler /\ UNCHANGED <<gens, used, held, support>>
    BY <1>1 DEF UnlinkMarkerThrows, host
<2> QED
    BY <1>0, <2>1, <2>2, LeasesFrame DEF Running, CleaningUp
<1>2. ASSUME RemoveDirectoryThrows PROVE (History /\ Leases)'
<2>1. tx'.kind = tx.kind /\ pc' \in Handler \ {"retire"}
    BY <1>2, <1>0, KeptRoot DEF RemoveDirectoryThrows, CleaningUp
<2>2. pc \in Handler /\ UNCHANGED <<gens, used, held, support>>
    BY <1>2 DEF RemoveDirectoryThrows, host
<2> QED
    BY <1>0, <2>1, <2>2, LeasesFrame DEF Running, CleaningUp
<1> USE DEF History, Leases, IdsNeverReused, LeaseHonoured, Running,
    ReadersDrained, Inventory, Adding, Recording, Removing, Retiring,
    CleaningUp, AddingSteps, RemovingSteps, RetiringSteps, Forward, Undoing,
    durable, inventory, host, control
<1>3. ASSUME NEW n \in Nodes, UnlinkMarker(n)
      PROVE  (History /\ Leases)'
  BY <1>3, <1>0 DEF UnlinkMarker
<1>4. ASSUME RootsRemoved PROVE (History /\ Leases)'
  BY <1>4, <1>0 DEF RootsRemoved, AfterRoots
<1>5. ASSUME RemoveDirectory PROVE (History /\ Leases)'
  BY <1>5, <1>0 DEF RemoveDirectory
<1>6. ASSUME Rewrite PROVE (History /\ Leases)'
  BY <1>6, <1>0 DEF Rewrite
<1>7. ASSUME CleanupKilled PROVE (History /\ Leases)'
  BY <1>7, <1>0 DEF CleanupKilled
<1> QED
  BY <1>1, <1>2, <1>3, <1>4, <1>5, <1>6, <1>7 DEF CleanupStep, RootStep

\* A cleanup that reports success has left nothing running and nothing pending.
LEMMA CleanupCompletes ==
  ASSUME MutationInv, CleaningUp, CleanupStep
  PROVE  (SettledIsConsistent /\ RecoveryIsComplete)'
<1>0. /\ TypeOK /\ TxTypeOK /\ Shape /\ CleaningUp /\ Inventory \subseteq Nodes
      /\ Len(gens) \in Nat \ {0} /\ Inventory \subseteq used
      /\ Cleaned /\ ResourcesAreListed /\ PublishedSurvivesRecovery
  BY InventoryType DEF MutationInv, StretchInv, CandidateInv, CoreInv, History,
      Inventory
<1> USE DEF Handler, Cleaning, Ending, TypeOK, TxTypeOK
<1> USE DEF Cleaned, SettledIsConsistent, RecoveryIsComplete,
    ResourcesAreListed, PublishedSurvivesRecovery, Inventory, Adding,
    Recording, Removing, Retiring, CleaningUp, AddingSteps, RemovingSteps,
    RetiringSteps, Forward, Undoing, durable, inventory, host, control
<1>1. ASSUME NEW n \in Nodes, UnlinkMarker(n)
      PROVE  (SettledIsConsistent /\ RecoveryIsComplete)'
  BY <1>1, <1>0 DEF UnlinkMarker
<1>2. ASSUME NEW n \in Nodes, UnlinkMarkerThrows(n)
      PROVE  (SettledIsConsistent /\ RecoveryIsComplete)'
  BY <1>2, <1>0 DEF UnlinkMarkerThrows, RootKept, FaultIf, Ends
<1>3. ASSUME RootsRemoved PROVE (SettledIsConsistent /\ RecoveryIsComplete)'
  BY <1>3, <1>0 DEF RootsRemoved, AfterRoots
<1>4. ASSUME RemoveDirectory
      PROVE  (SettledIsConsistent /\ RecoveryIsComplete)'
  BY <1>4, <1>0 DEF RemoveDirectory
<1>5. ASSUME RemoveDirectoryThrows
      PROVE  (SettledIsConsistent /\ RecoveryIsComplete)'
  BY <1>5, <1>0 DEF RemoveDirectoryThrows, RootKept, Ends
<1>6. ASSUME Rewrite PROVE (SettledIsConsistent /\ RecoveryIsComplete)'
  BY <1>6, <1>0 DEF Rewrite
<1>7. ASSUME CleanupKilled PROVE (SettledIsConsistent /\ RecoveryIsComplete)'
  BY <1>7, <1>0 DEF CleanupKilled
<1> QED
  BY <1>1, <1>2, <1>3, <1>4, <1>5, <1>6, <1>7 DEF CleanupStep, RootStep

\* A cleanup turns into no handler.
LEMMA CleanupIsNoOther ==
  ASSUME MutationInv, CleaningUp, CleanupStep
  PROVE  (CandidateInv /\ Recorded /\ Leaving /\ Retired /\ Drifted)'
<1>0. /\ TypeOK /\ TxTypeOK /\ Shape /\ CleaningUp /\ Inventory \subseteq Nodes
      /\ Len(gens) \in Nat \ {0} /\ Inventory \subseteq used
      /\ TRUE
  BY InventoryType DEF MutationInv, StretchInv, CandidateInv, CoreInv, History,
      Inventory
<1> USE DEF Handler, Cleaning, Ending, TypeOK, TxTypeOK
<1>1. ASSUME NEW n \in Nodes, UnlinkMarkerThrows(n)
      PROVE  (CandidateInv /\ Recorded /\ Leaving /\ Retired /\ Drifted)'
  BY <1>1, <1>0, KeptRoot DEF UnlinkMarkerThrows, CandidateInv, Candidates,
    CandidateRoots, CandidateSupport, CandidateEntries, CandidateTraces,
    Recorded, Leaving, Retired, Drifted, Inventory, Adding, Recording,
    Removing, Retiring, CleaningUp, AddingSteps, RemovingSteps, RetiringSteps,
    Forward, Undoing, durable, host
<1>2. ASSUME RemoveDirectoryThrows
      PROVE  (CandidateInv /\ Recorded /\ Leaving /\ Retired /\ Drifted)'
<2>1. PICK n \in tx.current \cap roots : RootKept(n)
    BY <1>2 DEF RemoveDirectoryThrows
<2>2. /\ pc = "rmdir" /\ tx.kind # "remove"
      /\ UNCHANGED <<inventory, roots, manifest, staged, docsAhead, host>>
    BY <1>2, <1>0 DEF RemoveDirectoryThrows, CleaningUp
<2>3. tx.current \ {n} = {}
    BY <1>0, <2>1, <2>2 DEF Shape
<2>4. /\ pc' = "unlink" /\ tx'.known = tx.known
      /\ tx'.kind = tx.kind /\ tx'.ids = tx.ids /\ tx'.failure = tx.failure
      /\ tx'.acquired = tx.acquired /\ tx'.published = tx.published
      /\ tx'.unrestored = tx.unrestored /\ tx'.peers = tx.peers
      /\ tx'.flagged = tx.flagged /\ tx'.current = {} /\ tx'.errors = TRUE
      /\ tx'.todo = tx.todo \ {n} /\ tx'.verified = tx.verified \ {n}
    BY <1>0, <2>1, <2>2, KeptRoot
<2> QED
    BY <1>0, <2>1, <2>2, <2>3, <2>4 DEF CandidateInv, Candidates,
      CandidateRoots, CandidateSupport, CandidateEntries, CandidateTraces,
      Recorded, Leaving, Retired, Drifted, Inventory, Adding, Recording,
      Removing, Retiring, CleaningUp, AddingSteps, RemovingSteps,
      RetiringSteps, Forward, Undoing, host
<1> USE DEF CandidateInv, Candidates, CandidateRoots, CandidateSupport,
    CandidateEntries, CandidateTraces, Recorded, Leaving, Retired, Drifted,
    Inventory, Adding, Recording, Removing, Retiring, CleaningUp, AddingSteps,
    RemovingSteps, RetiringSteps, Forward, Undoing, durable, inventory, host,
    control
<1>3. ASSUME NEW n \in Nodes, UnlinkMarker(n)
      PROVE  (CandidateInv /\ Recorded /\ Leaving /\ Retired /\ Drifted)'
  BY <1>3, <1>0 DEF UnlinkMarker
<1>4. ASSUME RootsRemoved
      PROVE  (CandidateInv /\ Recorded /\ Leaving /\ Retired /\ Drifted)'
  BY <1>4, <1>0 DEF RootsRemoved, AfterRoots
<1>5. ASSUME RemoveDirectory
      PROVE  (CandidateInv /\ Recorded /\ Leaving /\ Retired /\ Drifted)'
  BY <1>5, <1>0 DEF RemoveDirectory
<1>6. ASSUME Rewrite
      PROVE  (CandidateInv /\ Recorded /\ Leaving /\ Retired /\ Drifted)'
  BY <1>6, <1>0 DEF Rewrite
<1>7. ASSUME CleanupKilled
      PROVE  (CandidateInv /\ Recorded /\ Leaving /\ Retired /\ Drifted)'
  BY <1>7, <1>0 DEF CleanupKilled
<1> QED
  BY <1>1, <1>2, <1>3, <1>4, <1>5, <1>6, <1>7 DEF CleanupStep, RootStep

-----------------------------------------------------------------------------
(* The end of the run, and steps of readers and clients.                   *)

\* The end of the run and the verification of the roots unlist nothing, ...
LEMMA EndIsListed ==
  ASSUME MutationInv, EndStep
  PROVE  (ResourcesAreListed /\ PublishedSurvivesRecovery /\ LiveHasRoot)'
<1>0. /\ TypeOK /\ TxTypeOK /\ Shape /\ Inventory \subseteq Nodes
      /\ Len(gens) \in Nat \ {0} /\ Inventory \subseteq used
      /\ ResourcesAreListed
      /\ PublishedSurvivesRecovery /\ LiveHasRoot
  BY InventoryType DEF MutationInv, StretchInv, CandidateInv, CoreInv, History,
      Inventory
<1> USE DEF Handler, Cleaning, Ending, TypeOK, TxTypeOK
<1> USE DEF ResourcesAreListed, PublishedSurvivesRecovery, LiveHasRoot,
    Inventory, Adding, Recording, Removing, Retiring, CleaningUp, AddingSteps,
    RemovingSteps, RetiringSteps, Forward, Undoing, durable, inventory, host,
    control
<1>1. ASSUME StopRun
      PROVE  (ResourcesAreListed /\ PublishedSurvivesRecovery /\ LiveHasRoot)'
  BY <1>1, <1>0 DEF StopRun, FaultIf
<1>2. ASSUME Crash
      PROVE  (ResourcesAreListed /\ PublishedSurvivesRecovery /\ LiveHasRoot)'
  BY <1>2, <1>0 DEF Crash, Running
<1>3. ASSUME CleanupRefused
      PROVE  (ResourcesAreListed /\ PublishedSurvivesRecovery /\ LiveHasRoot)'
  BY <1>3, <1>0 DEF CleanupRefused
<1>4. ASSUME Cleanup
      PROVE  (ResourcesAreListed /\ PublishedSurvivesRecovery /\ LiveHasRoot)'
  BY <1>4, <1>0 DEF Cleanup, FaultIf, NoTx
<1> QED
  BY <1>1, <1>2, <1>3, <1>4 DEF EndStep

\* ... drop the leases of the readers that are gone, ...
LEMMA EndKeepsHistory ==
  ASSUME MutationInv, EndStep
  PROVE  (History /\ Leases)'
<1>0. /\ TypeOK /\ TxTypeOK /\ Shape /\ Inventory \subseteq Nodes
      /\ Len(gens) \in Nat \ {0} /\ Inventory \subseteq used
      /\ History /\ Leases
  BY InventoryType DEF MutationInv, StretchInv, CandidateInv, CoreInv, History,
      Inventory
<1> USE DEF Handler, Cleaning, Ending, TypeOK, TxTypeOK
<1> USE DEF History, Leases, IdsNeverReused, LeaseHonoured, Running,
    ReadersDrained, Inventory, Adding, Recording, Removing, Retiring,
    CleaningUp, AddingSteps, RemovingSteps, RetiringSteps, Forward, Undoing,
    durable, inventory, host, control
<1>1. ASSUME StopRun PROVE (History /\ Leases)'
  BY <1>1, <1>0 DEF StopRun, FaultIf
<1>2. ASSUME Crash PROVE (History /\ Leases)'
  BY <1>2, <1>0 DEF Crash
<1>3. ASSUME CleanupRefused PROVE (History /\ Leases)'
  BY <1>3, <1>0 DEF CleanupRefused
<1>4. ASSUME Cleanup PROVE (History /\ Leases)'
  BY <1>4, <1>0 DEF Cleanup, FaultIf, NoTx
<1> QED
  BY <1>1, <1>2, <1>3, <1>4 DEF EndStep

\* ... claim no success, ...
LEMMA EndIsUnsettled ==
  ASSUME MutationInv, EndStep
  PROVE  (SettledIsConsistent /\ RecoveryIsComplete)'
<1>0. /\ TypeOK /\ TxTypeOK /\ Shape /\ Inventory \subseteq Nodes
      /\ Len(gens) \in Nat \ {0} /\ Inventory \subseteq used
      /\ TRUE
  BY InventoryType DEF MutationInv, StretchInv, CandidateInv, CoreInv, History,
      Inventory
<1> USE DEF Handler, Cleaning, Ending, TypeOK, TxTypeOK
<1> USE DEF SettledIsConsistent, RecoveryIsComplete, Inventory, Adding,
    Recording, Removing, Retiring, CleaningUp, AddingSteps, RemovingSteps,
    RetiringSteps, Forward, Undoing, durable, inventory, host, control
<1>1. ASSUME StopRun PROVE (SettledIsConsistent /\ RecoveryIsComplete)'
  BY <1>1, <1>0 DEF StopRun, FaultIf
<1>2. ASSUME Crash PROVE (SettledIsConsistent /\ RecoveryIsComplete)'
  BY <1>2, <1>0 DEF Crash, Running
<1>3. ASSUME CleanupRefused PROVE (SettledIsConsistent /\ RecoveryIsComplete)'
  BY <1>3, <1>0 DEF CleanupRefused
<1>4. ASSUME Cleanup PROVE (SettledIsConsistent /\ RecoveryIsComplete)'
  BY <1>4, <1>0 DEF Cleanup, FaultIf, NoTx
<1> QED
  BY <1>1, <1>2, <1>3, <1>4 DEF EndStep

\* ... and start the cleanup from what the manifest lists.
LEMMA EndStarts ==
  ASSUME MutationInv, EndStep
  PROVE  StretchInv'
<1>0. /\ TypeOK /\ TxTypeOK /\ Shape /\ Inventory \subseteq Nodes
      /\ Len(gens) \in Nat \ {0} /\ Inventory \subseteq used
      /\ ResourcesAreListed
  BY InventoryType DEF MutationInv, StretchInv, CandidateInv, CoreInv, History,
      Inventory
<1> USE DEF Handler, Cleaning, Ending, TypeOK, TxTypeOK
<1>1. ASSUME Cleanup PROVE StretchInv'
<2>0. PICK C \in SUBSET DOMAIN manifest :
         \E W \in SUBSET C :
            /\ support' = support \ C
            /\ LET S == {n \in W : manifest[n] = "pendingAdd"}
               IN  tx' = [NoTx EXCEPT !.kind = "offline", !.verified = S,
                                      !.todo = S,
                                      !.errors = W # DOMAIN manifest,
                                      !.unrestored = tx.unrestored]
    BY <1>1 DEF Cleanup
<2>1. PICK W \in SUBSET C :
         /\ support' = support \ C
         /\ LET S == {n \in W : manifest[n] = "pendingAdd"}
            IN  tx' = [NoTx EXCEPT !.kind = "offline", !.verified = S,
                                   !.todo = S, !.errors = W # DOMAIN manifest,
                                   !.unrestored = tx.unrestored]
    BY <2>0
<2> DEFINE S == {n \in W : manifest[n] = "pendingAdd"}
<2>2. /\ tx'.kind = "offline" /\ tx'.verified = S /\ tx'.todo = S
      /\ tx'.errors = (W # DOMAIN manifest) /\ tx'.current = {}
    BY <2>1 DEF NoTx
<2>3. pc' = "unlink" /\ UNCHANGED <<roots, manifest>>
    BY <1>1 DEF Cleanup, durable
<2>4. Cleaned'
    BY <1>0, <2>1, <2>2, <2>3 DEF Cleaned, ResourcesAreListed
<2> QED
    BY <2>2, <2>3, <2>4 DEF StretchInv, CandidateInv, Candidates,
        CandidateRoots, CandidateSupport, CandidateEntries, CandidateTraces,
        Recorded, Leaving, Retired, Drifted, Adding, Recording, Removing,
        Retiring
<1> USE DEF StretchInv, CandidateInv, Candidates, CandidateRoots,
    CandidateSupport, CandidateEntries, CandidateTraces, Recorded, Leaving,
    Retired, Drifted, Cleaned, ResourcesAreListed, Inventory, Adding,
    Recording, Removing, Retiring, CleaningUp, AddingSteps, RemovingSteps,
    RetiringSteps, Forward, Undoing, durable, inventory, host, control
<1>2. ASSUME StopRun PROVE StretchInv'
  BY <1>2, <1>0 DEF StopRun, FaultIf
<1>3. ASSUME Crash PROVE StretchInv'
  BY <1>3, <1>0 DEF Crash, Running
<1>4. ASSUME CleanupRefused PROVE StretchInv'
  BY <1>4, <1>0 DEF CleanupRefused
<1> QED
  BY <1>1, <1>2, <1>3, <1>4 DEF EndStep

\* Readers, cancellations and refusals touch no resource, ...
LEMMA QuietIsListed ==
  ASSUME MutationInv, QuietStep
  PROVE  (ResourcesAreListed /\ PublishedSurvivesRecovery /\ LiveHasRoot)'
<1>0. /\ TypeOK /\ TxTypeOK /\ Shape /\ Inventory \subseteq Nodes
      /\ Len(gens) \in Nat \ {0} /\ Inventory \subseteq used
      /\ ResourcesAreListed
      /\ PublishedSurvivesRecovery /\ LiveHasRoot
  BY InventoryType DEF MutationInv, StretchInv, CandidateInv, CoreInv, History,
      Inventory
<1> USE DEF Handler, Cleaning, Ending, TypeOK, TxTypeOK
<1> USE DEF ResourcesAreListed, PublishedSurvivesRecovery, LiveHasRoot,
    Inventory, Adding, Recording, Removing, Retiring, CleaningUp, AddingSteps,
    RemovingSteps, RetiringSteps, Forward, Undoing, durable, inventory, host,
    control
<1>1. ASSUME NEW r \in Readers, Lease(r)
      PROVE  (ResourcesAreListed /\ PublishedSurvivesRecovery /\ LiveHasRoot)'
  BY <1>1, <1>0 DEF Lease
<1>2. ASSUME NEW r \in Readers, Release(r)
      PROVE  (ResourcesAreListed /\ PublishedSurvivesRecovery /\ LiveHasRoot)'
  BY <1>2, <1>0 DEF Release
<1>3. ASSUME RequestCancellation
      PROVE  (ResourcesAreListed /\ PublishedSurvivesRecovery /\ LiveHasRoot)'
  BY <1>3, <1>0 DEF RequestCancellation, Running
<1>4. ASSUME Refuse
      PROVE  (ResourcesAreListed /\ PublishedSurvivesRecovery /\ LiveHasRoot)'
  BY <1>4, <1>0 DEF Refuse
<1>5. ASSUME Ended
      PROVE  (ResourcesAreListed /\ PublishedSurvivesRecovery /\ LiveHasRoot)'
  BY <1>5, <1>0 DEF Ended, mutationVars
<1> QED
  BY <1>1, <1>2, <1>3, <1>4, <1>5 DEF QuietStep

\* ... lease the published generation only, ...
LEMMA QuietKeepsHistory ==
  ASSUME MutationInv, QuietStep
  PROVE  (History /\ Leases)'
<1>0. /\ TypeOK /\ TxTypeOK /\ Shape /\ Inventory \subseteq Nodes
      /\ Len(gens) \in Nat \ {0} /\ Inventory \subseteq used
      /\ History /\ Leases
  BY InventoryType DEF MutationInv, StretchInv, CandidateInv, CoreInv, History,
      Inventory
<1> USE DEF Handler, Cleaning, Ending, TypeOK, TxTypeOK
<1>1. ASSUME NEW r \in Readers, Release(r)
      PROVE  (History /\ Leases)'
<2>1. /\ UNCHANGED <<gens, used, support, tx, pc>>
      /\ \A q \in Readers : held'[q] = 0 \/ held'[q] = held[q]
    BY <1>1, <1>0 DEF Release, host
<2>2. History'
    BY <1>0, <2>1 DEF History, IdsNeverReused
<2>3. LeaseHonoured'
    BY <1>0, <2>1 DEF Leases, LeaseHonoured
<2>4. (Running => Inventory \subseteq support)'
    BY <1>0, <2>1 DEF Leases, Inventory, Running
<2>5. (~Running => \A q \in Readers : held[q] = 0)'
    BY <1>0, <2>1 DEF Leases, Running
<2>6. (pc = "retire" => ReadersDrained)'
  <3> SUFFICES ASSUME pc = "retire", NEW q \in Readers
               PROVE  held'[q] # Len(gens) - 1
    BY <2>1 DEF ReadersDrained
  <3>1. held[q] # Len(gens) - 1
    BY <1>0 DEF Leases, ReadersDrained
  <3>2. Len(gens) > 1
    BY <1>0 DEF Shape, Adding, Recording, Removing, CleaningUp, Retiring,
        AddingSteps, RemovingSteps, Forward, Undoing
  <3> QED
    BY <1>0, <2>1, <3>1, <3>2
<2> QED
    BY <2>2, <2>3, <2>4, <2>5, <2>6 DEF Leases
<1> USE DEF History, Leases, IdsNeverReused, LeaseHonoured, Running,
    ReadersDrained, Inventory, Adding, Recording, Removing, Retiring,
    CleaningUp, AddingSteps, RemovingSteps, RetiringSteps, Forward, Undoing,
    durable, inventory, host, control
<1>2. ASSUME NEW r \in Readers, Lease(r)
      PROVE  (History /\ Leases)'
  BY <1>2, <1>0 DEF Lease
<1>3. ASSUME RequestCancellation PROVE (History /\ Leases)'
  BY <1>3, <1>0 DEF RequestCancellation
<1>4. ASSUME Refuse PROVE (History /\ Leases)'
  BY <1>4, <1>0 DEF Refuse
<1>5. ASSUME Ended PROVE (History /\ Leases)'
  BY <1>5, <1>0 DEF Ended, mutationVars
<1> QED
  BY <1>1, <1>2, <1>3, <1>4, <1>5 DEF QuietStep

\* ... keep a settled run settled ...
LEMMA QuietSettles ==
  ASSUME MutationInv, QuietStep
  PROVE  (SettledIsConsistent /\ RecoveryIsComplete)'
<1>0. /\ TypeOK /\ TxTypeOK /\ Shape /\ Inventory \subseteq Nodes
      /\ Len(gens) \in Nat \ {0} /\ Inventory \subseteq used
      /\ SettledIsConsistent /\ RecoveryIsComplete
  BY InventoryType DEF MutationInv, StretchInv, CandidateInv, CoreInv, History,
      Inventory
<1> USE DEF Handler, Cleaning, Ending, TypeOK, TxTypeOK
<1> USE DEF SettledIsConsistent, RecoveryIsComplete, Inventory, Adding,
    Recording, Removing, Retiring, CleaningUp, AddingSteps, RemovingSteps,
    RetiringSteps, Forward, Undoing, durable, inventory, host, control
<1>1. ASSUME NEW r \in Readers, Lease(r)
      PROVE  (SettledIsConsistent /\ RecoveryIsComplete)'
  BY <1>1, <1>0 DEF Lease
<1>2. ASSUME NEW r \in Readers, Release(r)
      PROVE  (SettledIsConsistent /\ RecoveryIsComplete)'
  BY <1>2, <1>0 DEF Release
<1>3. ASSUME RequestCancellation
      PROVE  (SettledIsConsistent /\ RecoveryIsComplete)'
  BY <1>3, <1>0 DEF RequestCancellation, Running
<1>4. ASSUME Refuse PROVE (SettledIsConsistent /\ RecoveryIsComplete)'
  BY <1>4, <1>0 DEF Refuse
<1>5. ASSUME Ended PROVE (SettledIsConsistent /\ RecoveryIsComplete)'
  BY <1>5, <1>0 DEF Ended, mutationVars
<1> QED
  BY <1>1, <1>2, <1>3, <1>4, <1>5 DEF QuietStep

\* ... and every stretch as it is.
LEMMA QuietKept ==
  ASSUME MutationInv, QuietStep
  PROVE  StretchInv'
<1>0. /\ TypeOK /\ TxTypeOK /\ Shape /\ Inventory \subseteq Nodes
      /\ Len(gens) \in Nat \ {0} /\ Inventory \subseteq used
      /\ StretchInv
  BY InventoryType DEF MutationInv, StretchInv, CandidateInv, CoreInv, History,
      Inventory
<1> USE DEF Handler, Cleaning, Ending, TypeOK, TxTypeOK
<1> USE DEF StretchInv, CandidateInv, Candidates, CandidateRoots,
    CandidateSupport, CandidateEntries, CandidateTraces, Recorded, Leaving,
    Retired, Drifted, Cleaned, Inventory, Adding, Recording, Removing,
    Retiring, CleaningUp, AddingSteps, RemovingSteps, RetiringSteps, Forward,
    Undoing, durable, inventory, host, control
<1>1. ASSUME NEW r \in Readers, Lease(r)
      PROVE  StretchInv'
  BY <1>1, <1>0 DEF Lease
<1>2. ASSUME NEW r \in Readers, Release(r)
      PROVE  StretchInv'
  BY <1>2, <1>0 DEF Release
<1>3. ASSUME RequestCancellation PROVE StretchInv'
  BY <1>3, <1>0 DEF RequestCancellation, Running
<1>4. ASSUME Refuse PROVE StretchInv'
  BY <1>4, <1>0 DEF Refuse
<1>5. ASSUME Ended PROVE StretchInv'
  BY <1>5, <1>0 DEF Ended, mutationVars
<1> QED
  BY <1>1, <1>2, <1>3, <1>4, <1>5 DEF QuietStep

-----------------------------------------------------------------------------
(* The invariant and the theorems.                                         *)

\* The run starts with its initial nodes prepared, listed and running.
LEMMA InitiallyInvariant ==
  ASSUME MutationInit
  PROVE  MutationInv
<1>0. /\ gens = <<Initial>> /\ Len(gens) = 1 /\ Inventory = Initial
      /\ DOMAIN gens = {1} /\ gens[1] = Initial
  BY DEF MutationInit, Inventory
<1>1. TypeOK
  <2>1. gens \in Seq(SUBSET Nodes) /\ Len(gens) \in 1..MaxGenerations
    BY <1>0, NodeMutationAssumption
  <2>2. held \in [Readers -> 0..Len(gens)] /\ faults \in 0..MaxFaults
    BY <1>0, NodeMutationAssumption DEF MutationInit
  <2> QED
    BY <2>1, <2>2, NodeMutationAssumption DEF MutationInit, TypeOK, Live,
        States
<1>2. TxTypeOK /\ tx.kind = "none" /\ ~tx.published
  BY DEF MutationInit, NoTx, TxTypeOK
<1>3. ~Adding /\ ~Recording /\ ~Removing /\ ~Retiring /\ ~CleaningUp
  BY <1>2 DEF Adding, Recording, Removing, Retiring, CleaningUp
<1>4. Shape
  BY <1>2, <1>3 DEF MutationInit, Shape, Handler, Cleaning
<1>5. ResourcesAreListed /\ PublishedSurvivesRecovery /\ LiveHasRoot
  BY <1>0 DEF MutationInit, ResourcesAreListed, PublishedSurvivesRecovery,
      LiveHasRoot, Live
<1>6. SettledIsConsistent /\ RefusalIsExplained /\ RecoveryIsComplete
  BY <1>0 DEF MutationInit, SettledIsConsistent, RefusalIsExplained,
      RecoveryIsComplete
<1>7. History
  BY <1>0 DEF MutationInit, History, IdsNeverReused
<1>8. Leases
  BY <1>0 DEF MutationInit, Leases, LeaseHonoured
<1> QED
  BY <1>1, <1>2, <1>3, <1>4, <1>5, <1>6, <1>7, <1>8 DEF MutationInv,
      StretchInv, CandidateInv, CoreInv, Candidates, CandidateRoots,
      CandidateSupport, CandidateEntries, CandidateTraces, Recorded, Leaving,
      Retired, Drifted, Cleaned

\* A step that changes nothing here keeps the invariant.
LEMMA StutteringStep ==
  ASSUME MutationInv, UNCHANGED mutationVars
  PROVE  MutationInv'
<1>1. UNCHANGED <<Inventory, Running, Adding, Recording, Removing, Retiring,
                  CleaningUp>>
  BY DEF mutationVars, Inventory, Running, Adding, Recording, Removing,
      Retiring, CleaningUp
<1>2. CoreInv'
  BY <1>1 DEF mutationVars, MutationInv, CoreInv, TypeOK, TxTypeOK, Shape
<1>3. /\ (ResourcesAreListed /\ PublishedSurvivesRecovery /\ LiveHasRoot)'
      /\ (SettledIsConsistent /\ RefusalIsExplained /\ RecoveryIsComplete)'
  BY <1>1 DEF mutationVars, MutationInv, ResourcesAreListed,
      PublishedSurvivesRecovery, LiveHasRoot, SettledIsConsistent,
      RefusalIsExplained, RecoveryIsComplete
<1>4. (History /\ Leases)'
  BY <1>1 DEF mutationVars, MutationInv, History, IdsNeverReused, Leases,
      LeaseHonoured, ReadersDrained
<1>5. /\ (Candidates /\ CandidateRoots /\ CandidateSupport)'
      /\ (CandidateEntries /\ CandidateTraces /\ Recorded)'
  BY <1>1 DEF mutationVars, MutationInv, StretchInv, CandidateInv, Candidates,
      CandidateRoots, CandidateSupport, CandidateEntries, CandidateTraces,
      Recorded
<1>6. (Leaving /\ Retired /\ Drifted /\ Cleaned)'
  BY <1>1 DEF mutationVars, MutationInv, StretchInv, Leaving, Retired, Drifted,
      Cleaned
<1> QED
  BY <1>2, <1>3, <1>4, <1>5, <1>6 DEF MutationInv, StretchInv, CandidateInv

\* Every step keeps the invariant, by the stretch it belongs to.
LEMMA MutationStep ==
  ASSUME MutationInv, MutationNext
  PROVE  MutationInv'
<1>0. CoreInv' /\ RefusalIsExplained'
  BY TypeStep, TxStep, ShapeStep, RefusalStep DEF CoreInv
<1>1. CASE QuietStep
  BY <1>0, <1>1, QuietIsListed, QuietKeepsHistory, QuietSettles, QuietKept DEF
      MutationInv, StretchInv, CandidateInv
<1>2. CASE Begins
  BY <1>0, <1>2, BeginningIsListed, BeginningKeepsHistory,
      BeginningIsUnsettled, BeginningStarts DEF MutationInv, StretchInv,
      CandidateInv
<1>3. CASE Adding /\ AdditionStep
  BY <1>0, <1>3, CandidatesKept, RootsKept, SupportKept, EntriesKept,
      TracesKept, AdditionIsListed, AdditionDrifts, AdditionKeepsHistory,
      AdditionSettles, AdditionIsNoRemoval DEF MutationInv, StretchInv,
      CandidateInv
<1>4. CASE Recording /\ (Record \/ RecordThrows)
  BY <1>0, <1>4, RecordIsListed, RecordKeepsHistory, RecordSettles, RecordEnds
      DEF MutationInv, StretchInv, CandidateInv
<1>5. CASE Removing /\ RemovalStep
  BY <1>0, <1>5, LeavingKept, RemovalIsListed, RemovalDrifts,
      RemovalKeepsHistory, RemovalSettles, RemovalIsNoAddition DEF MutationInv,
      StretchInv, CandidateInv
<1>6. CASE Retiring /\ RetirementStep
  BY <1>0, <1>6, RetirementKept, RetirementIsListed, RetirementKeepsHistory,
      RetirementSettles, RetirementIsNoOther DEF MutationInv, StretchInv,
      CandidateInv
<1>7. CASE CleaningUp /\ CleanupStep
  BY <1>0, <1>7, CleanupKept, CleanupIsListed, CleanupKeepsHistory,
      CleanupCompletes, CleanupIsNoOther DEF MutationInv, StretchInv,
      CandidateInv
<1>8. CASE EndStep
  BY <1>0, <1>8, EndIsListed, EndKeepsHistory, EndIsUnsettled, EndStarts DEF
      MutationInv, StretchInv, CandidateInv
<1> QED
  BY <1>1, <1>2, <1>3, <1>4, <1>5, <1>6, <1>7, <1>8, StepKinds

\* What OutcomeIsTrue says of a step.
TrueOutcome ==
    outcome' # outcome =>
        /\ outcome' = "completed" => tx.published /\ ~cancel
        /\ outcome' \in {"failed", "cancelled"} => ~tx.published

\* Every step tells the truth about the command it ends.
LEMMA OutcomeStep ==
  ASSUME MutationInv, MutationNext
  PROVE  TrueOutcome
<1>0. TxTypeOK /\ Shape
  BY DEF MutationInv, StretchInv, CandidateInv, CoreInv
<1> USE DEF Handler, Cleaning
<1>1. ASSUME NEW r \in Readers, Lease(r)
      PROVE  TrueOutcome
  BY <1>1 DEF Lease, TrueOutcome
<1>2. ASSUME NEW r \in Readers, Release(r)
      PROVE  TrueOutcome
  BY <1>2 DEF Release, TrueOutcome
<1>3. ASSUME RequestCancellation PROVE TrueOutcome
  BY <1>3 DEF RequestCancellation, TrueOutcome
<1>4. ASSUME Refuse PROVE TrueOutcome
  BY <1>4, <1>0 DEF Refuse, Shape, NoTx, TrueOutcome
<1>5. ASSUME NEW S \in SUBSET Nodes, NEW masternode \in BOOLEAN,
             NEW expands \in BOOLEAN, BeginAdd(S, masternode, expands)
      PROVE  TrueOutcome
  BY <1>5 DEF BeginAdd, TrueOutcome
<1>6. ASSUME NEW S \in SUBSET Nodes, StageThrows(S)
      PROVE  TrueOutcome
  BY <1>6 DEF StageThrows, TrueOutcome
<1>7. ASSUME NEW S \in SUBSET Nodes, BeginRemove(S)
      PROVE  TrueOutcome
  BY <1>7 DEF BeginRemove, TrueOutcome
<1>8. ASSUME NEW n \in Nodes, Reserve(n)
      PROVE  TrueOutcome
  BY <1>8 DEF Reserve, TrueOutcome
<1>9. ASSUME NEW n \in Nodes, UpdatePolicy(n)
      PROVE  TrueOutcome
  BY <1>9 DEF UpdatePolicy, TrueOutcome
<1>10. ASSUME NEW n \in Nodes, UpdatePolicyUnconfirmed(n)
      PROVE  TrueOutcome
  BY <1>10 DEF UpdatePolicyUnconfirmed, TrueOutcome
<1>11. ASSUME NEW n \in Nodes, NEW failure \in {"failed", "cancelled"},
              ReserveThrows(n, failure)
      PROVE  TrueOutcome
  BY <1>11 DEF ReserveThrows, TrueOutcome
<1>12. ASSUME NEW n \in Nodes, NEW failure \in {"failed", "cancelled"},
              UpdatePolicyThrows(n, failure)
      PROVE  TrueOutcome
  BY <1>12 DEF UpdatePolicyThrows, TrueOutcome
<1>13. ASSUME NEW failure \in {"failed", "cancelled"}, EquipThrows(failure)
      PROVE  TrueOutcome
  BY <1>13 DEF EquipThrows, TrueOutcome
<1>14. ASSUME NEW failure \in {"failed", "cancelled"}, StepThrows(failure)
      PROVE  TrueOutcome
  BY <1>14 DEF StepThrows, TrueOutcome
<1>15. ASSUME NEW M \in SUBSET Inventory,
              NEW failure \in {"failed", "cancelled"},
              ConnectPeersThrows(M, failure)
      PROVE  TrueOutcome
  BY <1>15 DEF ConnectPeersThrows, TrueOutcome
<1>16. ASSUME Prepare PROVE TrueOutcome
  BY <1>16 DEF Prepare, TrueOutcome
<1>17. ASSUME Claim PROVE TrueOutcome
  BY <1>17 DEF Claim, TrueOutcome
<1>18. ASSUME ClaimThrows PROVE TrueOutcome
  BY <1>18 DEF ClaimThrows, TrueOutcome
<1>19. ASSUME Equip PROVE TrueOutcome
  BY <1>19 DEF Equip, TrueOutcome
<1>20. ASSUME StartNodes PROVE TrueOutcome
  BY <1>20 DEF StartNodes, TrueOutcome
<1>21. ASSUME PoliciesUpdated PROVE TrueOutcome
  BY <1>21 DEF PoliciesUpdated, TrueOutcome
<1>22. ASSUME NEW M \in SUBSET Inventory, ConnectPeers(M)
      PROVE  TrueOutcome
  BY <1>22 DEF ConnectPeers, TrueOutcome
<1>23. ASSUME Synchronize PROVE TrueOutcome
  BY <1>23 DEF Synchronize, TrueOutcome
<1>24. ASSUME Register PROVE TrueOutcome
  BY <1>24 DEF Register, TrueOutcome
<1>25. ASSUME NEW R \in SUBSET tx.ids,
              NEW failure \in {"failed", "cancelled", "unconfirmed"},
              RegisterThrows(R, failure)
      PROVE  TrueOutcome
  BY <1>25 DEF RegisterThrows, TrueOutcome
<1>26. ASSUME WriteLive PROVE TrueOutcome
  BY <1>26 DEF WriteLive, TrueOutcome
<1>27. ASSUME WriteLiveThrows PROVE TrueOutcome
  BY <1>27 DEF WriteLiveThrows, TrueOutcome
<1>28. ASSUME CommitRefused PROVE TrueOutcome
  BY <1>28 DEF CommitRefused, TrueOutcome
<1>29. ASSUME Publish PROVE TrueOutcome
  BY <1>29 DEF Publish, TrueOutcome
<1>30. ASSUME RestoreReservation PROVE TrueOutcome
  BY <1>30 DEF RestoreReservation, TrueOutcome
<1>31. ASSUME Revoke PROVE TrueOutcome
  BY <1>31 DEF Revoke, TrueOutcome
<1>32. ASSUME StopCandidates PROVE TrueOutcome
  BY <1>32 DEF StopCandidates, TrueOutcome
<1>33. ASSUME Reset PROVE TrueOutcome
  BY <1>33 DEF Reset, TrueOutcome
<1>34. ASSUME Reconcile PROVE TrueOutcome
  BY <1>34 DEF Reconcile, TrueOutcome
<1>35. ASSUME Unstage PROVE TrueOutcome
  BY <1>35 DEF Unstage, TrueOutcome
<1>36. ASSUME Settle PROVE TrueOutcome
<2>1. ~tx.published
    BY <1>36, <1>0 DEF Settle, Shape, Adding, Removing, Recording, Retiring,
        CleaningUp, RetiringSteps
<2>2. outcome' # "completed"
    BY <1>36, <1>0 DEF Settle, Ends, TxTypeOK
<2> QED
    BY <2>1, <2>2 DEF TrueOutcome
<1>37. ASSUME Record PROVE TrueOutcome
<2>1. tx.published /\ ~cancel
    BY <1>37, <1>0 DEF Record, Shape, Adding, Removing, Recording, Retiring,
        CleaningUp, AddingSteps, Forward, Undoing, RemovingSteps, RetiringSteps
<2> QED
    BY <1>37, <2>1 DEF Record, Ends, TrueOutcome
<1>38. ASSUME RecordThrows PROVE TrueOutcome
  BY <1>38 DEF RecordThrows, Ends, TrueOutcome
<1>39. ASSUME Mark PROVE TrueOutcome
  BY <1>39 DEF Mark, TrueOutcome
<1>40. ASSUME MarkThrows PROVE TrueOutcome
  BY <1>40 DEF MarkThrows, TrueOutcome
<1>41. ASSUME Unmark PROVE TrueOutcome
<2>1. ~tx.published
    BY <1>41, <1>0 DEF Unmark, Shape, Adding, Removing, Recording, Retiring,
        CleaningUp, RetiringSteps
<2>2. Ends("failed") \/ Ends("unconfirmed")
    BY <1>41, Zenon DEF Unmark
<2> QED
    BY <2>1, <2>2 DEF Ends, TrueOutcome
<1>42. ASSUME PublishRemoval PROVE TrueOutcome
  BY <1>42 DEF PublishRemoval, TrueOutcome
<1>43. ASSUME Drain PROVE TrueOutcome
  BY <1>43 DEF Drain, TrueOutcome
<1>44. ASSUME DrainTimesOut PROVE TrueOutcome
  BY <1>44 DEF DrainTimesOut, Ends, TrueOutcome
<1>45. ASSUME Retire PROVE TrueOutcome
  BY <1>45 DEF Retire, TrueOutcome
<1>46. ASSUME RetireThrows PROVE TrueOutcome
  BY <1>46 DEF RetireThrows, Ends, TrueOutcome
<1>47. ASSUME Promote PROVE TrueOutcome
<2>1. tx.published /\ ~cancel
    BY <1>47, <1>0 DEF Promote, Shape, Adding, Removing, Recording, Retiring,
        CleaningUp, AddingSteps, Forward, Undoing, RemovingSteps, RetiringSteps
<2> QED
    BY <1>47, <2>1 DEF Promote, Ends, TrueOutcome
<1>48. ASSUME PromoteThrows PROVE TrueOutcome
  BY <1>48 DEF PromoteThrows, Ends, TrueOutcome
<1>49. ASSUME NEW n \in Nodes, UnlinkMarker(n)
      PROVE  TrueOutcome
  BY <1>49 DEF UnlinkMarker, TrueOutcome
<1>50. ASSUME NEW n \in Nodes, UnlinkMarkerThrows(n)
      PROVE  TrueOutcome
  BY <1>50 DEF UnlinkMarkerThrows, RootKept, Ends, TrueOutcome
<1>51. ASSUME RootsRemoved PROVE TrueOutcome
  BY <1>51 DEF RootsRemoved, TrueOutcome
<1>52. ASSUME RemoveDirectory PROVE TrueOutcome
  BY <1>52 DEF RemoveDirectory, TrueOutcome
<1>53. ASSUME RemoveDirectoryThrows PROVE TrueOutcome
  BY <1>53 DEF RemoveDirectoryThrows, RootKept, Ends, TrueOutcome
<1>54. ASSUME StopRun PROVE TrueOutcome
  BY <1>54 DEF StopRun, TrueOutcome
<1>55. ASSUME Crash PROVE TrueOutcome
  BY <1>55 DEF Crash, TrueOutcome
<1>56. ASSUME CleanupRefused PROVE TrueOutcome
  BY <1>56 DEF CleanupRefused, TrueOutcome
<1>57. ASSUME Cleanup PROVE TrueOutcome
  BY <1>57 DEF Cleanup, TrueOutcome
<1>58. ASSUME Rewrite PROVE TrueOutcome
  BY <1>58 DEF Rewrite, TrueOutcome
<1>59. ASSUME CleanupKilled PROVE TrueOutcome
  BY <1>59 DEF CleanupKilled, TrueOutcome
<1>60. ASSUME Ended PROVE TrueOutcome
  BY <1>60 DEF Ended, mutationVars, TrueOutcome
<1> QED
  BY <1>1, <1>2, <1>3, <1>4, <1>5, <1>6, <1>7, <1>8, <1>9, <1>10, <1>11, <1>12,
      <1>13, <1>14, <1>15, <1>16, <1>17, <1>18, <1>19, <1>20, <1>21, <1>22,
      <1>23, <1>24, <1>25, <1>26, <1>27, <1>28, <1>29, <1>30, <1>31, <1>32,
      <1>33, <1>34, <1>35, <1>36, <1>37, <1>38, <1>39, <1>40, <1>41, <1>42,
      <1>43, <1>44, <1>45, <1>46, <1>47, <1>48, <1>49, <1>50, <1>51, <1>52,
      <1>53, <1>54, <1>55, <1>56, <1>57, <1>58, <1>59, <1>60 DEF MutationNext,
      AddStep, HandlerStep, RootStep

\* MutationInv holds in every reachable state: of AddRuntimeNodesTransactional,
\* of RemoveRuntimeNodesTransactional and of the cleanup of what they left.
THEOREM InvariantHolds == MutationSpec => []MutationInv
<1>1. MutationInit => MutationInv
  BY InitiallyInvariant
<1>2. MutationInv /\ [MutationNext]_mutationVars => MutationInv'
  BY MutationStep, StutteringStep
<1> QED
  BY <1>1, <1>2, PTL DEF MutationSpec

\* Whatever fails and wherever the process dies, every node root and every
\* process, cgroup or namespace belongs to a node the manifest lists, so the
\* cleanup of a later process finds it.
THEOREM NothingIsUnlisted == MutationSpec => []ResourcesAreListed
<1>1. MutationInv => ResourcesAreListed
  BY DEF MutationInv
<1> QED
  BY <1>1, InvariantHolds, PTL

\* The promises of the mutations: a published node survives a recovery, a
\* settled run is consistent, a refusal has its reason, a complete recovery has
\* freed everything, no id is reused and the leases of the last two generations
\* are honoured.
THEOREM MutationsAreCorrect == MutationSpec => []MutationCorrect
<1>1. MutationInv => MutationCorrect
  BY DEF MutationInv, CoreInv, History, Leases, MutationCorrect
<1> QED
  BY <1>1, InvariantHolds, PTL

\* A command is reported completed only when its generation is published and no
\* cancellation was accepted, failed or cancelled only when it published none.
THEOREM OutcomesAreHonest == MutationSpec => OutcomeIsTrue
<1>1. MutationInv /\ [MutationNext]_mutationVars => [TrueOutcome]_mutationVars
  BY OutcomeStep
<1>2. MutationSpec => [][TrueOutcome]_mutationVars
  BY <1>1, InvariantHolds, PTL DEF MutationSpec
<1> QED
  BY <1>2 DEF OutcomeIsTrue, TrueOutcome

=============================================================================
