-------------------------- MODULE MCCommandPipeline --------------------------
(***************************************************************************)
(* Instances of CommandPipeline for TLC: the commands, and which kind each *)
(* of them is in the fleet a cfg file selects.                             *)
(***************************************************************************)
EXTENDS CommandPipeline, TLC

CONSTANTS add, remove, resource, signal, target, role, kill, generate

KindOf ==
    (add :> "node") @@ (remove :> "node") @@ (resource :> "resource")
    @@ (signal :> "signal") @@ (target :> "target") @@ (role :> "role")
    @@ (kill :> "plain") @@ (generate :> "unlocked")

FleetKind == [c \in Commands |-> KindOf[c]]
=============================================================================
