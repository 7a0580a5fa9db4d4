----------------------------- MODULE CgroupScope -----------------------------
(***************************************************************************)
(* The part of the cgroup hierarchy that every simulator on a host shares  *)
(* (src/cgroup.cpp): the simulator directory, the controller directory the *)
(* processes of the cgroup root are moved to, the controllers that were    *)
(* switched on, and one directory per run.  A durable state file says what *)
(* was changed so that the last run to leave, or a later simulator after a *)
(* crash, can put the host back.  All of it happens under one flock.       *)
(*                                                                         *)
(* One action is one system call that changes the hierarchy or the file.   *)
(* Identities (device, inode, mount) are reduced to whether a directory is *)
(* the one the file records: nobody but a simulator touches the hierarchy. *)
(***************************************************************************)
EXTENDS Naturals, FiniteSets

CONSTANTS
    Simulators,      \* simulator processes of this host
    Runs,            \* runs, each with its own cgroup name
    NoRun, NoSimulator,
    MaxScopeFaults,  \* bound: system calls that fail
    MaxScopeCrashes  \* bound: simulators that die

ASSUME ScopeAssumption ==
    /\ NoRun \notin Runs /\ NoSimulator \notin Simulators
    /\ MaxScopeFaults \in Nat /\ MaxScopeCrashes \in Nat

VARIABLES
    scopeFile,    \* the durable state, or NoScope
    tree,         \* the hierarchy: directories, controllers, root processes, and
                  \* whether the simulator directory was there to begin with
    scopeOp,      \* the call that holds the lock, or NoOp
    runState,     \* how far each run is
    runOwner,     \* the simulator that prepares or has prepared it
    orphans,      \* directories made by a call that did not live to record them
    scopeFaults, scopeCrashes

scopeVars == <<scopeFile, tree, scopeOp, runState, runOwner, orphans,
               scopeFaults, scopeCrashes>>

NoScope == [kind |-> "none"]
NoOp == [pc |-> "idle"]

\* CgroupScopeState, as far as the decisions use it.  sim and ctl: the
\* identity of that directory is recorded; ready: restoration_ready.
ScopeStates ==
    [kind: {"scope"}, pre: BOOLEAN, sim: BOOLEAN, ctl: BOOLEAN, ready: BOOLEAN,
     active: SUBSET Runs, bound: SUBSET Runs, pending: Runs \cup {NoRun},
     created: BOOLEAN]

InUse(s) == s.active # {} \/ s.pending # NoRun

\* LoadCgroupScopeState: what a state file must satisfy to be used at all.
Loadable(s) ==
    /\ s.pending = NoRun => ~s.created
    /\ \A r \in s.bound : r \in s.active \/ (s.created /\ s.pending = r)
    /\ s.pre => s.sim
    /\ s.ctl => s.sim
    /\ InUse(s) => s.sim /\ s.ctl
    /\ s.ready => ~InUse(s) /\ s.bound = {}

\* BindCgroupScope: the directories that exist must be the recorded ones, and
\* the recorded ones must exist unless a restoration already removed them.
Bindable(s) ==
    /\ tree.sim => s.sim
    /\ ~tree.sim => ~(s.pre \/ InUse(s) \/ (s.sim /\ ~s.ready))
    /\ tree.sim => /\ tree.ctl => s.ctl
                   /\ ~tree.ctl => ~(InUse(s) \/ (s.ctl /\ ~s.ready))

\* RequireBoundScopeHierarchy, with what the call itself has open.
HierarchyOk(s) ==
    /\ scopeOp.sim = tree.sim /\ (scopeOp.sim => s.sim)
    /\ scopeOp.sim => scopeOp.ctl = tree.ctl /\ (scopeOp.ctl => s.ctl)

\* NewCgroupScopeState and RecordExistingResourceCgroups.
NewScopeState ==
    [kind |-> "scope", pre |-> tree.sim, sim |-> tree.sim, ctl |-> FALSE,
     ready |-> FALSE, active |-> IF tree.sim THEN tree.runs ELSE {},
     bound |-> {}, pending |-> NoRun, created |-> FALSE]

ScopeInit ==
    /\ scopeFile = NoScope
    /\ \E found \in BOOLEAN :
          tree = [found |-> found, sim |-> found, ctl |-> FALSE, rootOn |-> FALSE,
                  simOn |-> FALSE, procs |-> "root", runs |-> {}, enabled |-> {}]
    /\ scopeOp = NoOp
    /\ runState = [r \in Runs |-> "new"]
    /\ runOwner = [r \in Runs |-> NoSimulator]
    /\ orphans = {}
    /\ scopeFaults = 0 /\ scopeCrashes = 0

----------------------------------------------------------------------------
(* Taking the lock, going on, and failing. *)

At(pc) == scopeOp.pc = pc
Goto(pc) == scopeOp' = [scopeOp EXCEPT !.pc = pc]
Runs3 == <<runState, runOwner, orphans>>
Counts == <<scopeFaults, scopeCrashes>>

\* CgroupScopeLock: the exclusive flock on the cgroup root.
LockScope(p, kind, r) ==
    /\ scopeOp = NoOp
    /\ scopeOp' = [pc |-> kind, by |-> p, kind |-> kind, run |-> r,
                   s |-> scopeFile, sim |-> FALSE, ctl |-> FALSE,
                   made |-> FALSE, attempted |-> FALSE, published |-> FALSE,
                   rolling |-> FALSE, then |-> "none", refused |-> FALSE]

\* Where an exception leads: the rollback of PrepareRunInScope, if there is
\* anything to roll back and it is not the rollback that throws.
Handler ==
    IF scopeOp.kind = "prepare" /\ ~scopeOp.rolling
       /\ (scopeOp.attempted \/ scopeOp.published)
    THEN "rollback" ELSE "failed"

\* A check of the code refuses: an exception without a failing system call.
RefuseScope == scopeOp' = [scopeOp EXCEPT !.pc = Handler, !.refused = TRUE]

Throw == /\ scopeFaults < MaxScopeFaults
         /\ scopeFaults' = scopeFaults + 1
         /\ UNCHANGED scopeCrashes

\* WriteCgroupScopeState replaces the file by a rename; when it throws, the
\* rename may or may not have happened.  The caller's copy is changed first.
WriteScope(s, pc) ==
    \/ /\ scopeFile' = s
       /\ scopeOp' = [scopeOp EXCEPT !.s = s, !.pc = pc]
       /\ UNCHANGED Counts
    \/ /\ Throw
       /\ scopeFile' \in {scopeFile, s}
       /\ scopeOp' = [scopeOp EXCEPT !.s = s, !.pc = Handler]

\* A system call that changes the hierarchy: it succeeds, or throws with the
\* change made or not.
Mutate(t, pc) ==
    \/ tree' = t /\ Goto(pc) /\ UNCHANGED Counts
    \/ Throw /\ tree' \in {tree, t} /\ Goto(Handler)

----------------------------------------------------------------------------
(* PrepareRunInScope *)

\* Cgroup::PrepareRun for a run of this simulator.
BeginPrepare(p, r) ==
    /\ runState[r] = "new" /\ p \notin {runOwner[q] : q \in Runs}
    /\ LockScope(p, "prepare", r)
    /\ runState' = [runState EXCEPT ![r] = "preparing"]
    /\ runOwner' = [runOwner EXCEPT ![r] = p]
    /\ UNCHANGED <<scopeFile, tree, orphans, Counts>>

\* The state file exists: load and bind it, or refuse.
LoadForPrepare ==
    /\ At("prepare")
    /\ IF scopeFile = NoScope THEN Goto("new")
       ELSE IF Loadable(scopeFile) /\ Bindable(scopeFile)
            THEN scopeOp' = [scopeOp EXCEPT
                     !.sim = tree.sim, !.ctl = tree.sim /\ tree.ctl,
                     !.pc = IF scopeFile.pending = NoRun THEN "survey"
                            ELSE IF scopeFile.created THEN "rmPending"
                            ELSE "wrRecovered"]
            ELSE RefuseScope
    /\ UNCHANGED <<scopeFile, tree, Runs3, Counts>>

\* RecoverInterruptedCgroupPreparation removes the directory it can prove...
RemovePending ==
    /\ At("rmPending")
    /\ LET r == scopeOp.s.pending IN
       IF r \in scopeOp.s.bound /\ r \in tree.runs
       THEN Mutate([tree EXCEPT !.runs = @ \ {r}, !.enabled = @ \ {r}],
                   "wrRecovered")
       ELSE RefuseScope /\ UNCHANGED <<tree, Counts>>
    /\ UNCHANGED <<scopeFile, Runs3>>

\* ... and forgets the pending run.
ForgetPending ==
    /\ At("wrRecovered")
    /\ WriteScope([scopeOp.s EXCEPT !.bound = @ \ {scopeOp.s.pending},
                                    !.pending = NoRun, !.created = FALSE],
                  "survey")
    /\ UNCHANGED <<tree, Runs3>>

\* Runs whose directory is gone are dropped; if none is left the old scope is
\* restored before a new one is started.
SurveyRuns ==
    /\ At("survey")
    /\ LET s == [scopeOp.s EXCEPT !.active = @ \cap tree.runs,
                     !.bound = @ \ (scopeOp.s.active \ tree.runs)] IN
       IF s.active # {}
       THEN /\ scopeOp' = [scopeOp EXCEPT !.s = s, !.pc = "reserve"]
            /\ UNCHANGED <<scopeFile, Counts>>
       ELSE /\ WriteScope(s, "restoreThenNew")
    /\ UNCHANGED <<tree, Runs3>>

\* A new scope is published before anything is changed.
PublishScope ==
    /\ At("new")
    /\ LET s == NewScopeState IN
       IF scopeOp.run \in s.active
       THEN RefuseScope /\ UNCHANGED <<scopeFile, Counts>>
       ELSE \/ /\ scopeFile' = s
               /\ scopeOp' = [scopeOp EXCEPT !.s = s, !.sim = tree.sim,
                                  !.published = TRUE,
                                  !.pc = IF tree.sim THEN "mkCtl" ELSE "mkSim"]
               /\ UNCHANGED Counts
            \/ /\ Throw /\ scopeFile' \in {scopeFile, s} /\ Goto("failed")
    /\ UNCHANGED <<tree, Runs3>>

\* StartCgroupScope makes the simulator directory and records its identity.
MakeSimulator ==
    /\ At("mkSim")
    /\ Mutate([tree EXCEPT !.sim = TRUE], "wrSim")
    /\ UNCHANGED <<scopeFile, Runs3>>

RecordSimulator ==
    /\ At("wrSim")
    /\ \/ /\ scopeFile' = [scopeOp.s EXCEPT !.sim = TRUE]
          /\ scopeOp' = [scopeOp EXCEPT !.s.sim = TRUE, !.sim = TRUE, !.pc = "mkCtl"]
          /\ UNCHANGED Counts
       \/ /\ Throw /\ scopeFile' \in {scopeFile, [scopeOp.s EXCEPT !.sim = TRUE]}
          /\ scopeOp' = [scopeOp EXCEPT !.s.sim = TRUE, !.sim = TRUE, !.pc = Handler]
    /\ UNCHANGED <<tree, Runs3>>

\* The same for the controller directory.
MakeController ==
    /\ At("mkCtl")
    /\ Mutate([tree EXCEPT !.ctl = TRUE], "wrCtl")
    /\ UNCHANGED <<scopeFile, Runs3>>

RecordController ==
    /\ At("wrCtl")
    /\ \/ /\ scopeFile' = [scopeOp.s EXCEPT !.ctl = TRUE]
          /\ scopeOp' = [scopeOp EXCEPT !.s.ctl = TRUE, !.ctl = TRUE, !.pc = "moveIn"]
          /\ UNCHANGED Counts
       \/ /\ Throw /\ scopeFile' \in {scopeFile, [scopeOp.s EXCEPT !.ctl = TRUE]}
          /\ scopeOp' = [scopeOp EXCEPT !.s.ctl = TRUE, !.ctl = TRUE, !.pc = Handler]
    /\ UNCHANGED <<tree, Runs3>>

\* MoveCgroupProcesses: the processes of the root, up to twenty rounds.
MoveProcesses ==
    /\ At("moveIn")
    /\ Mutate([tree EXCEPT !.procs = "ctl"], "rootOn")
    /\ UNCHANGED <<scopeFile, Runs3>>

\* SetControllersAt writes cgroup.subtree_control and reads it back.
EnableControllers ==
    /\ \/ At("rootOn") /\ Mutate([tree EXCEPT !.rootOn = TRUE], "simOn")
       \/ At("simOn") /\ Mutate([tree EXCEPT !.simOn = TRUE], "reserve")
    /\ UNCHANGED <<scopeFile, Runs3>>

\* The run is announced in the file before its directory exists.
ReserveRun ==
    /\ At("reserve")
    /\ IF scopeOp.run \in scopeOp.s.active
       THEN RefuseScope /\ UNCHANGED <<scopeFile, Counts>>
       ELSE LET s == [scopeOp.s EXCEPT !.pending = scopeOp.run, !.created = FALSE]
            IN \/ /\ scopeFile' = s
                  /\ scopeOp' = [scopeOp EXCEPT !.s = s, !.attempted = TRUE, !.pc = "mkRun"]
                  /\ UNCHANGED Counts
               \/ /\ Throw /\ scopeFile' \in {scopeFile, s}
                  /\ scopeOp' = [scopeOp EXCEPT !.s = s, !.attempted = TRUE, !.pc = "rollback"]
    /\ UNCHANGED <<tree, Runs3>>

\* CreateCgroupDirectoryExclusiveAt never adopts a directory that is there.
MakeRun ==
    /\ At("mkRun")
    /\ LET r == scopeOp.run IN
       IF r \in tree.runs
       THEN RefuseScope /\ UNCHANGED <<tree, orphans, Counts>>
       ELSE \/ /\ tree' = [tree EXCEPT !.runs = @ \cup {r}]
               /\ scopeOp' = [scopeOp EXCEPT !.made = TRUE, !.pc = "wrCreated"]
               /\ UNCHANGED <<orphans, Counts>>
            \/ /\ Throw /\ Goto("rollback")
               /\ \/ UNCHANGED <<tree, orphans>>
                  \/ /\ tree' = [tree EXCEPT !.runs = @ \cup {r}]
                     /\ orphans' = orphans \cup {r}
    /\ UNCHANGED <<scopeFile, runState, runOwner>>

RecordRun ==
    /\ At("wrCreated")
    /\ WriteScope([scopeOp.s EXCEPT !.bound = @ \cup {scopeOp.run}, !.created = TRUE],
                  "enableRun")
    /\ UNCHANGED <<tree, Runs3>>

\* RequireControllersAvailableAt: the kernel offers a run the controllers that
\* the simulator directory passes on.
EnableRun ==
    /\ At("enableRun")
    /\ IF tree.simOn
       THEN Mutate([tree EXCEPT !.enabled = @ \cup {scopeOp.run}], "wrActive")
       ELSE RefuseScope /\ UNCHANGED <<tree, Counts>>
    /\ UNCHANGED <<scopeFile, Runs3>>

ActivateRun ==
    /\ At("wrActive")
    /\ WriteScope([scopeOp.s EXCEPT !.active = @ \cup {scopeOp.run},
                                    !.pending = NoRun, !.created = FALSE], "ok")
    /\ UNCHANGED <<tree, Runs3>>

\* The handler of PrepareRunInScope: remove the run's directory if it was
\* acquired, forget the run, and restore the scope if it was the only one.
RollBackRun ==
    /\ At("rollback")
    /\ scopeOp' = [scopeOp EXCEPT !.rolling = TRUE,
                       !.pc = IF scopeOp.made THEN "rmMade" ELSE "wrRolled"]
    /\ UNCHANGED <<scopeFile, tree, Runs3, Counts>>

RemoveMade ==
    /\ At("rmMade")
    /\ Mutate([tree EXCEPT !.runs = @ \ {scopeOp.run}, !.enabled = @ \ {scopeOp.run}],
              "wrRolled")
    /\ UNCHANGED <<scopeFile, Runs3>>

ForgetRun ==
    /\ At("wrRolled")
    /\ LET s == IF scopeOp.attempted
                THEN [scopeOp.s EXCEPT !.active = @ \ {scopeOp.run},
                          !.bound = @ \ {scopeOp.run}, !.pending = NoRun,
                          !.created = FALSE]
                ELSE scopeOp.s
       IN WriteScope(s, IF s.active = {} THEN "restoreThenFail" ELSE "failed")
    /\ UNCHANGED <<tree, Runs3>>

----------------------------------------------------------------------------
(* RestoreCgroupScope *)

\* Mutant: the host is restored whoever else is left.
HastyBeginRestore ==
    /\ scopeOp.pc \in {"restoreThenNew", "restoreThenFail", "restoreThenOk"}
    /\ scopeOp' = [scopeOp EXCEPT !.then = IF scopeOp.pc = "restoreThenNew" THEN "new"
                                           ELSE "failed", !.pc = "rmCtl"]
    /\ UNCHANGED <<scopeFile, tree, Runs3, Counts>>

\* The hierarchy is verified first; a scope that was already found restorable
\* goes straight to the removal of its directories.
BeginRestore ==
    /\ scopeOp.pc \in {"restoreThenNew", "restoreThenFail", "restoreThenOk"}
    /\ IF InUse(scopeOp.s) \/ scopeOp.s.bound # {} \/ ~HierarchyOk(scopeOp.s)
       THEN RefuseScope
       ELSE scopeOp' = [scopeOp EXCEPT
                !.then = CASE scopeOp.pc = "restoreThenNew" -> "new"
                           [] scopeOp.pc = "restoreThenFail" -> "failed"
                           [] OTHER -> "ok",
                !.pc = IF scopeOp.s.ready THEN "rmCtl" ELSE "simOff"]
    /\ UNCHANGED <<scopeFile, tree, Runs3, Counts>>

DisableControllers ==
    /\ \/ /\ At("simOff")
          /\ IF scopeOp.sim THEN Mutate([tree EXCEPT !.simOn = FALSE], "rootOff")
             ELSE Goto("rootOff") /\ UNCHANGED <<tree, Counts>>
       \/ At("rootOff") /\ Mutate([tree EXCEPT !.rootOn = FALSE], "moveOut")
    /\ UNCHANGED <<scopeFile, Runs3>>

MoveProcessesBack ==
    /\ At("moveOut")
    /\ IF scopeOp.ctl THEN Mutate([tree EXCEPT !.procs = "root"], "verify")
       ELSE Goto("verify") /\ UNCHANGED <<tree, Counts>>
    /\ UNCHANGED <<scopeFile, Runs3>>

\* RequireControllersPreservedAt, RequireNoCgroupDirectoryChildren, and the
\* note in the file that only directories are left to remove.
MarkRestorable ==
    /\ At("verify")
    /\ IF tree.rootOn \/ (scopeOp.sim /\ tree.simOn)
          \/ (scopeOp.sim /\ ~scopeOp.s.pre /\ tree.runs # {})
          \/ ~HierarchyOk(scopeOp.s)
       THEN RefuseScope /\ UNCHANGED <<scopeFile, Counts>>
       ELSE WriteScope([scopeOp.s EXCEPT !.ready = TRUE], "rmCtl")
    /\ UNCHANGED <<tree, Runs3>>

\* RemoveBoundCgroupDirectory on the two shared directories.
RemoveScopeDirectories ==
    /\ \/ /\ At("rmCtl")
          /\ \/ /\ tree' = IF scopeOp.ctl THEN [tree EXCEPT !.ctl = FALSE] ELSE tree
                /\ scopeOp' = [scopeOp EXCEPT !.ctl = FALSE, !.pc = "rmSim"]
                /\ UNCHANGED Counts
             \/ /\ scopeOp.ctl /\ Throw /\ Goto(Handler)
                /\ tree' \in {tree, [tree EXCEPT !.ctl = FALSE]}
       \/ /\ At("rmSim")
          /\ LET mine == scopeOp.sim /\ ~scopeOp.s.pre IN
             \/ /\ tree' = IF mine THEN [tree EXCEPT !.sim = FALSE] ELSE tree
                /\ scopeOp' = [scopeOp EXCEPT !.sim = @ /\ ~mine, !.pc = "unlink"]
                /\ UNCHANGED Counts
             \/ /\ mine /\ Throw /\ Goto(Handler)
                /\ tree' \in {tree, [tree EXCEPT !.sim = FALSE]}
    /\ UNCHANGED <<scopeFile, Runs3>>

\* RemoveScopeStateFile is the commit point of the restoration.
UnlinkScope ==
    /\ At("unlink")
    /\ \/ scopeFile' = NoScope /\ Goto(scopeOp.then) /\ UNCHANGED Counts
       \/ Throw /\ scopeFile' \in {scopeFile, NoScope} /\ Goto(Handler)
    /\ UNCHANGED <<tree, Runs3>>

----------------------------------------------------------------------------
(* RemoveRunInScope, for the simulator's own run and for a stale one *)

BeginRemove(p, r) ==
    /\ runState[r] \in {"prepared", "leaving"} /\ runOwner[r] = p
    /\ LockScope(p, "remove", r)
    /\ runState' = [runState EXCEPT ![r] = "leaving"]
    /\ UNCHANGED <<scopeFile, tree, runOwner, orphans, Counts>>

\* Cgroup::RemoveStaleRun: the run's ownership document proves the run; only
\* runs without a live simulator are offered to it.
BeginStale(p, r) ==
    /\ runState[r] = "stale"
    /\ LockScope(p, "stale", r)
    /\ UNCHANGED <<scopeFile, tree, Runs3, Counts>>

LoadForRemove ==
    /\ scopeOp.pc \in {"remove", "stale"}
    /\ LET r == scopeOp.run  s == scopeFile IN
       IF s = NoScope
       THEN IF r \in tree.runs THEN RefuseScope ELSE Goto("ok")
       ELSE IF ~Loadable(s) \/ ~Bindable(s) THEN RefuseScope
       ELSE IF r \notin s.active /\ s.pending # r
       THEN IF r \in tree.runs \/ r \in s.bound THEN RefuseScope
            ELSE scopeOp' = [scopeOp EXCEPT !.sim = tree.sim,
                     !.ctl = tree.sim /\ tree.ctl,
                     !.pc = IF InUse(s) THEN "ok" ELSE "restoreThenOk"]
       ELSE IF scopeOp.kind = "stale" /\ r \notin s.bound THEN RefuseScope
       ELSE scopeOp' = [scopeOp EXCEPT !.sim = tree.sim,
                !.ctl = tree.sim /\ tree.ctl,
                !.pc = IF r \in tree.runs THEN "rmRun" ELSE "wrRemoved"]
    /\ UNCHANGED <<scopeFile, tree, Runs3, Counts>>

\* RemoveRunCgroup: descendants first, their processes killed, then itself.
RemoveRunDirectory ==
    /\ At("rmRun")
    /\ Mutate([tree EXCEPT !.runs = @ \ {scopeOp.run}, !.enabled = @ \ {scopeOp.run}],
              "wrRemoved")
    /\ UNCHANGED <<scopeFile, Runs3>>

RecordRemoval ==
    /\ At("wrRemoved")
    /\ LET r == scopeOp.run
           s == [scopeOp.s EXCEPT !.active = @ \ {r}, !.bound = @ \ {r},
                     !.pending = IF @ = r THEN NoRun ELSE @,
                     !.created = IF scopeOp.s.pending = r THEN FALSE ELSE @]
       IN WriteScope(s, IF InUse(s) THEN "ok" ELSE "restoreThenOk")
    /\ UNCHANGED <<tree, Runs3>>

----------------------------------------------------------------------------

\* Directories that the call leaves without an identity in the state file.
Unrecorded ==
    IF scopeFile = NoScope THEN {}
    ELSE {d \in {"sim"} : tree.sim /\ ~scopeFile.sim}
         \cup {d \in {"ctl"} : tree.ctl /\ ~scopeFile.ctl}
         \cup {r \in tree.runs : scopeFile.pending = r /\ ~scopeFile.created}

\* The call returns or throws; the lock is released either way.  A run whose
\* preparation failed and a removal that failed are left to a later cleanup.
EndScopeCall ==
    /\ scopeOp.pc \in {"ok", "failed"}
    /\ scopeOp' = NoOp
    /\ runState' = [runState EXCEPT ![scopeOp.run] =
           CASE At("ok") /\ scopeOp.kind = "prepare" -> "prepared"
             [] At("ok") -> "removed"
             [] scopeOp.kind = "prepare" -> "stale"
             [] OTHER -> @]
    /\ runOwner' = IF runState'[scopeOp.run] = "prepared" \/ scopeOp.kind = "stale"
                      \/ (At("failed") /\ scopeOp.kind = "remove")
                   THEN runOwner ELSE [runOwner EXCEPT ![scopeOp.run] = NoSimulator]
    /\ orphans' = orphans \cup Unrecorded
    /\ UNCHANGED <<scopeFile, tree, Counts>>

\* A simulator dies: the kernel drops its lock, its run becomes stale, and a
\* directory it had just made may not be recorded anywhere.
ScopeCrash(p) ==
    /\ scopeCrashes < MaxScopeCrashes
    /\ \/ scopeOp # NoOp /\ scopeOp.by = p
       \/ p \in {runOwner[r] : r \in Runs}
    /\ scopeCrashes' = scopeCrashes + 1
    /\ LET mine == scopeOp # NoOp /\ scopeOp.by = p IN
       /\ scopeOp' = IF mine THEN NoOp ELSE scopeOp
       /\ orphans' = IF mine THEN orphans \cup Unrecorded ELSE orphans
    /\ runState' = [r \in Runs |->
           IF runOwner[r] = p THEN "stale" ELSE runState[r]]
    /\ runOwner' = [r \in Runs |->
           IF runOwner[r] = p THEN NoSimulator ELSE runOwner[r]]
    /\ UNCHANGED <<scopeFile, tree, scopeFaults>>

ScopeStep ==
    \/ LoadForPrepare \/ RemovePending \/ ForgetPending \/ SurveyRuns
    \/ PublishScope \/ MakeSimulator \/ RecordSimulator \/ MakeController
    \/ RecordController \/ MoveProcesses \/ EnableControllers \/ ReserveRun
    \/ MakeRun \/ RecordRun \/ EnableRun \/ ActivateRun
    \/ RollBackRun \/ RemoveMade \/ ForgetRun
    \/ BeginRestore \/ DisableControllers \/ MoveProcessesBack
    \/ MarkRestorable \/ RemoveScopeDirectories \/ UnlinkScope
    \/ LoadForRemove \/ RemoveRunDirectory \/ RecordRemoval \/ EndScopeCall

ScopeNext ==
    \/ ScopeStep
    \/ \E p \in Simulators :
          \/ \E r \in Runs : BeginPrepare(p, r) \/ BeginRemove(p, r) \/ BeginStale(p, r)
          \/ ScopeCrash(p)

ScopeSpec == ScopeInit /\ [][ScopeNext]_scopeVars

----------------------------------------------------------------------------
(* Properties *)

\* The steps of the calls.
ScopeSteps ==
    {"prepare", "new", "rmPending", "wrRecovered", "survey", "mkSim", "wrSim",
     "mkCtl", "wrCtl", "moveIn", "rootOn", "simOn", "reserve", "mkRun",
     "wrCreated", "enableRun", "wrActive", "rollback", "rmMade", "wrRolled",
     "restoreThenNew", "restoreThenFail", "restoreThenOk", "simOff", "rootOff",
     "moveOut", "verify", "rmCtl", "rmSim", "unlink", "remove", "stale",
     "rmRun", "wrRemoved", "ok", "failed"}

ScopeCalls ==
    [pc: ScopeSteps, by: Simulators, kind: {"prepare", "remove", "stale"},
     run: Runs, s: ScopeStates \cup {NoScope}, sim: BOOLEAN, ctl: BOOLEAN,
     made: BOOLEAN, attempted: BOOLEAN, published: BOOLEAN, rolling: BOOLEAN,
     then: {"none", "new", "failed", "ok"}, refused: BOOLEAN]

\* The shape of the state file, the hierarchy and the call in progress.
ScopeTypeOK ==
    /\ scopeFile \in ScopeStates \cup {NoScope}
    /\ tree \in [found: BOOLEAN, sim: BOOLEAN, ctl: BOOLEAN, rootOn: BOOLEAN,
                 simOn: BOOLEAN, procs: {"root", "ctl"}, runs: SUBSET Runs,
                 enabled: SUBSET Runs]
    /\ tree.enabled \subseteq tree.runs
    /\ scopeOp \in ScopeCalls \cup {NoOp}
    /\ runState \in [Runs -> {"new", "preparing", "prepared", "leaving",
                             "stale", "removed"}]
    /\ runOwner \in [Runs -> Simulators \cup {NoSimulator}]
    /\ scopeFaults \in Nat /\ scopeCrashes \in Nat

\* Whatever other simulators prepare, remove, recover or fail to do, a run
\* that was prepared keeps its directory with its controllers, and the root
\* stays delegated, until its own removal starts to take them away.
PreparedRunsKeepTheirCgroup ==
    \A r \in Runs :
        runState[r] = "prepared" =>
            /\ r \in tree.runs /\ r \in tree.enabled
            /\ tree.sim /\ tree.simOn /\ tree.rootOn /\ tree.procs = "ctl"

\* When no call is running and no state file is left, the host is as it was
\* found, but for directories whose maker did not live to record them.
HostIsRestored ==
    scopeOp = NoOp /\ scopeFile = NoScope =>
        /\ tree.sim = tree.found \/ "sim" \in orphans
        /\ ~tree.ctl \/ "ctl" \in orphans
        /\ ~tree.rootOn /\ ~tree.simOn /\ tree.procs = "root"
        /\ tree.runs \subseteq orphans

\* Every run directory is named by the state file from before it is made until
\* after it is gone, so that a crash leaves nothing a later simulator misses.
RunDirectoriesAreListed ==
    \A r \in tree.runs \ orphans :
        scopeFile # NoScope /\ r \in scopeFile.active \cup {scopeFile.pending}

\* On a host without failing system calls a new run is refused only where an
\* earlier simulator died between making a directory and recording it, or
\* between removing a pending run's directory and recording that: any other
\* crash, at any step, is recovered by the next preparation.
PreparationIsRefusedOnlyByOrphans ==
    scopeOp # NoOp /\ scopeOp.refused /\ scopeOp.kind = "prepare" =>
        \/ orphans # {} \/ scopeFaults > 0
        \/ scopeFile # NoScope /\ scopeFile.created
           /\ scopeFile.pending \notin tree.runs

\* A cgroup scope shared by simulators: a prepared run keeps its cgroup while
\* another restores the host, the host is restored when the last one leaves,
\* the directories of runs are listed, and preparation is refused only because
\* of orphans.
ScopeCorrect ==
    /\ ScopeTypeOK
    /\ PreparedRunsKeepTheirCgroup
    /\ HostIsRestored
    /\ RunDirectoriesAreListed
    /\ PreparationIsRefusedOnlyByOrphans

=============================================================================
