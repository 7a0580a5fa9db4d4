---------------------------- MODULE ScopeProofs ----------------------------
(***************************************************************************)
(* Proofs about CgroupScope for any simulators, runs, failing calls and    *)
(* crashes: a prepared run keeps its cgroup, the host is restored when no  *)
(* state file is left, every run directory is listed, and a preparation is *)
(* refused only because of a failure or an orphan.                         *)
(***************************************************************************)
EXTENDS CgroupScope, TLAPS

-----------------------------------------------------------------------------
(* The inductive invariant.                                                *)

Busy == scopeOp # NoOp

\* What follows an exception, the restoration, and where the state file and
\* the copy of the call agree.
Undoing   == {"rollback", "rmMade", "wrRolled", "restoreThenFail"}
Turning   == {"simOff", "rootOff", "moveOut", "verify"}
Clearing  == {"rmCtl", "rmSim", "unlink"}
Starting  == {"mkSim", "wrSim", "mkCtl", "wrCtl", "moveIn", "rootOn", "simOn"}
Making    == {"mkRun", "wrCreated", "enableRun", "wrActive"}
Loading   == {"prepare", "remove", "stale"}
Loaded    == {"rmPending", "wrRecovered", "survey", "restoreThenNew"}
Removing  == {"rmRun", "wrRemoved", "restoreThenOk"}
Restoring == Turning \cup Clearing
Agreeing  == Loading \cup Loaded \cup Starting \cup Making \cup Removing
                \cup Restoring \cup {"restoreThenFail"}

\* A state file s by itself.
Consistent(s) ==
    /\ s.pending = NoRun => ~s.created
    /\ s.created => s.pending \in s.bound
    /\ \A r \in s.bound : r \in s.active \/ (s.created /\ s.pending = r)
    /\ s.pending \notin s.active
    /\ (s.pre => s.sim) /\ (s.ctl => s.sim)
    /\ s.ready => s.active = {} /\ s.pending = NoRun /\ s.bound = {}

\* A state file and the shared directories of a hierarchy t.
Matches(s, t, os) ==
    /\ s.pre <=> t.found
    /\ s.sim /\ ~s.ready => t.sim
    /\ s.pre => t.sim
    /\ s.ctl /\ ~s.ready => t.ctl
    /\ s.ready => ~t.rootOn /\ ~t.simOn /\ t.procs = "root"
    /\ s.active # {} => t.simOn \/ os # {}
    /\ InUse(s) => (s.sim /\ s.ctl) \/ os # {}

\* A state file and the runs: os are the orphans, rs how far each run is.
Lists(s, t, os, rs) ==
    \A r \in Runs :
        /\ r \in t.runs \ os => r \in s.active \/ r = s.pending
        /\ rs[r] = "prepared" => r \in s.active
        /\ rs[r] = "new" => r \notin s.active /\ r # s.pending

Good(s, t, os, rs) ==
    Consistent(s) /\ Matches(s, t, os) /\ Lists(s, t, os, rs)

\* No run is in the hierarchy.
Empty(t, os, rs) == t.runs \subseteq os /\ \A r \in Runs : rs[r] # "prepared"

\* Both the state file and the copy a call works on are in order at every
\* step, since a crash may come after any of them.
FileInv ==
    /\ scopeFile # NoScope => Good(scopeFile, tree, orphans, runState)
    /\ scopeFile = NoScope =>
          /\ Empty(tree, orphans, runState)
          /\ ~tree.ctl /\ ~tree.rootOn /\ ~tree.simOn
          /\ tree.procs = "root" /\ (tree.sim <=> tree.found)

CopyInv ==
    Busy => /\ scopeOp.s # NoScope => Good(scopeOp.s, tree, orphans, runState)
            /\ scopeOp.s = NoScope => Empty(tree, orphans, runState)

\* The hierarchy is built up and taken down in order.
Ordered(t) ==
    /\ t.simOn => t.rootOn
    /\ t.rootOn => t.procs = "ctl"
    /\ t.procs = "ctl" => t.ctl
    /\ t.ctl => t.sim

\* A prepared run has its directory, a new one has none.
Placed(t, rs) ==
    \A r \in Runs :
        /\ rs[r] = "prepared" => r \in t.runs /\ r \in t.enabled /\ t.simOn
        /\ rs[r] = "new" => r \notin t.runs

Hierarchy == Ordered(tree)
Directories == Placed(tree, runState)

\* The run of a call belongs to it.
Owned ==
    Busy =>
        /\ scopeOp.kind = "prepare" => runState[scopeOp.run] = "preparing"
        /\ scopeOp.kind = "remove" => runState[scopeOp.run] = "leaving"
        /\ scopeOp.kind = "stale" => runState[scopeOp.run] = "stale"
        /\ scopeOp.kind # "stale" => runOwner[scopeOp.run] = scopeOp.by

\* Where a call is and what it has done so far.
Stage ==
    Busy =>
        /\ scopeOp.pc \in {"prepare", "new", "reserve"} \cup Loaded
              \cup Starting \cup Making \cup Undoing =>
              scopeOp.kind = "prepare"
        /\ scopeOp.pc \in {"remove", "stale"} \cup Removing =>
              scopeOp.kind # "prepare"
        /\ scopeOp.kind # "prepare" =>
              /\ ~scopeOp.attempted /\ ~scopeOp.published /\ ~scopeOp.rolling
        /\ scopeOp.pc \in {"prepare", "new"} \cup Loaded =>
              /\ ~scopeOp.attempted /\ ~scopeOp.published /\ ~scopeOp.rolling
        /\ scopeOp.pc \in Starting \cup {"reserve"} =>
              ~scopeOp.attempted /\ ~scopeOp.rolling
        /\ scopeOp.pc \in Starting => scopeOp.published
        /\ scopeOp.pc \in Making => scopeOp.attempted /\ ~scopeOp.rolling
        /\ scopeOp.pc \in {"mkRun"} => ~scopeOp.made
        /\ scopeOp.pc \in {"wrCreated", "enableRun", "wrActive"} =>
              scopeOp.made
        /\ scopeOp.pc \in Undoing \ {"rollback"} => scopeOp.rolling
        /\ scopeOp.made => scopeOp.attempted
        /\ scopeOp.pc \in Restoring =>
              \/ scopeOp.then = "ok" /\ scopeOp.kind # "prepare"
              \/ /\ scopeOp.then = "new" /\ scopeOp.kind = "prepare"
                 /\ ~scopeOp.attempted /\ ~scopeOp.published
                 /\ ~scopeOp.rolling
              \/ scopeOp.then = "failed" /\ scopeOp.rolling

\* The state file and the copy of the call by its step.
Agree ==
    Busy =>
        /\ scopeOp.pc \in Agreeing => scopeFile = scopeOp.s
        /\ scopeOp.pc = "ok" /\ scopeOp.kind = "prepare" =>
              scopeFile = scopeOp.s
        /\ scopeOp.pc \notin Loading \cup {"new", "ok", "failed"} =>
              scopeFile # NoScope /\ scopeOp.s # NoScope
        /\ scopeOp.pc = "new" => scopeFile = NoScope

\* How far a new scope and a new run have come.
Building ==
    Busy =>
        /\ scopeOp.pc \in Starting =>
              /\ scopeOp.s.pending = NoRun /\ ~scopeOp.s.ready
              /\ scopeOp.s.active # {} => orphans # {}
        /\ scopeOp.pc \in Starting \ {"mkSim"} => tree.sim
        /\ scopeOp.pc \in Starting \ {"mkSim", "wrSim"} =>
              scopeOp.s.sim /\ scopeOp.sim
        /\ scopeOp.pc \in {"wrCtl", "moveIn", "rootOn", "simOn"} => tree.ctl
        /\ scopeOp.pc \in {"moveIn", "rootOn", "simOn"} => scopeOp.s.ctl
        /\ scopeOp.pc \in {"rootOn", "simOn"} => tree.procs = "ctl"
        /\ scopeOp.pc = "simOn" => tree.rootOn
        /\ scopeOp.pc = "reserve" => scopeOp.s.pending = NoRun
        /\ scopeOp.pc \in Making \cup {"reserve"} =>
              /\ scopeOp.s.sim /\ scopeOp.s.ctl /\ ~scopeOp.s.ready
              /\ tree.simOn \/ orphans # {}
        /\ scopeOp.pc \in Making => scopeOp.s.pending = scopeOp.run
        /\ scopeOp.pc \in {"wrCreated", "enableRun", "wrActive"} =>
              scopeOp.run \in tree.runs
        /\ scopeOp.pc \in {"enableRun", "wrActive"} => scopeOp.s.created
        /\ scopeOp.pc = "wrActive" =>
              tree.simOn /\ scopeOp.run \in tree.enabled
        /\ scopeOp.pc = "ok" /\ scopeOp.kind = "prepare" =>
              /\ scopeFile # NoScope /\ scopeOp.run \in scopeFile.active
              /\ tree.simOn /\ scopeOp.run \in tree.enabled
        /\ scopeOp.attempted => scopeOp.s.pending \in {scopeOp.run, NoRun}

\* How far the restoration has come.
Undone ==
    Busy =>
        /\ scopeOp.pc \in {"rmPending", "wrRecovered"} =>
              scopeOp.s.pending # NoRun
        /\ scopeOp.pc = "rmPending" => scopeOp.s.created
        /\ scopeOp.pc \in {"survey", "restoreThenNew"} =>
              scopeOp.s.pending = NoRun
        /\ scopeOp.pc \in Restoring \cup {"restoreThenNew"} =>
              scopeOp.s.active = {} /\ scopeOp.s.pending = NoRun
        /\ scopeOp.pc \in Loaded \cup Turning =>
              /\ tree.sim => scopeOp.s.sim
              /\ tree.ctl => scopeOp.s.ctl
        /\ scopeOp.pc \in Loaded /\ InUse(scopeOp.s) =>
              scopeOp.s.sim /\ scopeOp.s.ctl
        /\ scopeOp.pc \in Loaded \cup Turning \cup {"rmCtl"} =>
              (scopeOp.sim <=> tree.sim) /\ (scopeOp.ctl <=> tree.ctl)
        /\ scopeOp.pc \in Clearing => scopeOp.s.ready
        /\ scopeOp.pc \in Turning => ~scopeOp.s.ready
        /\ scopeOp.pc \in {"rootOff", "moveOut", "verify"} => ~tree.simOn
        /\ scopeOp.pc \in {"moveOut", "verify"} => ~tree.rootOn
        /\ scopeOp.pc = "verify" => tree.procs = "root"
        /\ scopeOp.pc = "rmSim" => (scopeOp.sim <=> tree.sim)
        /\ scopeOp.pc \in {"rmSim", "unlink"} => ~tree.ctl /\ ~scopeOp.ctl
        /\ scopeOp.pc = "unlink" => (tree.sim <=> tree.found)
        /\ scopeOp.ctl => scopeOp.sim
        /\ scopeOp.pc \in Loading \cup {"new"} => ~scopeOp.ctl

\* A run has no directory before it is announced and after it is forgotten.
Unused ==
    Busy =>
        /\ scopeOp.kind = "prepare" /\ ~scopeOp.attempted =>
              /\ scopeOp.run \notin tree.runs
              /\ scopeFile # NoScope =>
                    /\ scopeOp.run \notin scopeFile.active
                    /\ scopeOp.run # scopeFile.pending
              /\ scopeOp.s # NoScope =>
                    /\ scopeOp.run \notin scopeOp.s.active
                    /\ scopeOp.run # scopeOp.s.pending
        /\ scopeOp.pc = "mkRun" => scopeOp.run \notin tree.runs
        /\ scopeOp.attempted /\ ~scopeOp.made =>
              scopeOp.run \notin tree.runs \ orphans
        /\ scopeOp.pc = "wrRolled" => scopeOp.run \notin tree.runs \ orphans
        /\ scopeOp.pc = "wrRemoved" => scopeOp.run \notin tree.runs
        /\ scopeOp.pc = "wrRecovered" =>
              scopeOp.s.pending \notin tree.runs \ orphans

\* What no call is at work on is recorded, or its maker died over it.
Recorded ==
    ~Busy \/ scopeOp.pc \in Loading => Unrecorded \subseteq orphans

\* An orphan was left, or a system call has failed.
Blamed == orphans # {} \/ scopeFaults > 0

\* Why a preparation is refused or undone.
Refusals ==
    Busy /\ scopeOp.kind = "prepare" =>
        /\ scopeOp.refused =>
              \/ Blamed
              \/ /\ scopeOp.pc = "failed" /\ scopeFile # NoScope
                 /\ scopeFile.created /\ scopeFile.pending \notin tree.runs
        /\ scopeOp.pc \in Undoing \/ scopeOp.rolling => Blamed

ScopeInv ==
    /\ ScopeTypeOK /\ Hierarchy /\ Directories /\ FileInv /\ CopyInv /\ Owned
    /\ Stage /\ Agree /\ Building /\ Undone /\ Unused /\ Recorded /\ Refusals

-----------------------------------------------------------------------------
(* The records.                                                            *)

TreeType == [found: BOOLEAN, sim: BOOLEAN, ctl: BOOLEAN, rootOn: BOOLEAN,
             simOn: BOOLEAN, procs: {"root", "ctl"}, runs: SUBSET Runs,
             enabled: SUBSET Runs]

\* What a step leaves of the hierarchy.
SameDirs(t, n) ==
    (n.found <=> t.found) /\ (n.sim <=> t.sim) /\ (n.ctl <=> t.ctl)
SameRoot(t, n) ==
    (n.rootOn <=> t.rootOn) /\ (n.simOn <=> t.simOn) /\ n.procs = t.procs
SameRuns(t, n) == n.runs = t.runs /\ n.enabled = t.enabled

\* What a step leaves of the call.
SameCall(o, n) == n.by = o.by /\ n.kind = o.kind /\ n.run = o.run
SameFlags(o, n) ==
    /\ (n.attempted <=> o.attempted) /\ (n.published <=> o.published)
    /\ (n.rolling <=> o.rolling) /\ (n.made <=> o.made)
SameHold(o, n) == (n.sim <=> o.sim) /\ (n.ctl <=> o.ctl)
Moved(o, n, pc) ==
    /\ n.pc = pc /\ SameCall(o, n) /\ SameFlags(o, n) /\ SameHold(o, n)
    /\ n.then = o.then /\ (n.refused <=> o.refused)

\* A call is at work exactly when the lock is held.
LEMMA BusyCall ==
  ASSUME ScopeTypeOK
  PROVE  /\ Busy <=> scopeOp \in ScopeCalls
         /\ Busy => scopeOp.pc \in ScopeSteps
         /\ ~Busy => scopeOp = NoOp /\ scopeOp.pc = "idle"
<1>1. ASSUME scopeOp \in ScopeCalls
      PROVE  scopeOp.pc \in ScopeSteps /\ scopeOp # NoOp
  <2>1. scopeOp.pc \in ScopeSteps
    BY <1>1 DEF ScopeCalls
  <2>2. scopeOp.pc # "idle"
    BY <2>1 DEF ScopeSteps
  <2> QED
    BY <2>1, <2>2 DEF NoOp
<1> QED
  BY <1>1 DEF ScopeTypeOK, Busy, NoOp

\* A state file is not the absence of one.
LEMMA ScopeIsSome ==
  ASSUME NEW s \in ScopeStates
  PROVE  s # NoScope
<1>1. s.kind = "scope"
  BY DEF ScopeStates
<1> QED
  BY <1>1 DEF NoScope

\* The types of the fields of a call at work.
LEMMA CallTypes ==
  ASSUME NEW o \in ScopeCalls
  PROVE  /\ o.pc \in ScopeSteps /\ o.by \in Simulators
         /\ o.kind \in {"prepare", "remove", "stale"} /\ o.run \in Runs
         /\ o.s \in ScopeStates \cup {NoScope}
         /\ o.then \in {"none", "new", "failed", "ok"}
BY DEF ScopeCalls

\* Where an exception leads.
LEMMA HandlerSteps ==
  ASSUME NEW o, o = scopeOp
  PROVE  /\ Handler \in {"rollback", "failed"} /\ Handler \in ScopeSteps
         /\ Handler = "rollback" =>
               /\ o.kind = "prepare" /\ ~o.rolling
               /\ o.attempted \/ o.published
         /\ o.kind = "prepare" /\ ~o.rolling /\ (o.attempted \/ o.published)
               => Handler = "rollback"
BY DEF Handler, ScopeSteps

\* Goto changes the step.
LEMMA GotoCall ==
  ASSUME scopeOp \in ScopeCalls, NEW pc \in ScopeSteps, Goto(pc)
  PROVE  /\ scopeOp' \in ScopeCalls /\ Moved(scopeOp, scopeOp', pc)
         /\ scopeOp'.s = scopeOp.s
<1>1. scopeOp' \in ScopeCalls
  BY Zenon DEF ScopeCalls, Goto
<1>2. Moved(scopeOp, scopeOp', pc) /\ scopeOp'.s = scopeOp.s
  BY DEF ScopeCalls, Goto, Moved, SameCall, SameFlags, SameHold
<1> QED
  BY <1>1, <1>2

\* A write changes the step and the copy of the state.
LEMMA CopyCall ==
  ASSUME scopeOp \in ScopeCalls, NEW pc \in ScopeSteps, NEW s \in ScopeStates,
         scopeOp' = [scopeOp EXCEPT !.s = s, !.pc = pc]
  PROVE  /\ scopeOp' \in ScopeCalls /\ Moved(scopeOp, scopeOp', pc)
         /\ scopeOp'.s = s
<1>1. scopeOp' \in ScopeCalls
  BY Zenon DEF ScopeCalls
<1>2. Moved(scopeOp, scopeOp', pc) /\ scopeOp'.s = s
  BY DEF ScopeCalls, Moved, SameCall, SameFlags, SameHold
<1> QED
  BY <1>1, <1>2

\* A refusal changes the step and is remembered.
LEMMA RefuseCall ==
  ASSUME scopeOp \in ScopeCalls, RefuseScope
  PROVE  /\ scopeOp' \in ScopeCalls /\ scopeOp'.pc = Handler
         /\ scopeOp'.refused /\ SameCall(scopeOp, scopeOp')
         /\ SameFlags(scopeOp, scopeOp') /\ SameHold(scopeOp, scopeOp')
         /\ scopeOp'.then = scopeOp.then /\ scopeOp'.s = scopeOp.s
<1>1. Handler \in ScopeSteps
  BY HandlerSteps
<1> HIDE DEF Handler
<1>2. scopeOp' \in ScopeCalls
  BY <1>1, Zenon DEF ScopeCalls, RefuseScope
<1>3. /\ scopeOp'.pc = Handler /\ scopeOp'.refused
      /\ SameCall(scopeOp, scopeOp') /\ SameFlags(scopeOp, scopeOp')
      /\ SameHold(scopeOp, scopeOp') /\ scopeOp'.then = scopeOp.then
      /\ scopeOp'.s = scopeOp.s
  BY DEF ScopeCalls, RefuseScope, SameCall, SameFlags, SameHold
<1> QED
  BY <1>2, <1>3

\* Failures are counted, and a failure or an orphan stays to blame.
LEMMA ThrowCounts ==
  ASSUME ScopeTypeOK, Throw
  PROVE  /\ scopeFaults' \in Nat /\ scopeCrashes' \in Nat /\ Blamed'
<1>1. scopeFaults' \in Nat /\ scopeCrashes' \in Nat /\ scopeFaults' > 0
  BY DEF ScopeTypeOK, Throw
<1> QED
  BY <1>1 DEF Blamed

\* Without a failure the counts stay, and what was to blame still is.
LEMMA SameCounts ==
  ASSUME ScopeTypeOK, UNCHANGED Counts, orphans \subseteq orphans'
  PROVE  /\ scopeFaults' \in Nat /\ scopeCrashes' \in Nat
         /\ Blamed => Blamed'
BY DEF ScopeTypeOK, Counts, Blamed

\* WriteScope puts a state into the copy and, if it does not throw, the file.
LEMMA WriteCall ==
  ASSUME ScopeTypeOK, Busy, NEW s \in ScopeStates, NEW pc \in ScopeSteps,
         WriteScope(s, pc), UNCHANGED Runs3
  PROVE  /\ scopeOp' \in ScopeCalls /\ scopeOp'.s = s
         /\ scopeFaults' \in Nat /\ scopeCrashes' \in Nat
         /\ Blamed => Blamed'
         /\ \/ scopeFile' = s /\ Moved(scopeOp, scopeOp', pc)
            \/ /\ scopeFile' \in {scopeFile, s} /\ Blamed'
               /\ Moved(scopeOp, scopeOp', Handler)
<1>1. scopeOp \in ScopeCalls /\ Handler \in ScopeSteps
  BY BusyCall, HandlerSteps
<1> HIDE DEF Handler
<1>2. CASE /\ scopeFile' = s /\ UNCHANGED Counts
           /\ scopeOp' = [scopeOp EXCEPT !.s = s, !.pc = pc]
  BY <1>1, <1>2, CopyCall, SameCounts DEF Runs3
<1>3. CASE /\ Throw /\ scopeFile' \in {scopeFile, s}
           /\ scopeOp' = [scopeOp EXCEPT !.s = s, !.pc = Handler]
  BY <1>1, <1>3, CopyCall, ThrowCounts
<1> QED
  BY <1>2, <1>3 DEF WriteScope

\* Mutate changes the hierarchy and the step, or fails in between.
LEMMA MutateCall ==
  ASSUME ScopeTypeOK, Busy, NEW t, NEW pc \in ScopeSteps, Mutate(t, pc),
         UNCHANGED Runs3
  PROVE  /\ scopeOp' \in ScopeCalls /\ scopeOp'.s = scopeOp.s
         /\ scopeFaults' \in Nat /\ scopeCrashes' \in Nat
         /\ Blamed => Blamed'
         /\ \/ tree' = t /\ Moved(scopeOp, scopeOp', pc)
            \/ /\ tree' \in {tree, t} /\ Blamed'
               /\ Moved(scopeOp, scopeOp', Handler)
<1>1. scopeOp \in ScopeCalls /\ Handler \in ScopeSteps
  BY BusyCall, HandlerSteps
<1> HIDE DEF Handler
<1>2. CASE tree' = t /\ Goto(pc) /\ UNCHANGED Counts
  BY <1>1, <1>2, GotoCall, SameCounts DEF Runs3
<1>3. CASE Throw /\ tree' \in {tree, t} /\ Goto(Handler)
  BY <1>1, <1>3, GotoCall, ThrowCounts
<1> QED
  BY <1>2, <1>3 DEF Mutate

-----------------------------------------------------------------------------
(* The changes of the hierarchy.                                           *)

\* Only the simulator directory.
LEMMA TreeSim ==
  ASSUME NEW t \in TreeType, NEW b \in BOOLEAN, NEW n,
         n = [t EXCEPT !.sim = b]
  PROVE  /\ n \in TreeType /\ (n.sim <=> b) /\ SameRuns(t, n)
         /\ (n.found <=> t.found) /\ (n.ctl <=> t.ctl)
         /\ (n.rootOn <=> t.rootOn) /\ (n.simOn <=> t.simOn)
         /\ n.procs = t.procs
<1>1. n \in TreeType
  BY Zenon DEF TreeType
<1> QED
  BY <1>1 DEF TreeType, SameRuns

\* Only the controller directory.
LEMMA TreeCtl ==
  ASSUME NEW t \in TreeType, NEW b \in BOOLEAN, NEW n,
         n = [t EXCEPT !.ctl = b]
  PROVE  /\ n \in TreeType /\ (n.ctl <=> b) /\ SameRuns(t, n)
         /\ (n.found <=> t.found) /\ (n.sim <=> t.sim)
         /\ (n.rootOn <=> t.rootOn) /\ (n.simOn <=> t.simOn)
         /\ n.procs = t.procs
<1>1. n \in TreeType
  BY Zenon DEF TreeType
<1> QED
  BY <1>1 DEF TreeType, SameRuns

\* Only the controllers of the root.
LEMMA TreeRootOn ==
  ASSUME NEW t \in TreeType, NEW b \in BOOLEAN, NEW n,
         n = [t EXCEPT !.rootOn = b]
  PROVE  /\ n \in TreeType /\ (n.rootOn <=> b) /\ SameRuns(t, n)
         /\ (n.found <=> t.found) /\ (n.sim <=> t.sim)
         /\ (n.ctl <=> t.ctl) /\ (n.simOn <=> t.simOn)
         /\ n.procs = t.procs
<1>1. n \in TreeType
  BY Zenon DEF TreeType
<1> QED
  BY <1>1 DEF TreeType, SameRuns

\* Only the controllers of the simulator directory.
LEMMA TreeSimOn ==
  ASSUME NEW t \in TreeType, NEW b \in BOOLEAN, NEW n,
         n = [t EXCEPT !.simOn = b]
  PROVE  /\ n \in TreeType /\ (n.simOn <=> b) /\ SameRuns(t, n)
         /\ (n.found <=> t.found) /\ (n.sim <=> t.sim)
         /\ (n.ctl <=> t.ctl) /\ (n.rootOn <=> t.rootOn)
         /\ n.procs = t.procs
<1>1. n \in TreeType
  BY Zenon DEF TreeType
<1> QED
  BY <1>1 DEF TreeType, SameRuns

\* Only the processes of the root.
LEMMA TreeProcs ==
  ASSUME NEW t \in TreeType, NEW g \in {"root", "ctl"}, NEW n,
         n = [t EXCEPT !.procs = g]
  PROVE  /\ n \in TreeType /\ n.procs = g /\ SameRuns(t, n) /\ SameDirs(t, n)
         /\ (n.rootOn <=> t.rootOn) /\ (n.simOn <=> t.simOn)
<1>1. n \in TreeType
  BY Zenon DEF TreeType
<1> QED
  BY <1>1 DEF TreeType, SameRuns, SameDirs

\* Only the directories of runs.
LEMMA TreeMake ==
  ASSUME NEW t \in TreeType, NEW rs \in SUBSET Runs,
         NEW n, n = [t EXCEPT !.runs = rs]
  PROVE  /\ n \in TreeType /\ n.runs = rs /\ n.enabled = t.enabled
         /\ SameDirs(t, n) /\ SameRoot(t, n)
<1>1. n \in TreeType
  BY Zenon DEF TreeType
<1> QED
  BY <1>1 DEF TreeType, SameRoot, SameDirs

\* Only the controllers of runs.
LEMMA TreeEnable ==
  ASSUME NEW t \in TreeType, NEW es \in SUBSET Runs,
         NEW n, n = [t EXCEPT !.enabled = es]
  PROVE  /\ n \in TreeType /\ n.runs = t.runs /\ n.enabled = es
         /\ SameDirs(t, n) /\ SameRoot(t, n)
<1>1. n \in TreeType
  BY Zenon DEF TreeType
<1> QED
  BY <1>1 DEF TreeType, SameRoot, SameDirs

-----------------------------------------------------------------------------
(* The changes of a state.                                                 *)

SameShared(s, n) ==
    /\ (n.pre <=> s.pre) /\ (n.sim <=> s.sim) /\ (n.ctl <=> s.ctl)
    /\ (n.ready <=> s.ready)
SameList(s, n) ==
    /\ n.active = s.active /\ n.bound = s.bound /\ n.pending = s.pending
    /\ (n.created <=> s.created)

\* The runs of a state.
LEMMA ScopeTypes ==
  ASSUME NEW s \in ScopeStates
  PROVE  /\ s.active \subseteq Runs /\ s.bound \subseteq Runs
         /\ s.pending \in Runs \cup {NoRun}
BY DEF ScopeStates

-----------------------------------------------------------------------------
(* What steps of a call have in common.                                    *)

\* The parts of the invariant, and the types of the variables.
LEMMA InvParts ==
  ASSUME ScopeInv
  PROVE  /\ ScopeTypeOK /\ Hierarchy /\ Directories /\ FileInv /\ CopyInv
         /\ Owned /\ Stage /\ Agree /\ Building /\ Undone /\ Unused
         /\ Recorded /\ Refusals
         /\ tree \in TreeType /\ tree.enabled \subseteq tree.runs
         /\ tree.runs \subseteq Runs
         /\ scopeFile \in ScopeStates \cup {NoScope}
<1>1. ScopeTypeOK
  BY DEF ScopeInv
<1>2. tree \in TreeType
  BY <1>1 DEF ScopeTypeOK, TreeType
<1>3. tree.runs \subseteq Runs
  BY <1>2 DEF TreeType
<1> QED
  BY <1>1, <1>2, <1>3 DEF ScopeInv, ScopeTypeOK

\* A call that is recorded holds the lock.
LEMMA CallIsBusyNext ==
  ASSUME scopeOp' \in ScopeCalls
  PROVE  Busy'
<1>1. scopeOp'.pc \in ScopeSteps
  BY DEF ScopeCalls
<1>2. scopeOp'.pc # "idle"
  BY <1>1 DEF ScopeSteps
<1> QED
  BY <1>2 DEF Busy, NoOp

\* The types of the state after a step of a call.
LEMMA TypesKept ==
  ASSUME ScopeTypeOK, UNCHANGED <<runState, runOwner>>,
         scopeFile' \in ScopeStates \cup {NoScope},
         tree' \in TreeType, tree'.enabled \subseteq tree'.runs,
         scopeOp' \in ScopeCalls,
         scopeFaults' \in Nat, scopeCrashes' \in Nat
  PROVE  ScopeTypeOK'
BY DEF ScopeTypeOK, TreeType

\* The run of the call still belongs to it.
LEMMA OwnedKept ==
  ASSUME Owned, Busy, SameCall(scopeOp, scopeOp'),
         UNCHANGED <<runState, runOwner>>
  PROVE  Owned'
BY DEF Owned, SameCall

\* A call that has gone on from loading has nothing to record yet.
LEMMA RecordedKept ==
  ASSUME Busy', scopeOp'.pc \notin Loading
  PROVE  Recorded'
BY DEF Recorded

\* The groups of steps are plain sets of names, and from here on what a step
\* leaves alone is read field by field.
USE DEF Undoing, Turning, Clearing, Starting, Making, Loading, Loaded,
        Removing, Restoring, Agreeing, Moved, SameCall, SameFlags, SameHold,
        SameRuns, SameDirs, SameRoot, SameShared, SameList

\* A step that changes neither the hierarchy nor a state.
LEMMA StayKeeps ==
  ASSUME ScopeInv, Busy, scopeOp'.s = scopeOp.s,
         UNCHANGED <<scopeFile, tree, runState, orphans>>
  PROVE  Hierarchy' /\ Directories' /\ FileInv' /\ CopyInv'
<1>1. Hierarchy /\ Directories /\ FileInv /\ CopyInv
  BY InvParts
<1>2. Hierarchy' /\ Directories'
  BY <1>1 DEF Hierarchy, Directories
<1> QED
  BY <1>1, <1>2 DEF FileInv, CopyInv

\* A step that writes a state that is in order.
LEMMA WriteKeeps ==
  ASSUME ScopeInv, NEW s \in ScopeStates,
         Good(s, tree, orphans, runState),
         scopeFile' \in {scopeFile, s}, scopeOp'.s = s,
         UNCHANGED <<tree, runState, orphans>>
  PROVE  Hierarchy' /\ Directories' /\ FileInv' /\ CopyInv'
<1>1. Hierarchy /\ Directories /\ FileInv
  BY InvParts
<1>2. Hierarchy' /\ Directories'
  BY <1>1 DEF Hierarchy, Directories
<1>3. s # NoScope
  BY ScopeIsSome
<1> QED
  BY <1>1, <1>2, <1>3 DEF FileInv, CopyInv

\* A system call that changes the hierarchy, or fails.
LEMMA MutateKeeps ==
  ASSUME ScopeInv, Busy, scopeOp'.s = scopeOp.s, NEW t, tree' \in {tree, t},
         scopeFile # NoScope, scopeOp.s # NoScope,
         UNCHANGED <<scopeFile, runState, orphans>>,
         Good(scopeFile, t, orphans, runState),
         Good(scopeOp.s, t, orphans, runState),
         Ordered(t), Placed(t, runState)
  PROVE  Hierarchy' /\ Directories' /\ FileInv' /\ CopyInv'
<1>1. CASE tree' = tree
  BY <1>1, StayKeeps
<1>2. CASE tree' = t
  BY <1>2 DEF Hierarchy, Directories, FileInv, CopyInv
<1> QED
  BY <1>1, <1>2

\* A state that lists the same runs and matches the new hierarchy.
LEMMA GoodShared ==
  ASSUME NEW s, NEW t, NEW n, NEW os, NEW rs, Good(s, t, os, rs),
         n.runs = t.runs, Matches(s, n, os)
  PROVE  Good(s, n, os, rs)
BY DEF Good, Lists

\* A state while the directory of a run is taken away.
LEMMA GoodWithout ==
  ASSUME NEW s, NEW t, NEW n, NEW os, NEW rs, Good(s, t, os, rs),
         SameDirs(t, n), SameRoot(t, n), n.runs \subseteq t.runs
  PROVE  Good(s, n, os, rs)
BY DEF Good, Lists, Matches

\* More orphans do no harm.
LEMMA GoodOrphans ==
  ASSUME NEW s, NEW t, NEW os, NEW ns, NEW rs, Good(s, t, os, rs),
         os \subseteq ns
  PROVE  Good(s, t, ns, rs)
BY DEF Good, Lists, Matches

-----------------------------------------------------------------------------
(* The steps of a preparation.                                             *)

\* The handler of a preparation decides whether there is a directory to remove.
LEMMA RollBackRunKeeps ==
  ASSUME ScopeInv, RollBackRun
  PROVE  ScopeInv'
<1>1. /\ scopeOp.pc = "rollback"
      /\ UNCHANGED <<scopeFile, tree, runState, runOwner, orphans,
                     scopeFaults, scopeCrashes>>
  BY DEF RollBackRun, At, Runs3, Counts
<1>2. Busy /\ scopeOp \in ScopeCalls
  BY <1>1, InvParts, BusyCall
<1>3. /\ scopeOp.kind = "prepare" /\ Blamed
      /\ scopeFile # NoScope /\ scopeOp.s # NoScope
      /\ scopeOp.made => scopeOp.attempted
      /\ scopeOp.attempted => scopeOp.s.pending \in {scopeOp.run, NoRun}
      /\ scopeOp.ctl => scopeOp.sim
  BY <1>1, <1>2, InvParts, CallTypes, ScopeIsSome DEF Stage, Agree, Building,
     Undone, Unused, Refusals
<1>4. /\ scopeOp' \in ScopeCalls /\ SameCall(scopeOp, scopeOp')
      /\ scopeOp'.rolling /\ scopeOp'.s = scopeOp.s
      /\ scopeOp'.pc = IF scopeOp.made THEN "rmMade" ELSE "wrRolled"
      /\ (scopeOp'.attempted <=> scopeOp.attempted)
      /\ (scopeOp'.published <=> scopeOp.published)
      /\ (scopeOp'.made <=> scopeOp.made) /\ SameHold(scopeOp, scopeOp')
  <2> DEFINE pc == IF scopeOp.made THEN "rmMade" ELSE "wrRolled"
  <2>1. pc \in ScopeSteps
    BY DEF ScopeSteps
  <2>2. scopeOp' = [scopeOp EXCEPT !.rolling = TRUE, !.pc = pc]
    BY DEF RollBackRun
  <2> HIDE DEF pc
  <2>3. scopeOp' \in ScopeCalls
    BY <1>2, <2>1, <2>2, Zenon DEF ScopeCalls
  <2>4. /\ SameCall(scopeOp, scopeOp') /\ scopeOp'.rolling
        /\ scopeOp'.s = scopeOp.s /\ scopeOp'.pc = pc
        /\ (scopeOp'.attempted <=> scopeOp.attempted)
        /\ (scopeOp'.published <=> scopeOp.published)
        /\ (scopeOp'.made <=> scopeOp.made) /\ SameHold(scopeOp, scopeOp')
    BY <1>2, <2>1, <2>2 DEF ScopeCalls
  <2> QED
    BY <2>3, <2>4 DEF pc
<1>5. Busy'
  BY <1>4, CallIsBusyNext
<1>6. Blamed' /\ scopeFaults' \in Nat /\ scopeCrashes' \in Nat
  BY <1>1, <1>3, InvParts DEF Blamed, ScopeTypeOK
<1>7. /\ ~scopeOp.attempted =>
            /\ scopeOp.run \notin tree.runs
            /\ scopeOp.run \notin scopeFile.active
            /\ scopeOp.run # scopeFile.pending
            /\ scopeOp.run \notin scopeOp.s.active
            /\ scopeOp.run # scopeOp.s.pending
      /\ scopeOp.attempted /\ ~scopeOp.made =>
            scopeOp.run \notin tree.runs \ orphans
  BY <1>2, <1>3, InvParts DEF Unused
<1>8. Hierarchy' /\ Directories' /\ FileInv' /\ CopyInv'
  BY <1>1, <1>2, <1>4, StayKeeps
<1>9. ScopeTypeOK'
  BY <1>1, <1>2, <1>4, <1>6, InvParts, TypesKept
<1>10. Owned'
  BY <1>1, <1>2, <1>4, InvParts, OwnedKept
<1>11. Stage'
  BY <1>1, <1>2, <1>3, <1>4, <1>5, <1>6, <1>7 DEF Stage
<1>12. Agree'
  BY <1>1, <1>2, <1>3, <1>4, <1>5, <1>6, <1>7 DEF Agree
<1>13. Building'
  BY <1>1, <1>2, <1>3, <1>4, <1>5, <1>6, <1>7 DEF Building
<1>14. Undone'
  BY <1>1, <1>2, <1>3, <1>4, <1>5, <1>6, <1>7 DEF Undone
<1>15. Unused'
  BY <1>1, <1>2, <1>3, <1>4, <1>5, <1>6, <1>7 DEF Unused
<1>16. Recorded'
  BY <1>4, <1>5, RecordedKept
<1>17. Refusals'
  BY <1>1, <1>2, <1>3, <1>4, <1>5, <1>6, <1>7 DEF Refusals
<1> QED
  BY <1>8, <1>9, <1>10, <1>11, <1>12, <1>13, <1>14, <1>15, <1>16, <1>17
    DEF ScopeInv

\* The pending run is forgotten: nothing of it is left but an orphan.
LEMMA ForgetPendingKeeps ==
  ASSUME ScopeInv, ForgetPending
  PROVE  ScopeInv'
<1>1. /\ scopeOp.pc = "wrRecovered"
      /\ UNCHANGED <<tree, runState, runOwner, orphans>>
  BY DEF ForgetPending, At, Runs3, Counts
<1>2. Busy /\ scopeOp \in ScopeCalls
  BY <1>1, InvParts, BusyCall
<1>3. /\ scopeOp.s \in ScopeStates /\ scopeFile = scopeOp.s
      /\ scopeFile # NoScope /\ Good(scopeOp.s, tree, orphans, runState)
      /\ scopeOp.kind = "prepare"
      /\ scopeOp.run \in Runs /\ scopeOp.run # NoRun
      /\ ~scopeOp.attempted /\ ~scopeOp.published
      /\ ~scopeOp.rolling /\ ~scopeOp.made
      /\ (tree.sim => scopeOp.s.sim) /\ (tree.ctl => scopeOp.s.ctl)
      /\ InUse(scopeOp.s) => scopeOp.s.sim /\ scopeOp.s.ctl
      /\ (scopeOp.sim <=> tree.sim) /\ (scopeOp.ctl <=> tree.ctl)
      /\ scopeOp.ctl => scopeOp.sim
      /\ scopeOp.run \notin tree.runs
      /\ scopeOp.run \notin scopeOp.s.active
      /\ scopeOp.run # scopeOp.s.pending
      /\ scopeOp.refused => Blamed
      /\ scopeOp.s.pending \notin tree.runs \ orphans
  BY <1>1, <1>2, InvParts, CallTypes, ScopeIsSome, ScopeAssumption DEF Stage,
     Agree, Building, Undone, Unused, Refusals, CopyInv
<1> DEFINE s == [scopeOp.s EXCEPT !.bound = @ \ {scopeOp.s.pending},
                                    !.pending = NoRun, !.created = FALSE]
<1>4. /\ s \in ScopeStates /\ s # NoScope
      /\ s.active = scopeOp.s.active /\ s.pending = NoRun /\ ~s.created
      /\ s.bound = scopeOp.s.bound \ {scopeOp.s.pending}
      /\ SameShared(scopeOp.s, s)
  <2>1. scopeOp.s.bound \ {scopeOp.s.pending} \in SUBSET Runs
    BY <1>3 DEF ScopeStates
  <2>2. s = [scopeOp.s EXCEPT !.bound = @ \ {scopeOp.s.pending},
                      !.pending = NoRun, !.created = FALSE]
    BY DEF s
  <2> HIDE DEF s
  <2>3. s \in ScopeStates
    BY <1>3, <2>1, <2>2, Zenon DEF ScopeStates
  <2> QED
    BY <1>3, <2>2, <2>3, ScopeIsSome DEF ScopeStates
<1> HIDE DEF s
<1>5. /\ scopeOp' \in ScopeCalls /\ scopeOp'.s = s
      /\ scopeFaults' \in Nat /\ scopeCrashes' \in Nat
      /\ Blamed => Blamed'
      /\ \/ scopeFile' = s /\ Moved(scopeOp, scopeOp', "survey")
         \/ /\ scopeFile' \in {scopeFile, s} /\ Blamed'
            /\ Moved(scopeOp, scopeOp', "failed")
  <2>1. WriteScope(s, "survey")
    BY <1>1 DEF ForgetPending, s
  <2>2. Handler = "failed"
    BY <1>3, HandlerSteps
  <2>3. "survey" \in ScopeSteps
    BY DEF ScopeSteps
  <2> QED
    BY <1>1, <1>2, <1>4, <2>1, <2>2, <2>3, InvParts, WriteCall DEF Runs3
<1>6. Busy'
  BY <1>5, CallIsBusyNext
<1>7. Good(s, tree, orphans, runState)
  BY <1>1, <1>2, <1>3, <1>4, InvParts, ScopeAssumption, ScopeTypes DEF Good,
     Consistent, Matches, Lists, InUse
<1>8. Hierarchy' /\ Directories' /\ FileInv' /\ CopyInv'
  BY <1>1, <1>3, <1>4, <1>5, <1>6, <1>7, WriteKeeps
<1>9. ScopeTypeOK'
  BY <1>1, <1>3, <1>4, <1>5, InvParts, TypesKept
<1>10. Owned'
  BY <1>1, <1>2, <1>5, InvParts, OwnedKept
<1>11. Stage'
  BY <1>1, <1>2, <1>3, <1>4, <1>5, <1>6, <1>7 DEF Stage, InUse
<1>12. Agree'
  BY <1>1, <1>2, <1>3, <1>4, <1>5, <1>6, <1>7 DEF Agree, InUse
<1>13. Building'
  BY <1>1, <1>2, <1>3, <1>4, <1>5, <1>6, <1>7 DEF Building, InUse
<1>14. Undone'
  BY <1>1, <1>2, <1>3, <1>4, <1>5, <1>6, <1>7 DEF Undone, InUse
<1>15. Unused'
  BY <1>1, <1>2, <1>3, <1>4, <1>5, <1>6, <1>7 DEF Unused, InUse
<1>16. Recorded'
  BY <1>1, <1>3, <1>4, <1>5, <1>6, RecordedKept
<1>17. Refusals'
  BY <1>1, <1>2, <1>3, <1>4, <1>5, <1>6, <1>7 DEF Refusals, InUse
<1> QED
  BY <1>8, <1>9, <1>10, <1>11, <1>12, <1>13, <1>14, <1>15, <1>16, <1>17
    DEF ScopeInv

\* The identity of the new directory is recorded.
LEMMA RecordRunKeeps ==
  ASSUME ScopeInv, RecordRun
  PROVE  ScopeInv'
<1>1. /\ scopeOp.pc = "wrCreated"
      /\ UNCHANGED <<tree, runState, runOwner, orphans>>
  BY DEF RecordRun, At, Runs3, Counts
<1>2. Busy /\ scopeOp \in ScopeCalls
  BY <1>1, InvParts, BusyCall
<1>3. /\ scopeOp.s \in ScopeStates /\ scopeFile = scopeOp.s
      /\ scopeFile # NoScope /\ Good(scopeOp.s, tree, orphans, runState)
      /\ scopeOp.kind = "prepare" /\ runState[scopeOp.run] = "preparing"
      /\ scopeOp.run \in Runs /\ scopeOp.run # NoRun
      /\ scopeOp.attempted /\ ~scopeOp.rolling
      /\ scopeOp.s.sim /\ scopeOp.s.ctl /\ ~scopeOp.s.ready
      /\ scopeOp.s.pending = scopeOp.run
      /\ tree.simOn \/ orphans # {}
      /\ scopeOp.ctl => scopeOp.sim
      /\ scopeOp.refused => Blamed
      /\ scopeOp.made /\ scopeOp.run \in tree.runs
  BY <1>1, <1>2, InvParts, CallTypes, ScopeIsSome, ScopeAssumption DEF Stage,
     Agree, Building, Undone, Unused, Refusals, CopyInv, Owned
<1> DEFINE s == [scopeOp.s EXCEPT !.bound = @ \cup {scopeOp.run},
                                    !.created = TRUE]
<1>4. /\ s \in ScopeStates /\ s # NoScope
      /\ s.active = scopeOp.s.active /\ s.pending = scopeOp.s.pending
      /\ s.bound = scopeOp.s.bound \cup {scopeOp.run} /\ s.created
      /\ SameShared(scopeOp.s, s)
  <2>1. scopeOp.s.bound \cup {scopeOp.run} \in SUBSET Runs
    BY <1>3 DEF ScopeStates
  <2>2. s = [scopeOp.s EXCEPT !.bound = @ \cup {scopeOp.run},
                      !.created = TRUE]
    BY DEF s
  <2> HIDE DEF s
  <2>3. s \in ScopeStates
    BY <1>3, <2>1, <2>2, Zenon DEF ScopeStates
  <2> QED
    BY <1>3, <2>2, <2>3, ScopeIsSome DEF ScopeStates
<1> HIDE DEF s
<1>5. /\ scopeOp' \in ScopeCalls /\ scopeOp'.s = s
      /\ scopeFaults' \in Nat /\ scopeCrashes' \in Nat
      /\ Blamed => Blamed'
      /\ \/ scopeFile' = s /\ Moved(scopeOp, scopeOp', "enableRun")
         \/ /\ scopeFile' \in {scopeFile, s} /\ Blamed'
            /\ Moved(scopeOp, scopeOp', "rollback")
  <2>1. WriteScope(s, "enableRun")
    BY <1>1 DEF RecordRun, s
  <2>2. Handler = "rollback"
    BY <1>3, HandlerSteps
  <2>3. "enableRun" \in ScopeSteps
    BY DEF ScopeSteps
  <2> QED
    BY <1>1, <1>2, <1>4, <2>1, <2>2, <2>3, InvParts, WriteCall DEF Runs3
<1>6. Busy'
  BY <1>5, CallIsBusyNext
<1>7. Good(s, tree, orphans, runState)
  BY <1>1, <1>2, <1>3, <1>4, InvParts, ScopeAssumption, ScopeTypes DEF Good,
     Consistent, Matches, Lists, InUse
<1>8. Hierarchy' /\ Directories' /\ FileInv' /\ CopyInv'
  BY <1>1, <1>3, <1>4, <1>5, <1>6, <1>7, WriteKeeps
<1>9. ScopeTypeOK'
  BY <1>1, <1>3, <1>4, <1>5, InvParts, TypesKept
<1>10. Owned'
  BY <1>1, <1>2, <1>5, InvParts, OwnedKept
<1>11. Stage'
  BY <1>1, <1>2, <1>3, <1>4, <1>5, <1>6, <1>7 DEF Stage
<1>12. Agree'
  BY <1>1, <1>2, <1>3, <1>4, <1>5, <1>6, <1>7 DEF Agree
<1>13. Building'
  BY <1>1, <1>2, <1>3, <1>4, <1>5, <1>6, <1>7 DEF Building
<1>14. Undone'
  BY <1>1, <1>2, <1>3, <1>4, <1>5, <1>6, <1>7 DEF Undone
<1>15. Unused'
  BY <1>1, <1>2, <1>3, <1>4, <1>5, <1>6, <1>7 DEF Unused
<1>16. Recorded'
  BY <1>1, <1>3, <1>4, <1>5, <1>6, RecordedKept
<1>17. Refusals'
  BY <1>1, <1>2, <1>3, <1>4, <1>5, <1>6, <1>7 DEF Refusals
<1> QED
  BY <1>8, <1>9, <1>10, <1>11, <1>12, <1>13, <1>14, <1>15, <1>16, <1>17
    DEF ScopeInv

\* The run becomes active when its cgroup has its controllers.
LEMMA ActivateRunKeeps ==
  ASSUME ScopeInv, ActivateRun
  PROVE  ScopeInv'
<1>1. /\ scopeOp.pc = "wrActive"
      /\ UNCHANGED <<tree, runState, runOwner, orphans>>
  BY DEF ActivateRun, At, Runs3, Counts
<1>2. Busy /\ scopeOp \in ScopeCalls
  BY <1>1, InvParts, BusyCall
<1>3. /\ scopeOp.s \in ScopeStates /\ scopeFile = scopeOp.s
      /\ scopeFile # NoScope /\ Good(scopeOp.s, tree, orphans, runState)
      /\ scopeOp.kind = "prepare" /\ runState[scopeOp.run] = "preparing"
      /\ scopeOp.run \in Runs /\ scopeOp.run # NoRun
      /\ scopeOp.attempted /\ ~scopeOp.rolling
      /\ scopeOp.s.sim /\ scopeOp.s.ctl /\ ~scopeOp.s.ready
      /\ scopeOp.s.pending = scopeOp.run
      /\ tree.simOn \/ orphans # {}
      /\ scopeOp.ctl => scopeOp.sim
      /\ scopeOp.refused => Blamed
      /\ scopeOp.made /\ scopeOp.s.created
      /\ tree.simOn /\ scopeOp.run \in tree.runs
      /\ scopeOp.run \in tree.enabled
  BY <1>1, <1>2, InvParts, CallTypes, ScopeIsSome, ScopeAssumption DEF Stage,
     Agree, Building, Undone, Unused, Refusals, CopyInv, Owned
<1> DEFINE s == [scopeOp.s EXCEPT !.active = @ \cup {scopeOp.run},
                                    !.pending = NoRun, !.created = FALSE]
<1>4. /\ s \in ScopeStates /\ s # NoScope
      /\ s.active = scopeOp.s.active \cup {scopeOp.run}
      /\ s.bound = scopeOp.s.bound /\ s.pending = NoRun /\ ~s.created
      /\ SameShared(scopeOp.s, s)
  <2>1. scopeOp.s.active \cup {scopeOp.run} \in SUBSET Runs
    BY <1>3 DEF ScopeStates
  <2>2. s = [scopeOp.s EXCEPT !.active = @ \cup {scopeOp.run},
                      !.pending = NoRun, !.created = FALSE]
    BY DEF s
  <2> HIDE DEF s
  <2>3. s \in ScopeStates
    BY <1>3, <2>1, <2>2, Zenon DEF ScopeStates
  <2> QED
    BY <1>3, <2>2, <2>3, ScopeIsSome DEF ScopeStates
<1> HIDE DEF s
<1>5. /\ scopeOp' \in ScopeCalls /\ scopeOp'.s = s
      /\ scopeFaults' \in Nat /\ scopeCrashes' \in Nat
      /\ Blamed => Blamed'
      /\ \/ scopeFile' = s /\ Moved(scopeOp, scopeOp', "ok")
         \/ /\ scopeFile' \in {scopeFile, s} /\ Blamed'
            /\ Moved(scopeOp, scopeOp', "rollback")
  <2>1. WriteScope(s, "ok")
    BY <1>1 DEF ActivateRun, s
  <2>2. Handler = "rollback"
    BY <1>3, HandlerSteps
  <2>3. "ok" \in ScopeSteps
    BY DEF ScopeSteps
  <2> QED
    BY <1>1, <1>2, <1>4, <2>1, <2>2, <2>3, InvParts, WriteCall DEF Runs3
<1>6. Busy'
  BY <1>5, CallIsBusyNext
<1>7. Good(s, tree, orphans, runState)
  BY <1>1, <1>2, <1>3, <1>4, InvParts, ScopeAssumption, ScopeTypes DEF Good,
     Consistent, Matches, Lists, InUse
<1>8. Hierarchy' /\ Directories' /\ FileInv' /\ CopyInv'
  BY <1>1, <1>3, <1>4, <1>5, <1>6, <1>7, WriteKeeps
<1>9. ScopeTypeOK'
  BY <1>1, <1>3, <1>4, <1>5, InvParts, TypesKept
<1>10. Owned'
  BY <1>1, <1>2, <1>5, InvParts, OwnedKept
<1>11. Stage'
  BY <1>1, <1>2, <1>3, <1>4, <1>5, <1>6, <1>7 DEF Stage
<1>12. Agree'
  BY <1>1, <1>2, <1>3, <1>4, <1>5, <1>6, <1>7 DEF Agree
<1>13. Building'
  BY <1>1, <1>2, <1>3, <1>4, <1>5, <1>6, <1>7 DEF Building
<1>14. Undone'
  BY <1>1, <1>2, <1>3, <1>4, <1>5, <1>6, <1>7 DEF Undone
<1>15. Unused'
  BY <1>1, <1>2, <1>3, <1>4, <1>5, <1>6, <1>7 DEF Unused
<1>16. Recorded'
  BY <1>1, <1>3, <1>4, <1>5, <1>6, RecordedKept
<1>17. Refusals'
  BY <1>1, <1>2, <1>3, <1>4, <1>5, <1>6, <1>7 DEF Refusals
<1> QED
  BY <1>8, <1>9, <1>10, <1>11, <1>12, <1>13, <1>14, <1>15, <1>16, <1>17
    DEF ScopeInv

\* Runs without a directory are dropped: the preparation goes on with the
\* rest, or restores the old scope when none is left.
LEMMA SurveyRunsKeeps ==
  ASSUME ScopeInv, SurveyRuns
  PROVE  ScopeInv'
<1>1. /\ scopeOp.pc = "survey"
      /\ UNCHANGED <<tree, runState, runOwner, orphans>>
  BY DEF SurveyRuns, At, Runs3, Counts
<1>2. Busy /\ scopeOp \in ScopeCalls
  BY <1>1, InvParts, BusyCall
<1>3. /\ scopeOp.s \in ScopeStates /\ scopeFile = scopeOp.s
      /\ scopeFile # NoScope /\ Good(scopeOp.s, tree, orphans, runState)
      /\ scopeOp.kind = "prepare"
      /\ scopeOp.run \in Runs /\ scopeOp.run # NoRun
      /\ ~scopeOp.attempted /\ ~scopeOp.published
      /\ ~scopeOp.rolling /\ ~scopeOp.made
      /\ (tree.sim => scopeOp.s.sim) /\ (tree.ctl => scopeOp.s.ctl)
      /\ InUse(scopeOp.s) => scopeOp.s.sim /\ scopeOp.s.ctl
      /\ (scopeOp.sim <=> tree.sim) /\ (scopeOp.ctl <=> tree.ctl)
      /\ scopeOp.ctl => scopeOp.sim
      /\ scopeOp.run \notin tree.runs
      /\ scopeOp.run \notin scopeOp.s.active
      /\ scopeOp.run # scopeOp.s.pending
      /\ scopeOp.refused => Blamed
      /\ scopeOp.s.pending = NoRun
  BY <1>1, <1>2, InvParts, CallTypes, ScopeIsSome, ScopeAssumption DEF Stage,
     Agree, Building, Undone, Unused, Refusals, CopyInv, Owned
<1> DEFINE s == [scopeOp.s EXCEPT !.active = @ \cap tree.runs,
                  !.bound = @ \ (scopeOp.s.active \ tree.runs)]
<1>4. /\ s \in ScopeStates /\ s # NoScope
      /\ s.active = scopeOp.s.active \cap tree.runs
      /\ s.bound = scopeOp.s.bound \ (scopeOp.s.active \ tree.runs)
      /\ s.pending = NoRun /\ (s.created <=> scopeOp.s.created)
      /\ SameShared(scopeOp.s, s)
  <2>1. /\ scopeOp.s.active \cap tree.runs \in SUBSET Runs
        /\ scopeOp.s.bound \ (scopeOp.s.active \ tree.runs) \in SUBSET Runs
    BY <1>3 DEF ScopeStates
  <2>2. s = [scopeOp.s EXCEPT !.active = @ \cap tree.runs,
    !.bound = @ \ (scopeOp.s.active \ tree.runs)]
    BY DEF s
  <2> HIDE DEF s
  <2>3. s \in ScopeStates
    BY <1>3, <2>1, <2>2, Zenon DEF ScopeStates
  <2> QED
    BY <1>3, <2>2, <2>3, ScopeIsSome DEF ScopeStates
<1> HIDE DEF s
<1>5. /\ scopeOp' \in ScopeCalls /\ scopeOp'.s = s
      /\ scopeFaults' \in Nat /\ scopeCrashes' \in Nat
      /\ Blamed => Blamed'
      /\ \/ /\ s.active # {} /\ scopeFile' = scopeFile
            /\ Moved(scopeOp, scopeOp', "reserve")
         \/ /\ s.active = {} /\ scopeFile' = s
            /\ Moved(scopeOp, scopeOp', "restoreThenNew")
         \/ /\ scopeFile' \in {scopeFile, s} /\ Blamed'
            /\ Moved(scopeOp, scopeOp', "failed")
  <2>1. /\ Handler = "failed" /\ "reserve" \in ScopeSteps
        /\ "restoreThenNew" \in ScopeSteps
    BY <1>3, HandlerSteps DEF ScopeSteps
  <2>2. CASE s.active # {}
    <3>1. /\ scopeOp' = [scopeOp EXCEPT !.s = s, !.pc = "reserve"]
          /\ UNCHANGED <<scopeFile, Counts>>
      BY <2>2 DEF SurveyRuns, s
    <3> QED
      BY <1>1, <1>2, <1>4, <2>1, <2>2, <3>1, InvParts, CopyCall, SameCounts
  <2>3. CASE s.active = {}
    <3>1. WriteScope(s, "restoreThenNew")
      BY <2>3 DEF SurveyRuns, s
    <3> QED
      BY <1>1, <1>2, <1>4, <2>1, <2>3, <3>1, InvParts, WriteCall DEF Runs3
  <2> QED
    BY <2>2, <2>3
<1>6. Busy'
  BY <1>5, CallIsBusyNext
<1>7. Good(s, tree, orphans, runState)
  BY <1>1, <1>2, <1>3, <1>4, InvParts, ScopeAssumption, ScopeTypes DEF Good,
     Consistent, Matches, Lists, InUse, Directories, Placed
<1>8. /\ s.active # {} =>
            /\ s.sim /\ s.ctl /\ ~s.ready
            /\ tree.simOn \/ orphans # {}
      /\ s.active = {} => s.bound = {}
  BY <1>3, <1>4, ScopeTypes, ScopeAssumption DEF Good, Consistent, Matches,
     InUse
<1>9. Hierarchy' /\ Directories' /\ FileInv' /\ CopyInv'
  BY <1>1, <1>3, <1>4, <1>5, <1>6, <1>7, <1>8, WriteKeeps
<1>10. ScopeTypeOK'
  BY <1>1, <1>3, <1>4, <1>5, InvParts, TypesKept
<1>11. Owned'
  BY <1>1, <1>2, <1>5, InvParts, OwnedKept
<1>12. Stage'
  BY <1>1, <1>2, <1>3, <1>4, <1>5, <1>6, <1>7, <1>8 DEF Stage, InUse
<1>13. Agree'
  BY <1>1, <1>2, <1>3, <1>4, <1>5, <1>6, <1>7, <1>8 DEF Agree, InUse
<1>14. Building'
  BY <1>1, <1>2, <1>3, <1>4, <1>5, <1>6, <1>7, <1>8 DEF Building, InUse
<1>15. Undone'
  BY <1>1, <1>2, <1>3, <1>4, <1>5, <1>6, <1>7, <1>8 DEF Undone, InUse
<1>16. Unused'
  BY <1>1, <1>2, <1>3, <1>4, <1>5, <1>6, <1>7, <1>8 DEF Unused, InUse
<1>17. Recorded'
  BY <1>1, <1>3, <1>4, <1>5, <1>6, RecordedKept
<1>18. Refusals'
  BY <1>1, <1>2, <1>3, <1>4, <1>5, <1>6, <1>7, <1>8 DEF Refusals, InUse
<1> QED
  BY <1>9, <1>10, <1>11, <1>12, <1>13, <1>14, <1>15, <1>16, <1>17, <1>18
    DEF ScopeInv

\* The run is announced in the state file before its directory is made.
LEMMA ReserveRunKeeps ==
  ASSUME ScopeInv, ReserveRun
  PROVE  ScopeInv'
<1>1. /\ scopeOp.pc = "reserve"
      /\ UNCHANGED <<tree, runState, runOwner, orphans>>
  BY DEF ReserveRun, At, Runs3, Counts
<1>2. Busy /\ scopeOp \in ScopeCalls
  BY <1>1, InvParts, BusyCall
<1>3. /\ scopeOp.s \in ScopeStates /\ scopeOp.s # NoScope
      /\ scopeFile # NoScope /\ Good(scopeOp.s, tree, orphans, runState)
      /\ scopeOp.kind = "prepare" /\ runState[scopeOp.run] = "preparing"
      /\ scopeOp.run \in Runs /\ scopeOp.run # NoRun
      /\ ~scopeOp.attempted /\ ~scopeOp.rolling /\ ~scopeOp.made
      /\ scopeOp.s.sim /\ scopeOp.s.ctl /\ ~scopeOp.s.ready
      /\ scopeOp.s.pending = NoRun
      /\ tree.simOn \/ orphans # {}
      /\ scopeOp.ctl => scopeOp.sim
      /\ scopeOp.run \notin tree.runs /\ scopeOp.run \notin scopeOp.s.active
      /\ scopeOp.refused => Blamed
  BY <1>1, <1>2, InvParts, CallTypes, ScopeIsSome, ScopeAssumption DEF Stage,
     Agree, Building, Undone, Unused, Refusals, CopyInv, Owned
<1> DEFINE s == [scopeOp.s EXCEPT !.pending = scopeOp.run,
                                    !.created = FALSE]
<1>4. /\ s \in ScopeStates /\ s # NoScope
      /\ s.active = scopeOp.s.active /\ s.bound = scopeOp.s.bound
      /\ s.pending = scopeOp.run /\ ~s.created
      /\ SameShared(scopeOp.s, s)
  <2>1. scopeOp.run \in Runs \cup {NoRun}
    BY <1>3 DEF ScopeStates
  <2>2. s = [scopeOp.s EXCEPT !.pending = scopeOp.run,
                      !.created = FALSE]
    BY DEF s
  <2> HIDE DEF s
  <2>3. s \in ScopeStates
    BY <1>3, <2>1, <2>2, Zenon DEF ScopeStates
  <2> QED
    BY <1>3, <2>2, <2>3, ScopeIsSome DEF ScopeStates
<1> HIDE DEF s
<1>5. /\ scopeOp' \in ScopeCalls /\ scopeOp'.s = s
      /\ scopeFaults' \in Nat /\ scopeCrashes' \in Nat
      /\ Blamed => Blamed'
      /\ SameCall(scopeOp, scopeOp') /\ SameHold(scopeOp, scopeOp')
      /\ scopeOp'.attempted /\ (scopeOp'.rolling <=> scopeOp.rolling)
      /\ (scopeOp'.made <=> scopeOp.made)
      /\ (scopeOp'.refused <=> scopeOp.refused)
      /\ \/ scopeFile' = s /\ scopeOp'.pc = "mkRun"
         \/ /\ scopeFile' \in {scopeFile, s} /\ Blamed'
            /\ scopeOp'.pc = "rollback"
  <2>1. ASSUME NEW pc \in ScopeSteps,
               scopeOp' = [scopeOp EXCEPT !.s = s, !.attempted = TRUE,
                                          !.pc = pc]
        PROVE  /\ scopeOp' \in ScopeCalls /\ scopeOp'.s = s
               /\ SameCall(scopeOp, scopeOp') /\ SameHold(scopeOp, scopeOp')
               /\ scopeOp'.attempted /\ (scopeOp'.rolling <=> scopeOp.rolling)
               /\ (scopeOp'.made <=> scopeOp.made) /\ scopeOp'.pc = pc
               /\ (scopeOp'.refused <=> scopeOp.refused)
    <3>1. scopeOp' \in ScopeCalls
      BY <1>2, <1>4, <2>1, Zenon DEF ScopeCalls
    <3> QED
      BY <1>2, <2>1, <3>1 DEF ScopeCalls
  <2>2. "mkRun" \in ScopeSteps /\ "rollback" \in ScopeSteps
    BY DEF ScopeSteps
  <2>3. CASE /\ scopeFile' = s /\ UNCHANGED Counts
             /\ scopeOp' = [scopeOp EXCEPT !.s = s, !.attempted = TRUE,
                                           !.pc = "mkRun"]
    BY <1>1, <2>1, <2>2, <2>3, InvParts, SameCounts
  <2>4. CASE /\ Throw /\ scopeFile' \in {scopeFile, s}
             /\ scopeOp' = [scopeOp EXCEPT !.s = s, !.attempted = TRUE,
                                           !.pc = "rollback"]
    BY <2>1, <2>2, <2>4, InvParts, ThrowCounts
  <2> QED
    BY <1>3, <2>3, <2>4 DEF ReserveRun, s
<1>6. Busy'
  BY <1>5, CallIsBusyNext
<1>7. Good(s, tree, orphans, runState)
  BY <1>1, <1>2, <1>3, <1>4, InvParts, ScopeAssumption, ScopeTypes DEF Good,
     Consistent, Matches, Lists, InUse
<1>8. Hierarchy' /\ Directories' /\ FileInv' /\ CopyInv'
  BY <1>1, <1>3, <1>4, <1>5, <1>6, <1>7, WriteKeeps
<1>9. ScopeTypeOK'
  BY <1>1, <1>3, <1>4, <1>5, InvParts, TypesKept
<1>10. Owned'
  BY <1>1, <1>2, <1>5, InvParts, OwnedKept
<1>11. Stage'
  BY <1>1, <1>2, <1>3, <1>4, <1>5, <1>6, <1>7 DEF Stage
<1>12. Agree'
  BY <1>1, <1>2, <1>3, <1>4, <1>5, <1>6, <1>7 DEF Agree
<1>13. Building'
  BY <1>1, <1>2, <1>3, <1>4, <1>5, <1>6, <1>7 DEF Building
<1>14. Undone'
  BY <1>1, <1>2, <1>3, <1>4, <1>5, <1>6, <1>7 DEF Undone
<1>15. Unused'
  BY <1>1, <1>2, <1>3, <1>4, <1>5, <1>6, <1>7 DEF Unused
<1>16. Recorded'
  BY <1>5, <1>6, RecordedKept
<1>17. Refusals'
  BY <1>1, <1>2, <1>3, <1>4, <1>5, <1>6, <1>7 DEF Refusals
<1> QED
  BY <1>8, <1>9, <1>10, <1>11, <1>12, <1>13, <1>14, <1>15, <1>16, <1>17
    DEF ScopeInv

\* A new scope is published when there is no state file.
LEMMA PublishScopeKeeps ==
  ASSUME ScopeInv, PublishScope
  PROVE  ScopeInv'
<1>1. /\ scopeOp.pc = "new"
      /\ UNCHANGED <<tree, runState, runOwner, orphans>>
  BY DEF PublishScope, At, Runs3, Counts
<1>2. Busy /\ scopeOp \in ScopeCalls
  BY <1>1, InvParts, BusyCall
<1>3. /\ scopeFile = NoScope /\ ~scopeOp.ctl
      /\ scopeOp.kind = "prepare" /\ runState[scopeOp.run] = "preparing"
      /\ scopeOp.run \in Runs /\ scopeOp.run # NoRun
      /\ ~scopeOp.attempted /\ ~scopeOp.published
      /\ ~scopeOp.rolling /\ ~scopeOp.made
      /\ scopeOp.run \notin tree.runs
      /\ scopeOp.s # NoScope =>
            /\ scopeOp.run \notin scopeOp.s.active
            /\ scopeOp.run # scopeOp.s.pending
      /\ scopeOp.refused => Blamed
  BY <1>1, <1>2, InvParts, CallTypes, ScopeIsSome, ScopeAssumption DEF Stage,
     Agree, Building, Undone, Unused, Refusals, CopyInv, Owned
<1> DEFINE s == NewScopeState
<1>4. /\ s \in ScopeStates /\ s # NoScope
      /\ (s.pre <=> tree.sim) /\ (s.sim <=> tree.sim) /\ ~s.ctl /\ ~s.ready
      /\ s.bound = {} /\ s.pending = NoRun /\ ~s.created
      /\ s.active = IF tree.sim THEN tree.runs ELSE {}
  <2> DEFINE a == IF tree.sim THEN tree.runs ELSE {}
  <2>1. a \in SUBSET Runs /\ tree.sim \in BOOLEAN
    BY InvParts DEF TreeType
  <2>2. s = [kind |-> "scope", pre |-> tree.sim, sim |-> tree.sim,
             ctl |-> FALSE, ready |-> FALSE, active |-> a, bound |-> {},
             pending |-> NoRun, created |-> FALSE]
    BY DEF s, NewScopeState
  <2> HIDE DEF s, a
  <2>3. s \in ScopeStates
    BY <2>1, <2>2 DEF ScopeStates
  <2>4. /\ s.pre = tree.sim /\ s.sim = tree.sim /\ ~s.ctl /\ ~s.ready
        /\ s.bound = {} /\ s.pending = NoRun /\ ~s.created /\ s.active = a
    BY <2>2
  <2> QED
    BY <2>3, <2>4, ScopeIsSome DEF a
<1> HIDE DEF s
<1>5. /\ scopeOp' \in ScopeCalls /\ SameCall(scopeOp, scopeOp')
      /\ scopeFaults' \in Nat /\ scopeCrashes' \in Nat
      /\ Blamed => Blamed'
      /\ (scopeOp'.refused <=> scopeOp.refused)
      /\ ~scopeOp'.attempted /\ ~scopeOp'.rolling /\ ~scopeOp'.made
      /\ ~scopeOp'.ctl
      /\ \/ /\ scopeFile' = s /\ scopeOp'.s = s /\ (scopeOp'.sim <=> tree.sim)
            /\ scopeOp'.published
            /\ scopeOp'.pc = IF tree.sim THEN "mkCtl" ELSE "mkSim"
         \/ /\ scopeFile' \in {scopeFile, s} /\ Blamed'
            /\ scopeOp'.s = scopeOp.s /\ scopeOp'.pc = "failed"
  <2>1. tree.sim \in BOOLEAN
    BY InvParts DEF TreeType
  <2> DEFINE pc == IF tree.sim THEN "mkCtl" ELSE "mkSim"
  <2>2. pc \in ScopeSteps /\ "failed" \in ScopeSteps
    BY DEF ScopeSteps
  <2>3. scopeOp.run \notin s.active
    BY <1>3, <1>4
  <2>4. \/ /\ scopeFile' = s /\ UNCHANGED Counts
           /\ scopeOp' = [scopeOp EXCEPT !.s = s, !.sim = tree.sim,
                              !.published = TRUE, !.pc = pc]
        \/ Throw /\ scopeFile' \in {scopeFile, s} /\ Goto("failed")
    BY <2>3 DEF PublishScope, s
  <2> HIDE DEF pc
  <2>5. CASE /\ scopeFile' = s /\ UNCHANGED Counts
             /\ scopeOp' = [scopeOp EXCEPT !.s = s, !.sim = tree.sim,
                                !.published = TRUE, !.pc = pc]
    <3>1. scopeOp' \in ScopeCalls
      BY <1>2, <1>4, <2>1, <2>2, <2>5, Zenon DEF ScopeCalls
    <3>2. /\ SameCall(scopeOp, scopeOp') /\ scopeOp'.s = s
          /\ scopeOp'.sim = tree.sim /\ scopeOp'.published
          /\ (scopeOp'.refused <=> scopeOp.refused) /\ scopeOp'.pc = pc
          /\ (scopeOp'.attempted <=> scopeOp.attempted)
          /\ (scopeOp'.rolling <=> scopeOp.rolling)
          /\ (scopeOp'.made <=> scopeOp.made)
          /\ (scopeOp'.ctl <=> scopeOp.ctl)
      BY <1>2, <2>5, <3>1 DEF ScopeCalls
    <3>3. /\ scopeFaults' \in Nat /\ scopeCrashes' \in Nat
          /\ Blamed => Blamed'
      BY <1>1, <2>5, InvParts, SameCounts
    <3> QED
      BY <1>3, <2>5, <3>1, <3>2, <3>3 DEF pc
  <2>6. CASE Throw /\ scopeFile' \in {scopeFile, s} /\ Goto("failed")
    <3>1. /\ scopeOp' \in ScopeCalls /\ scopeOp'.s = scopeOp.s
          /\ Moved(scopeOp, scopeOp', "failed")
      BY <1>2, <2>2, <2>6, GotoCall
    <3>2. scopeFaults' \in Nat /\ scopeCrashes' \in Nat /\ Blamed'
      BY <2>6, InvParts, ThrowCounts
    <3> QED
      BY <1>3, <2>6, <3>1, <3>2
  <2> QED
    BY <2>4, <2>5, <2>6
<1>6. Busy'
  BY <1>5, CallIsBusyNext
<1>7. /\ Empty(tree, orphans, runState) /\ (tree.sim <=> tree.found)
      /\ ~tree.ctl /\ ~tree.rootOn /\ ~tree.simOn /\ tree.procs = "root"
      /\ s.active # {} => orphans # {}
  <2>1. /\ Empty(tree, orphans, runState) /\ (tree.sim <=> tree.found)
        /\ ~tree.ctl /\ ~tree.rootOn /\ ~tree.simOn /\ tree.procs = "root"
    BY <1>3, InvParts DEF FileInv
  <2> QED
    BY <1>4, <2>1 DEF Empty
<1>8. Good(s, tree, orphans, runState)
  BY <1>1, <1>2, <1>3, <1>4, <1>7, InvParts, ScopeAssumption, ScopeTypes
    DEF Good, Consistent, Matches, Lists, InUse, Empty, Directories, Placed
<1>9. Hierarchy' /\ Directories' /\ FileInv' /\ CopyInv'
  <2>1. Hierarchy' /\ Directories'
    BY <1>1, InvParts DEF Hierarchy, Directories
  <2>2. FileInv'
    BY <1>1, <1>4, <1>5, <1>8, InvParts DEF FileInv
  <2>3. CopyInv'
    BY <1>1, <1>2, <1>4, <1>5, <1>8, InvParts DEF CopyInv
  <2> QED
    BY <2>1, <2>2, <2>3
<1>10. ScopeTypeOK'
  BY <1>1, <1>3, <1>4, <1>5, InvParts, TypesKept
<1>11. Owned'
  BY <1>1, <1>2, <1>5, InvParts, OwnedKept
<1>12. Stage'
  BY <1>1, <1>2, <1>3, <1>4, <1>5, <1>6, <1>7 DEF Stage
<1>13. Agree'
  BY <1>1, <1>2, <1>3, <1>4, <1>5, <1>6, <1>7 DEF Agree
<1>14. Building'
  BY <1>1, <1>2, <1>3, <1>4, <1>5, <1>6, <1>7 DEF Building
<1>15. Undone'
  BY <1>1, <1>2, <1>3, <1>4, <1>5, <1>6, <1>7 DEF Undone
<1>16. Unused'
  BY <1>1, <1>2, <1>3, <1>4, <1>5, <1>6, <1>7 DEF Unused
<1>17. Recorded'
  BY <1>5, <1>6, RecordedKept
<1>18. Refusals'
  BY <1>1, <1>2, <1>3, <1>4, <1>5, <1>6, <1>7 DEF Refusals
<1> QED
  BY <1>9, <1>10, <1>11, <1>12, <1>13, <1>14, <1>15, <1>16, <1>17, <1>18
    DEF ScopeInv

\* The identity of the simulator directory is recorded.
LEMMA RecordSimulatorKeeps ==
  ASSUME ScopeInv, RecordSimulator
  PROVE  ScopeInv'
<1>1. /\ scopeOp.pc = "wrSim"
      /\ UNCHANGED <<tree, runState, runOwner, orphans>>
  BY DEF RecordSimulator, At, Runs3, Counts
<1>2. Busy /\ scopeOp \in ScopeCalls
  BY <1>1, InvParts, BusyCall
<1>3. /\ scopeOp.s \in ScopeStates /\ scopeFile = scopeOp.s
      /\ scopeFile # NoScope /\ Good(scopeOp.s, tree, orphans, runState)
      /\ scopeOp.kind = "prepare" /\ runState[scopeOp.run] = "preparing"
      /\ scopeOp.run \in Runs /\ scopeOp.run # NoRun
      /\ ~scopeOp.attempted /\ scopeOp.published
      /\ ~scopeOp.rolling /\ ~scopeOp.made
      /\ scopeOp.s.pending = NoRun /\ ~scopeOp.s.ready
      /\ scopeOp.s.active # {} => orphans # {}
      /\ scopeOp.run \notin tree.runs /\ scopeOp.run \notin scopeOp.s.active
      /\ scopeOp.ctl => scopeOp.sim
      /\ scopeOp.refused => Blamed
      /\ tree.sim
  BY <1>1, <1>2, InvParts, CallTypes, ScopeIsSome, ScopeAssumption DEF Stage,
     Agree, Building, Undone, Unused, Refusals, CopyInv, Owned
<1> DEFINE s == [scopeOp.s EXCEPT !.sim = TRUE]
<1>4. /\ s \in ScopeStates /\ s # NoScope
      /\ SameList(scopeOp.s, s) /\ s.sim
      /\ (s.pre <=> scopeOp.s.pre) /\ (s.ctl <=> scopeOp.s.ctl)
      /\ (s.ready <=> scopeOp.s.ready)
  <2>1. TRUE \in BOOLEAN
    BY <1>3 DEF ScopeStates
  <2>2. s = [scopeOp.s EXCEPT !.sim = TRUE]
    BY DEF s
  <2> HIDE DEF s
  <2>3. s \in ScopeStates
    BY <1>3, <2>1, <2>2, Zenon DEF ScopeStates
  <2> QED
    BY <1>3, <2>2, <2>3, ScopeIsSome DEF ScopeStates
<1> HIDE DEF s
<1>5. /\ scopeOp' \in ScopeCalls /\ scopeOp'.s = s
      /\ scopeFaults' \in Nat /\ scopeCrashes' \in Nat
      /\ Blamed => Blamed'
      /\ SameCall(scopeOp, scopeOp') /\ SameFlags(scopeOp, scopeOp')
      /\ scopeOp'.sim /\ (scopeOp'.ctl <=> scopeOp.ctl)
      /\ (scopeOp'.refused <=> scopeOp.refused)
      /\ \/ scopeFile' = s /\ scopeOp'.pc = "mkCtl"
         \/ /\ scopeFile' \in {scopeFile, s} /\ Blamed'
            /\ scopeOp'.pc = "rollback"
  <2>1. ASSUME NEW pc \in ScopeSteps,
               scopeOp' = [scopeOp EXCEPT !.s.sim = TRUE, !.sim = TRUE,
                                          !.pc = pc]
        PROVE  /\ scopeOp' \in ScopeCalls /\ scopeOp'.s = s
               /\ SameCall(scopeOp, scopeOp') /\ SameFlags(scopeOp, scopeOp')
               /\ scopeOp'.sim /\ (scopeOp'.ctl <=> scopeOp.ctl)
               /\ scopeOp'.pc = pc /\ (scopeOp'.refused <=> scopeOp.refused)
    <3>1. scopeOp' = [scopeOp EXCEPT !.s = s, !.sim = TRUE, !.pc = pc]
      BY <2>1 DEF s
    <3>2. scopeOp' \in ScopeCalls
      BY <1>2, <1>4, <3>1, Zenon DEF ScopeCalls
    <3> QED
      BY <1>2, <3>1, <3>2 DEF ScopeCalls
  <2>2. /\ "mkCtl" \in ScopeSteps /\ Handler \in ScopeSteps
        /\ Handler = "rollback"
    BY <1>3, HandlerSteps DEF ScopeSteps
  <2>3. \/ /\ scopeFile' = s /\ UNCHANGED Counts
           /\ scopeOp' = [scopeOp EXCEPT !.s.sim = TRUE, !.sim = TRUE,
                                         !.pc = "mkCtl"]
        \/ /\ Throw /\ scopeFile' \in {scopeFile, s}
           /\ scopeOp' = [scopeOp EXCEPT !.s.sim = TRUE, !.sim = TRUE,
                                         !.pc = Handler]
    BY DEF RecordSimulator, s
  <2>4. CASE /\ scopeFile' = s /\ UNCHANGED Counts
             /\ scopeOp' = [scopeOp EXCEPT !.s.sim = TRUE, !.sim = TRUE,
                                           !.pc = "mkCtl"]
    BY <1>1, <2>1, <2>2, <2>4, InvParts, SameCounts
  <2>5. CASE /\ Throw /\ scopeFile' \in {scopeFile, s}
             /\ scopeOp' = [scopeOp EXCEPT !.s.sim = TRUE, !.sim = TRUE,
                                           !.pc = Handler]
    BY <2>1, <2>2, <2>5, InvParts, ThrowCounts
  <2> QED
    BY <2>3, <2>4, <2>5
<1>6. Busy'
  BY <1>5, CallIsBusyNext
<1>7. Good(s, tree, orphans, runState)
  BY <1>1, <1>2, <1>3, <1>4, InvParts, ScopeAssumption, ScopeTypes DEF Good,
     Consistent, Matches, Lists, InUse
<1>8. Hierarchy' /\ Directories' /\ FileInv' /\ CopyInv'
  BY <1>1, <1>3, <1>4, <1>5, <1>6, <1>7, WriteKeeps
<1>9. ScopeTypeOK'
  BY <1>1, <1>3, <1>4, <1>5, InvParts, TypesKept
<1>10. Owned'
  BY <1>1, <1>2, <1>5, InvParts, OwnedKept
<1>11. Stage'
  BY <1>1, <1>2, <1>3, <1>4, <1>5, <1>6, <1>7 DEF Stage
<1>12. Agree'
  BY <1>1, <1>2, <1>3, <1>4, <1>5, <1>6, <1>7 DEF Agree
<1>13. Building'
  BY <1>1, <1>2, <1>3, <1>4, <1>5, <1>6, <1>7 DEF Building
<1>14. Undone'
  BY <1>1, <1>2, <1>3, <1>4, <1>5, <1>6, <1>7 DEF Undone
<1>15. Unused'
  BY <1>1, <1>2, <1>3, <1>4, <1>5, <1>6, <1>7 DEF Unused
<1>16. Recorded'
  BY <1>5, <1>6, RecordedKept
<1>17. Refusals'
  BY <1>1, <1>2, <1>3, <1>4, <1>5, <1>6, <1>7 DEF Refusals
<1> QED
  BY <1>8, <1>9, <1>10, <1>11, <1>12, <1>13, <1>14, <1>15, <1>16, <1>17
    DEF ScopeInv

\* The identity of the controller directory is recorded.
LEMMA RecordControllerKeeps ==
  ASSUME ScopeInv, RecordController
  PROVE  ScopeInv'
<1>1. /\ scopeOp.pc = "wrCtl"
      /\ UNCHANGED <<tree, runState, runOwner, orphans>>
  BY DEF RecordController, At, Runs3, Counts
<1>2. Busy /\ scopeOp \in ScopeCalls
  BY <1>1, InvParts, BusyCall
<1>3. /\ scopeOp.s \in ScopeStates /\ scopeFile = scopeOp.s
      /\ scopeFile # NoScope /\ Good(scopeOp.s, tree, orphans, runState)
      /\ scopeOp.kind = "prepare" /\ runState[scopeOp.run] = "preparing"
      /\ scopeOp.run \in Runs /\ scopeOp.run # NoRun
      /\ ~scopeOp.attempted /\ scopeOp.published
      /\ ~scopeOp.rolling /\ ~scopeOp.made
      /\ scopeOp.s.pending = NoRun /\ ~scopeOp.s.ready
      /\ scopeOp.s.active # {} => orphans # {}
      /\ scopeOp.run \notin tree.runs /\ scopeOp.run \notin scopeOp.s.active
      /\ scopeOp.ctl => scopeOp.sim
      /\ scopeOp.refused => Blamed
      /\ tree.sim /\ tree.ctl /\ scopeOp.s.sim /\ scopeOp.sim
  BY <1>1, <1>2, InvParts, CallTypes, ScopeIsSome, ScopeAssumption DEF Stage,
     Agree, Building, Undone, Unused, Refusals, CopyInv, Owned
<1> DEFINE s == [scopeOp.s EXCEPT !.ctl = TRUE]
<1>4. /\ s \in ScopeStates /\ s # NoScope
      /\ SameList(scopeOp.s, s) /\ s.ctl
      /\ (s.pre <=> scopeOp.s.pre) /\ (s.sim <=> scopeOp.s.sim)
      /\ (s.ready <=> scopeOp.s.ready)
  <2>1. TRUE \in BOOLEAN
    BY <1>3 DEF ScopeStates
  <2>2. s = [scopeOp.s EXCEPT !.ctl = TRUE]
    BY DEF s
  <2> HIDE DEF s
  <2>3. s \in ScopeStates
    BY <1>3, <2>1, <2>2, Zenon DEF ScopeStates
  <2> QED
    BY <1>3, <2>2, <2>3, ScopeIsSome DEF ScopeStates
<1> HIDE DEF s
<1>5. /\ scopeOp' \in ScopeCalls /\ scopeOp'.s = s
      /\ scopeFaults' \in Nat /\ scopeCrashes' \in Nat
      /\ Blamed => Blamed'
      /\ SameCall(scopeOp, scopeOp') /\ SameFlags(scopeOp, scopeOp')
      /\ scopeOp'.ctl /\ (scopeOp'.sim <=> scopeOp.sim)
      /\ (scopeOp'.refused <=> scopeOp.refused)
      /\ \/ scopeFile' = s /\ scopeOp'.pc = "moveIn"
         \/ /\ scopeFile' \in {scopeFile, s} /\ Blamed'
            /\ scopeOp'.pc = "rollback"
  <2>1. ASSUME NEW pc \in ScopeSteps,
               scopeOp' = [scopeOp EXCEPT !.s.ctl = TRUE, !.ctl = TRUE,
                                          !.pc = pc]
        PROVE  /\ scopeOp' \in ScopeCalls /\ scopeOp'.s = s
               /\ SameCall(scopeOp, scopeOp') /\ SameFlags(scopeOp, scopeOp')
               /\ scopeOp'.ctl /\ (scopeOp'.sim <=> scopeOp.sim)
               /\ scopeOp'.pc = pc /\ (scopeOp'.refused <=> scopeOp.refused)
    <3>1. scopeOp' = [scopeOp EXCEPT !.s = s, !.ctl = TRUE, !.pc = pc]
      BY <2>1 DEF s
    <3>2. scopeOp' \in ScopeCalls
      BY <1>2, <1>4, <3>1, Zenon DEF ScopeCalls
    <3> QED
      BY <1>2, <3>1, <3>2 DEF ScopeCalls
  <2>2. /\ "moveIn" \in ScopeSteps /\ Handler \in ScopeSteps
        /\ Handler = "rollback"
    BY <1>3, HandlerSteps DEF ScopeSteps
  <2>3. \/ /\ scopeFile' = s /\ UNCHANGED Counts
           /\ scopeOp' = [scopeOp EXCEPT !.s.ctl = TRUE, !.ctl = TRUE,
                                         !.pc = "moveIn"]
        \/ /\ Throw /\ scopeFile' \in {scopeFile, s}
           /\ scopeOp' = [scopeOp EXCEPT !.s.ctl = TRUE, !.ctl = TRUE,
                                         !.pc = Handler]
    BY DEF RecordController, s
  <2>4. CASE /\ scopeFile' = s /\ UNCHANGED Counts
             /\ scopeOp' = [scopeOp EXCEPT !.s.ctl = TRUE, !.ctl = TRUE,
                                           !.pc = "moveIn"]
    BY <1>1, <2>1, <2>2, <2>4, InvParts, SameCounts
  <2>5. CASE /\ Throw /\ scopeFile' \in {scopeFile, s}
             /\ scopeOp' = [scopeOp EXCEPT !.s.ctl = TRUE, !.ctl = TRUE,
                                           !.pc = Handler]
    BY <2>1, <2>2, <2>5, InvParts, ThrowCounts
  <2> QED
    BY <2>3, <2>4, <2>5
<1>6. Busy'
  BY <1>5, CallIsBusyNext
<1>7. Good(s, tree, orphans, runState)
  BY <1>1, <1>2, <1>3, <1>4, InvParts, ScopeAssumption, ScopeTypes DEF Good,
     Consistent, Matches, Lists, InUse
<1>8. Hierarchy' /\ Directories' /\ FileInv' /\ CopyInv'
  BY <1>1, <1>3, <1>4, <1>5, <1>6, <1>7, WriteKeeps
<1>9. ScopeTypeOK'
  BY <1>1, <1>3, <1>4, <1>5, InvParts, TypesKept
<1>10. Owned'
  BY <1>1, <1>2, <1>5, InvParts, OwnedKept
<1>11. Stage'
  BY <1>1, <1>2, <1>3, <1>4, <1>5, <1>6, <1>7 DEF Stage
<1>12. Agree'
  BY <1>1, <1>2, <1>3, <1>4, <1>5, <1>6, <1>7 DEF Agree
<1>13. Building'
  BY <1>1, <1>2, <1>3, <1>4, <1>5, <1>6, <1>7 DEF Building
<1>14. Undone'
  BY <1>1, <1>2, <1>3, <1>4, <1>5, <1>6, <1>7 DEF Undone
<1>15. Unused'
  BY <1>1, <1>2, <1>3, <1>4, <1>5, <1>6, <1>7 DEF Unused
<1>16. Recorded'
  BY <1>5, <1>6, RecordedKept
<1>17. Refusals'
  BY <1>1, <1>2, <1>3, <1>4, <1>5, <1>6, <1>7 DEF Refusals
<1> QED
  BY <1>8, <1>9, <1>10, <1>11, <1>12, <1>13, <1>14, <1>15, <1>16, <1>17
    DEF ScopeInv

\* The run is forgotten, with what it has announced.
LEMMA ForgetRunKeeps ==
  ASSUME ScopeInv, ForgetRun
  PROVE  ScopeInv'
<1>1. /\ scopeOp.pc = "wrRolled"
      /\ UNCHANGED <<tree, runState, runOwner, orphans>>
  BY DEF ForgetRun, At, Runs3, Counts
<1>2. Busy /\ scopeOp \in ScopeCalls
  BY <1>1, InvParts, BusyCall
<1>3. /\ scopeOp.s \in ScopeStates /\ scopeFile # NoScope
      /\ Good(scopeOp.s, tree, orphans, runState)
      /\ scopeOp.kind = "prepare" /\ runState[scopeOp.run] = "preparing"
      /\ scopeOp.run \in Runs /\ scopeOp.run # NoRun
      /\ scopeOp.rolling /\ Blamed
      /\ scopeOp.made => scopeOp.attempted
      /\ scopeOp.attempted => scopeOp.s.pending \in {scopeOp.run, NoRun}
      /\ scopeOp.run \notin tree.runs \ orphans
      /\ ~scopeOp.attempted =>
            /\ scopeOp.run \notin tree.runs
            /\ scopeOp.run \notin scopeFile.active
            /\ scopeOp.run # scopeFile.pending
            /\ scopeOp.run \notin scopeOp.s.active
            /\ scopeOp.run # scopeOp.s.pending
      /\ scopeOp.ctl => scopeOp.sim
  BY <1>1, <1>2, InvParts, CallTypes, ScopeIsSome, ScopeAssumption DEF Stage,
     Agree, Building, Undone, Unused, Refusals, CopyInv, Owned
<1> DEFINE s == IF scopeOp.attempted
                THEN [scopeOp.s EXCEPT !.active = @ \ {scopeOp.run},
                          !.bound = @ \ {scopeOp.run}, !.pending = NoRun,
                          !.created = FALSE]
                ELSE scopeOp.s
<1>4. /\ s \in ScopeStates /\ s # NoScope
      /\ SameShared(scopeOp.s, s)
      /\ scopeOp.attempted =>
            /\ s.active = scopeOp.s.active \ {scopeOp.run}
            /\ s.bound = scopeOp.s.bound \ {scopeOp.run}
            /\ s.pending = NoRun /\ ~s.created
      /\ ~scopeOp.attempted => s = scopeOp.s
  <2>1. CASE scopeOp.attempted
    <3>1. /\ scopeOp.s.active \ {scopeOp.run} \in SUBSET Runs
          /\ scopeOp.s.bound \ {scopeOp.run} \in SUBSET Runs
      BY <1>3 DEF ScopeStates
    <3>2. s = [scopeOp.s EXCEPT !.active = @ \ {scopeOp.run},
                   !.bound = @ \ {scopeOp.run}, !.pending = NoRun,
                   !.created = FALSE]
      BY <2>1 DEF s
    <3> HIDE DEF s
    <3>3. s \in ScopeStates
      BY <1>3, <3>1, <3>2, Zenon DEF ScopeStates
    <3> QED
      BY <1>3, <2>1, <3>2, <3>3, ScopeIsSome DEF ScopeStates
  <2>2. CASE ~scopeOp.attempted
    BY <1>3, <2>2, ScopeIsSome DEF s
  <2> QED
    BY <2>1, <2>2
<1> HIDE DEF s
<1>5. /\ scopeOp' \in ScopeCalls /\ scopeOp'.s = s
      /\ scopeFaults' \in Nat /\ scopeCrashes' \in Nat
      /\ Blamed => Blamed'
      /\ \/ scopeFile' = s /\ Moved(scopeOp, scopeOp', "restoreThenFail")
         \/ /\ scopeFile' \in {scopeFile, s}
            /\ Moved(scopeOp, scopeOp', "failed")
  <2> DEFINE pc == IF s.active = {} THEN "restoreThenFail" ELSE "failed"
  <2>1. WriteScope(s, pc)
    BY DEF ForgetRun, s
  <2>2. pc \in ScopeSteps /\ pc \in {"restoreThenFail", "failed"}
    BY DEF ScopeSteps
  <2>3. Handler = "failed"
    BY <1>3, HandlerSteps
  <2> HIDE DEF pc
  <2> QED
    BY <1>1, <1>2, <1>4, <2>1, <2>2, <2>3, InvParts, WriteCall DEF Runs3
<1>6. Busy'
  BY <1>5, CallIsBusyNext
<1>7. Good(s, tree, orphans, runState)
  BY <1>1, <1>2, <1>3, <1>4, InvParts, ScopeAssumption, ScopeTypes DEF Good,
     Consistent, Matches, Lists, InUse
<1>8. Hierarchy' /\ Directories' /\ FileInv' /\ CopyInv'
  BY <1>1, <1>3, <1>4, <1>5, <1>6, <1>7, WriteKeeps
<1>9. ScopeTypeOK'
  BY <1>1, <1>3, <1>4, <1>5, InvParts, TypesKept
<1>10. Owned'
  BY <1>1, <1>2, <1>5, InvParts, OwnedKept
<1>11. Stage'
  BY <1>1, <1>2, <1>3, <1>4, <1>5, <1>6, <1>7 DEF Stage
<1>12. Agree'
  BY <1>1, <1>2, <1>3, <1>4, <1>5, <1>6, <1>7 DEF Agree
<1>13. Building'
  BY <1>1, <1>2, <1>3, <1>4, <1>5, <1>6, <1>7 DEF Building
<1>14. Undone'
  BY <1>1, <1>2, <1>3, <1>4, <1>5, <1>6, <1>7 DEF Undone
<1>15. Unused'
  BY <1>1, <1>2, <1>3, <1>4, <1>5, <1>6, <1>7 DEF Unused
<1>16. Recorded'
  BY <1>1, <1>3, <1>4, <1>5, <1>6, RecordedKept
<1>17. Refusals'
  BY <1>1, <1>2, <1>3, <1>4, <1>5, <1>6, <1>7 DEF Refusals
<1> QED
  BY <1>8, <1>9, <1>10, <1>11, <1>12, <1>13, <1>14, <1>15, <1>16, <1>17
    DEF ScopeInv

\* The simulator directory is made.
LEMMA MakeSimulatorKeeps ==
  ASSUME ScopeInv, MakeSimulator
  PROVE  ScopeInv'
<1>1. /\ scopeOp.pc = "mkSim"
      /\ UNCHANGED <<scopeFile, runState, runOwner, orphans>>
  BY DEF MakeSimulator, At, Runs3, Counts
<1>2. Busy /\ scopeOp \in ScopeCalls
  BY <1>1, InvParts, BusyCall
<1>3. /\ scopeOp.s \in ScopeStates /\ scopeFile = scopeOp.s
      /\ scopeFile # NoScope /\ Good(scopeOp.s, tree, orphans, runState)
      /\ scopeOp.kind = "prepare" /\ runState[scopeOp.run] = "preparing"
      /\ scopeOp.run \in Runs /\ scopeOp.run # NoRun
      /\ ~scopeOp.attempted /\ scopeOp.published
      /\ ~scopeOp.rolling /\ ~scopeOp.made
      /\ scopeOp.s.pending = NoRun /\ ~scopeOp.s.ready
      /\ scopeOp.s.active # {} => orphans # {}
      /\ scopeOp.run \notin tree.runs /\ scopeOp.run \notin scopeOp.s.active
      /\ scopeOp.ctl => scopeOp.sim
      /\ scopeOp.refused => Blamed
  BY <1>1, <1>2, InvParts, CallTypes, ScopeIsSome, ScopeAssumption DEF Stage,
     Agree, Building, Undone, Unused, Refusals, CopyInv, Owned
<1> DEFINE t == [tree EXCEPT !.sim = TRUE]
<1>4. /\ t \in TreeType /\ t.enabled \subseteq t.runs
      /\ SameRuns(tree, t) /\ t.sim
      /\ (t.found <=> tree.found) /\ (t.ctl <=> tree.ctl)
      /\ (t.rootOn <=> tree.rootOn) /\ (t.simOn <=> tree.simOn)
      /\ t.procs = tree.procs
  <2>1. tree \in TreeType /\ tree.enabled \subseteq tree.runs
    BY InvParts
  <2> QED
    BY <2>1, TreeSim
<1> HIDE DEF t
<1>5. /\ scopeOp' \in ScopeCalls /\ scopeOp'.s = scopeOp.s
      /\ scopeFaults' \in Nat /\ scopeCrashes' \in Nat
      /\ Blamed => Blamed'
      /\ \/ tree' = t /\ Moved(scopeOp, scopeOp', "wrSim")
         \/ /\ tree' \in {tree, t} /\ Blamed'
            /\ Moved(scopeOp, scopeOp', "rollback")
  <2>1. Mutate(t, "wrSim")
    BY <1>1 DEF MakeSimulator, t, At
  <2>2. Handler = "rollback"
    BY <1>3, HandlerSteps
  <2>3. "wrSim" \in ScopeSteps
    BY DEF ScopeSteps
  <2> QED
    BY <1>1, <1>2, <2>1, <2>2, <2>3, InvParts, MutateCall DEF Runs3
<1>6. Busy'
  BY <1>5, CallIsBusyNext
<1>7. /\ Good(scopeFile, t, orphans, runState)
      /\ Good(scopeOp.s, t, orphans, runState)
  BY <1>1, <1>2, <1>3, <1>4, InvParts DEF Good, Matches, Lists, InUse
<1>8. Ordered(t) /\ Placed(t, runState)
  BY <1>1, <1>2, <1>3, <1>4, InvParts DEF Hierarchy, Directories, Ordered,
     Placed
<1>9. Hierarchy' /\ Directories' /\ FileInv' /\ CopyInv'
  BY <1>1, <1>2, <1>3, <1>5, <1>7, <1>8, MutateKeeps
<1>10. ScopeTypeOK'
  BY <1>1, <1>3, <1>4, <1>5, InvParts, TypesKept
<1>11. Owned'
  BY <1>1, <1>2, <1>5, InvParts, OwnedKept
<1>12. Stage'
  BY <1>1, <1>2, <1>3, <1>4, <1>5, <1>6 DEF Stage
<1>13. Agree'
  BY <1>1, <1>2, <1>3, <1>4, <1>5, <1>6 DEF Agree
<1>14. Building'
  BY <1>1, <1>2, <1>3, <1>4, <1>5, <1>6 DEF Building
<1>15. Undone'
  BY <1>1, <1>2, <1>3, <1>4, <1>5, <1>6 DEF Undone
<1>16. Unused'
  BY <1>1, <1>2, <1>3, <1>4, <1>5, <1>6 DEF Unused
<1>17. Recorded'
  BY <1>1, <1>3, <1>4, <1>5, <1>6, RecordedKept
<1>18. Refusals'
  BY <1>1, <1>2, <1>3, <1>4, <1>5, <1>6 DEF Refusals
<1> QED
  BY <1>9, <1>10, <1>11, <1>12, <1>13, <1>14, <1>15, <1>16, <1>17, <1>18
    DEF ScopeInv

\* The controller directory is made.
LEMMA MakeControllerKeeps ==
  ASSUME ScopeInv, MakeController
  PROVE  ScopeInv'
<1>1. /\ scopeOp.pc = "mkCtl"
      /\ UNCHANGED <<scopeFile, runState, runOwner, orphans>>
  BY DEF MakeController, At, Runs3, Counts
<1>2. Busy /\ scopeOp \in ScopeCalls
  BY <1>1, InvParts, BusyCall
<1>3. /\ scopeOp.s \in ScopeStates /\ scopeFile = scopeOp.s
      /\ scopeFile # NoScope /\ Good(scopeOp.s, tree, orphans, runState)
      /\ scopeOp.kind = "prepare" /\ runState[scopeOp.run] = "preparing"
      /\ scopeOp.run \in Runs /\ scopeOp.run # NoRun
      /\ ~scopeOp.attempted /\ scopeOp.published
      /\ ~scopeOp.rolling /\ ~scopeOp.made
      /\ scopeOp.s.pending = NoRun /\ ~scopeOp.s.ready
      /\ scopeOp.s.active # {} => orphans # {}
      /\ scopeOp.run \notin tree.runs /\ scopeOp.run \notin scopeOp.s.active
      /\ scopeOp.ctl => scopeOp.sim
      /\ scopeOp.refused => Blamed
      /\ tree.sim /\ scopeOp.s.sim /\ scopeOp.sim
  BY <1>1, <1>2, InvParts, CallTypes, ScopeIsSome, ScopeAssumption DEF Stage,
     Agree, Building, Undone, Unused, Refusals, CopyInv, Owned
<1> DEFINE t == [tree EXCEPT !.ctl = TRUE]
<1>4. /\ t \in TreeType /\ t.enabled \subseteq t.runs
      /\ SameRuns(tree, t) /\ t.ctl
      /\ (t.found <=> tree.found) /\ (t.sim <=> tree.sim)
      /\ (t.rootOn <=> tree.rootOn) /\ (t.simOn <=> tree.simOn)
      /\ t.procs = tree.procs
  <2>1. tree \in TreeType /\ tree.enabled \subseteq tree.runs
    BY InvParts
  <2> QED
    BY <2>1, TreeCtl
<1> HIDE DEF t
<1>5. /\ scopeOp' \in ScopeCalls /\ scopeOp'.s = scopeOp.s
      /\ scopeFaults' \in Nat /\ scopeCrashes' \in Nat
      /\ Blamed => Blamed'
      /\ \/ tree' = t /\ Moved(scopeOp, scopeOp', "wrCtl")
         \/ /\ tree' \in {tree, t} /\ Blamed'
            /\ Moved(scopeOp, scopeOp', "rollback")
  <2>1. Mutate(t, "wrCtl")
    BY <1>1 DEF MakeController, t, At
  <2>2. Handler = "rollback"
    BY <1>3, HandlerSteps
  <2>3. "wrCtl" \in ScopeSteps
    BY DEF ScopeSteps
  <2> QED
    BY <1>1, <1>2, <2>1, <2>2, <2>3, InvParts, MutateCall DEF Runs3
<1>6. Busy'
  BY <1>5, CallIsBusyNext
<1>7. /\ Good(scopeFile, t, orphans, runState)
      /\ Good(scopeOp.s, t, orphans, runState)
  BY <1>1, <1>2, <1>3, <1>4, InvParts DEF Good, Matches, Lists, InUse
<1>8. Ordered(t) /\ Placed(t, runState)
  BY <1>1, <1>2, <1>3, <1>4, InvParts DEF Hierarchy, Directories, Ordered,
     Placed
<1>9. Hierarchy' /\ Directories' /\ FileInv' /\ CopyInv'
  BY <1>1, <1>2, <1>3, <1>5, <1>7, <1>8, MutateKeeps
<1>10. ScopeTypeOK'
  BY <1>1, <1>3, <1>4, <1>5, InvParts, TypesKept
<1>11. Owned'
  BY <1>1, <1>2, <1>5, InvParts, OwnedKept
<1>12. Stage'
  BY <1>1, <1>2, <1>3, <1>4, <1>5, <1>6 DEF Stage
<1>13. Agree'
  BY <1>1, <1>2, <1>3, <1>4, <1>5, <1>6 DEF Agree
<1>14. Building'
  BY <1>1, <1>2, <1>3, <1>4, <1>5, <1>6 DEF Building
<1>15. Undone'
  BY <1>1, <1>2, <1>3, <1>4, <1>5, <1>6 DEF Undone
<1>16. Unused'
  BY <1>1, <1>2, <1>3, <1>4, <1>5, <1>6 DEF Unused
<1>17. Recorded'
  BY <1>1, <1>3, <1>4, <1>5, <1>6, RecordedKept
<1>18. Refusals'
  BY <1>1, <1>2, <1>3, <1>4, <1>5, <1>6 DEF Refusals
<1> QED
  BY <1>9, <1>10, <1>11, <1>12, <1>13, <1>14, <1>15, <1>16, <1>17, <1>18
    DEF ScopeInv

\* The processes of the root are moved to the controller directory.
LEMMA MoveProcessesKeeps ==
  ASSUME ScopeInv, MoveProcesses
  PROVE  ScopeInv'
<1>1. /\ scopeOp.pc = "moveIn"
      /\ UNCHANGED <<scopeFile, runState, runOwner, orphans>>
  BY DEF MoveProcesses, At, Runs3, Counts
<1>2. Busy /\ scopeOp \in ScopeCalls
  BY <1>1, InvParts, BusyCall
<1>3. /\ scopeOp.s \in ScopeStates /\ scopeFile = scopeOp.s
      /\ scopeFile # NoScope /\ Good(scopeOp.s, tree, orphans, runState)
      /\ scopeOp.kind = "prepare" /\ runState[scopeOp.run] = "preparing"
      /\ scopeOp.run \in Runs /\ scopeOp.run # NoRun
      /\ ~scopeOp.attempted /\ scopeOp.published
      /\ ~scopeOp.rolling /\ ~scopeOp.made
      /\ scopeOp.s.pending = NoRun /\ ~scopeOp.s.ready
      /\ scopeOp.s.active # {} => orphans # {}
      /\ scopeOp.run \notin tree.runs /\ scopeOp.run \notin scopeOp.s.active
      /\ scopeOp.ctl => scopeOp.sim
      /\ scopeOp.refused => Blamed
      /\ tree.sim /\ scopeOp.s.sim /\ scopeOp.sim
      /\ tree.ctl /\ scopeOp.s.ctl
  BY <1>1, <1>2, InvParts, CallTypes, ScopeIsSome, ScopeAssumption DEF Stage,
     Agree, Building, Undone, Unused, Refusals, CopyInv, Owned
<1> DEFINE t == [tree EXCEPT !.procs = "ctl"]
<1>4. /\ t \in TreeType /\ t.enabled \subseteq t.runs
      /\ SameRuns(tree, t) /\ SameDirs(tree, t) /\ t.procs = "ctl"
      /\ (t.rootOn <=> tree.rootOn) /\ (t.simOn <=> tree.simOn)
  <2>1. tree \in TreeType /\ tree.enabled \subseteq tree.runs
    BY InvParts
  <2> QED
    BY <2>1, TreeProcs
<1> HIDE DEF t
<1>5. /\ scopeOp' \in ScopeCalls /\ scopeOp'.s = scopeOp.s
      /\ scopeFaults' \in Nat /\ scopeCrashes' \in Nat
      /\ Blamed => Blamed'
      /\ \/ tree' = t /\ Moved(scopeOp, scopeOp', "rootOn")
         \/ /\ tree' \in {tree, t} /\ Blamed'
            /\ Moved(scopeOp, scopeOp', "rollback")
  <2>1. Mutate(t, "rootOn")
    BY <1>1 DEF MoveProcesses, t, At
  <2>2. Handler = "rollback"
    BY <1>3, HandlerSteps
  <2>3. "rootOn" \in ScopeSteps
    BY DEF ScopeSteps
  <2> QED
    BY <1>1, <1>2, <2>1, <2>2, <2>3, InvParts, MutateCall DEF Runs3
<1>6. Busy'
  BY <1>5, CallIsBusyNext
<1>7. /\ Good(scopeFile, t, orphans, runState)
      /\ Good(scopeOp.s, t, orphans, runState)
  BY <1>1, <1>2, <1>3, <1>4, InvParts DEF Good, Matches, Lists, InUse
<1>8. Ordered(t) /\ Placed(t, runState)
  BY <1>1, <1>2, <1>3, <1>4, InvParts DEF Hierarchy, Directories, Ordered,
     Placed
<1>9. Hierarchy' /\ Directories' /\ FileInv' /\ CopyInv'
  BY <1>1, <1>2, <1>3, <1>5, <1>7, <1>8, MutateKeeps
<1>10. ScopeTypeOK'
  BY <1>1, <1>3, <1>4, <1>5, InvParts, TypesKept
<1>11. Owned'
  BY <1>1, <1>2, <1>5, InvParts, OwnedKept
<1>12. Stage'
  BY <1>1, <1>2, <1>3, <1>4, <1>5, <1>6 DEF Stage
<1>13. Agree'
  BY <1>1, <1>2, <1>3, <1>4, <1>5, <1>6 DEF Agree
<1>14. Building'
  BY <1>1, <1>2, <1>3, <1>4, <1>5, <1>6 DEF Building
<1>15. Undone'
  BY <1>1, <1>2, <1>3, <1>4, <1>5, <1>6 DEF Undone
<1>16. Unused'
  BY <1>1, <1>2, <1>3, <1>4, <1>5, <1>6 DEF Unused
<1>17. Recorded'
  BY <1>1, <1>3, <1>4, <1>5, <1>6, RecordedKept
<1>18. Refusals'
  BY <1>1, <1>2, <1>3, <1>4, <1>5, <1>6 DEF Refusals
<1> QED
  BY <1>9, <1>10, <1>11, <1>12, <1>13, <1>14, <1>15, <1>16, <1>17, <1>18
    DEF ScopeInv

\* The controllers are switched on at the root...
LEMMA EnableRootKeeps ==
  ASSUME ScopeInv, EnableControllers, At("rootOn")
  PROVE  ScopeInv'
<1>1. /\ scopeOp.pc = "rootOn"
      /\ UNCHANGED <<scopeFile, runState, runOwner, orphans>>
  BY DEF EnableControllers, At, Runs3, Counts
<1>2. Busy /\ scopeOp \in ScopeCalls
  BY <1>1, InvParts, BusyCall
<1>3. /\ scopeOp.s \in ScopeStates /\ scopeFile = scopeOp.s
      /\ scopeFile # NoScope /\ Good(scopeOp.s, tree, orphans, runState)
      /\ scopeOp.kind = "prepare" /\ runState[scopeOp.run] = "preparing"
      /\ scopeOp.run \in Runs /\ scopeOp.run # NoRun
      /\ ~scopeOp.attempted /\ scopeOp.published
      /\ ~scopeOp.rolling /\ ~scopeOp.made
      /\ scopeOp.s.pending = NoRun /\ ~scopeOp.s.ready
      /\ scopeOp.s.active # {} => orphans # {}
      /\ scopeOp.run \notin tree.runs /\ scopeOp.run \notin scopeOp.s.active
      /\ scopeOp.ctl => scopeOp.sim
      /\ scopeOp.refused => Blamed
      /\ tree.sim /\ scopeOp.s.sim /\ scopeOp.sim
      /\ tree.ctl /\ scopeOp.s.ctl /\ tree.procs = "ctl"
  BY <1>1, <1>2, InvParts, CallTypes, ScopeIsSome, ScopeAssumption DEF Stage,
     Agree, Building, Undone, Unused, Refusals, CopyInv, Owned
<1> DEFINE t == [tree EXCEPT !.rootOn = TRUE]
<1>4. /\ t \in TreeType /\ t.enabled \subseteq t.runs
      /\ SameRuns(tree, t) /\ t.rootOn
      /\ (t.found <=> tree.found) /\ (t.sim <=> tree.sim)
      /\ (t.ctl <=> tree.ctl) /\ (t.simOn <=> tree.simOn)
      /\ t.procs = tree.procs
  <2>1. tree \in TreeType /\ tree.enabled \subseteq tree.runs
    BY InvParts
  <2> QED
    BY <2>1, TreeRootOn
<1> HIDE DEF t
<1>5. /\ scopeOp' \in ScopeCalls /\ scopeOp'.s = scopeOp.s
      /\ scopeFaults' \in Nat /\ scopeCrashes' \in Nat
      /\ Blamed => Blamed'
      /\ \/ tree' = t /\ Moved(scopeOp, scopeOp', "simOn")
         \/ /\ tree' \in {tree, t} /\ Blamed'
            /\ Moved(scopeOp, scopeOp', "rollback")
  <2>1. Mutate(t, "simOn")
    BY <1>1 DEF EnableControllers, t, At
  <2>2. Handler = "rollback"
    BY <1>3, HandlerSteps
  <2>3. "simOn" \in ScopeSteps
    BY DEF ScopeSteps
  <2> QED
    BY <1>1, <1>2, <2>1, <2>2, <2>3, InvParts, MutateCall DEF Runs3
<1>6. Busy'
  BY <1>5, CallIsBusyNext
<1>7. /\ Good(scopeFile, t, orphans, runState)
      /\ Good(scopeOp.s, t, orphans, runState)
  BY <1>1, <1>2, <1>3, <1>4, InvParts DEF Good, Matches, Lists, InUse
<1>8. Ordered(t) /\ Placed(t, runState)
  BY <1>1, <1>2, <1>3, <1>4, InvParts DEF Hierarchy, Directories, Ordered,
     Placed
<1>9. Hierarchy' /\ Directories' /\ FileInv' /\ CopyInv'
  BY <1>1, <1>2, <1>3, <1>5, <1>7, <1>8, MutateKeeps
<1>10. ScopeTypeOK'
  BY <1>1, <1>3, <1>4, <1>5, InvParts, TypesKept
<1>11. Owned'
  BY <1>1, <1>2, <1>5, InvParts, OwnedKept
<1>12. Stage'
  BY <1>1, <1>2, <1>3, <1>4, <1>5, <1>6 DEF Stage
<1>13. Agree'
  BY <1>1, <1>2, <1>3, <1>4, <1>5, <1>6 DEF Agree
<1>14. Building'
  BY <1>1, <1>2, <1>3, <1>4, <1>5, <1>6 DEF Building
<1>15. Undone'
  BY <1>1, <1>2, <1>3, <1>4, <1>5, <1>6 DEF Undone
<1>16. Unused'
  BY <1>1, <1>2, <1>3, <1>4, <1>5, <1>6 DEF Unused
<1>17. Recorded'
  BY <1>1, <1>3, <1>4, <1>5, <1>6, RecordedKept
<1>18. Refusals'
  BY <1>1, <1>2, <1>3, <1>4, <1>5, <1>6 DEF Refusals
<1> QED
  BY <1>9, <1>10, <1>11, <1>12, <1>13, <1>14, <1>15, <1>16, <1>17, <1>18
    DEF ScopeInv

\* ... and then at the simulator directory.
LEMMA EnableSimulatorKeeps ==
  ASSUME ScopeInv, EnableControllers, At("simOn")
  PROVE  ScopeInv'
<1>1. /\ scopeOp.pc = "simOn"
      /\ UNCHANGED <<scopeFile, runState, runOwner, orphans>>
  BY DEF EnableControllers, At, Runs3, Counts
<1>2. Busy /\ scopeOp \in ScopeCalls
  BY <1>1, InvParts, BusyCall
<1>3. /\ scopeOp.s \in ScopeStates /\ scopeFile = scopeOp.s
      /\ scopeFile # NoScope /\ Good(scopeOp.s, tree, orphans, runState)
      /\ scopeOp.kind = "prepare" /\ runState[scopeOp.run] = "preparing"
      /\ scopeOp.run \in Runs /\ scopeOp.run # NoRun
      /\ ~scopeOp.attempted /\ scopeOp.published
      /\ ~scopeOp.rolling /\ ~scopeOp.made
      /\ scopeOp.s.pending = NoRun /\ ~scopeOp.s.ready
      /\ scopeOp.s.active # {} => orphans # {}
      /\ scopeOp.run \notin tree.runs /\ scopeOp.run \notin scopeOp.s.active
      /\ scopeOp.ctl => scopeOp.sim
      /\ scopeOp.refused => Blamed
      /\ tree.sim /\ scopeOp.s.sim /\ scopeOp.sim
      /\ tree.ctl /\ scopeOp.s.ctl /\ tree.procs = "ctl" /\ tree.rootOn
  BY <1>1, <1>2, InvParts, CallTypes, ScopeIsSome, ScopeAssumption DEF Stage,
     Agree, Building, Undone, Unused, Refusals, CopyInv, Owned
<1> DEFINE t == [tree EXCEPT !.simOn = TRUE]
<1>4. /\ t \in TreeType /\ t.enabled \subseteq t.runs
      /\ SameRuns(tree, t) /\ t.simOn
      /\ (t.found <=> tree.found) /\ (t.sim <=> tree.sim)
      /\ (t.ctl <=> tree.ctl) /\ (t.rootOn <=> tree.rootOn)
      /\ t.procs = tree.procs
  <2>1. tree \in TreeType /\ tree.enabled \subseteq tree.runs
    BY InvParts
  <2> QED
    BY <2>1, TreeSimOn
<1> HIDE DEF t
<1>5. /\ scopeOp' \in ScopeCalls /\ scopeOp'.s = scopeOp.s
      /\ scopeFaults' \in Nat /\ scopeCrashes' \in Nat
      /\ Blamed => Blamed'
      /\ \/ tree' = t /\ Moved(scopeOp, scopeOp', "reserve")
         \/ /\ tree' \in {tree, t} /\ Blamed'
            /\ Moved(scopeOp, scopeOp', "rollback")
  <2>1. Mutate(t, "reserve")
    BY <1>1 DEF EnableControllers, t, At
  <2>2. Handler = "rollback"
    BY <1>3, HandlerSteps
  <2>3. "reserve" \in ScopeSteps
    BY DEF ScopeSteps
  <2> QED
    BY <1>1, <1>2, <2>1, <2>2, <2>3, InvParts, MutateCall DEF Runs3
<1>6. Busy'
  BY <1>5, CallIsBusyNext
<1>7. /\ Good(scopeFile, t, orphans, runState)
      /\ Good(scopeOp.s, t, orphans, runState)
  BY <1>1, <1>2, <1>3, <1>4, InvParts DEF Good, Matches, Lists, InUse
<1>8. Ordered(t) /\ Placed(t, runState)
  BY <1>1, <1>2, <1>3, <1>4, InvParts DEF Hierarchy, Directories, Ordered,
     Placed
<1>9. Hierarchy' /\ Directories' /\ FileInv' /\ CopyInv'
  BY <1>1, <1>2, <1>3, <1>5, <1>7, <1>8, MutateKeeps
<1>10. ScopeTypeOK'
  BY <1>1, <1>3, <1>4, <1>5, InvParts, TypesKept
<1>11. Owned'
  BY <1>1, <1>2, <1>5, InvParts, OwnedKept
<1>12. Stage'
  BY <1>1, <1>2, <1>3, <1>4, <1>5, <1>6 DEF Stage
<1>13. Agree'
  BY <1>1, <1>2, <1>3, <1>4, <1>5, <1>6 DEF Agree
<1>14. Building'
  BY <1>1, <1>2, <1>3, <1>4, <1>5, <1>6 DEF Building
<1>15. Undone'
  BY <1>1, <1>2, <1>3, <1>4, <1>5, <1>6 DEF Undone
<1>16. Unused'
  BY <1>1, <1>2, <1>3, <1>4, <1>5, <1>6 DEF Unused
<1>17. Recorded'
  BY <1>1, <1>3, <1>4, <1>5, <1>6, RecordedKept
<1>18. Refusals'
  BY <1>1, <1>2, <1>3, <1>4, <1>5, <1>6 DEF Refusals
<1> QED
  BY <1>9, <1>10, <1>11, <1>12, <1>13, <1>14, <1>15, <1>16, <1>17, <1>18
    DEF ScopeInv

\* The directory of the run is removed again.
LEMMA RemoveMadeKeeps ==
  ASSUME ScopeInv, RemoveMade
  PROVE  ScopeInv'
<1>1. /\ scopeOp.pc = "rmMade"
      /\ UNCHANGED <<scopeFile, runState, runOwner, orphans>>
  BY DEF RemoveMade, At, Runs3, Counts
<1>2. Busy /\ scopeOp \in ScopeCalls
  BY <1>1, InvParts, BusyCall
<1>3. /\ scopeFile # NoScope /\ Good(scopeFile, tree, orphans, runState)
      /\ scopeOp.s # NoScope /\ Good(scopeOp.s, tree, orphans, runState)
      /\ scopeOp.kind = "prepare" /\ runState[scopeOp.run] = "preparing"
      /\ scopeOp.rolling /\ Blamed
      /\ scopeOp.made => scopeOp.attempted
      /\ scopeOp.attempted => scopeOp.s.pending \in {scopeOp.run, NoRun}
      /\ scopeOp.attempted /\ ~scopeOp.made =>
            scopeOp.run \notin tree.runs \ orphans
      /\ ~scopeOp.attempted =>
            /\ scopeOp.run \notin tree.runs
            /\ scopeOp.run \notin scopeFile.active
            /\ scopeOp.run # scopeFile.pending
            /\ scopeOp.run \notin scopeOp.s.active
            /\ scopeOp.run # scopeOp.s.pending
      /\ scopeOp.ctl => scopeOp.sim
  BY <1>1, <1>2, InvParts, CallTypes, ScopeIsSome DEF Stage, Agree, Building,
     Undone, Unused, Refusals, CopyInv, Owned, FileInv
<1> DEFINE t == [tree EXCEPT !.runs = @ \ {scopeOp.run},
                               !.enabled = @ \ {scopeOp.run}]
<1>4. /\ t \in TreeType /\ t.enabled \subseteq t.runs
      /\ t.runs = tree.runs \ {scopeOp.run}
      /\ t.enabled = tree.enabled \ {scopeOp.run}
      /\ SameDirs(tree, t) /\ SameRoot(tree, t)
  <2> DEFINE rs == tree.runs \ {scopeOp.run}
             es == tree.enabled \ {scopeOp.run}
  <2>1. rs \in SUBSET Runs /\ es \in SUBSET Runs /\ es \subseteq rs
    BY InvParts
  <2>2. t = [tree EXCEPT !.runs = rs, !.enabled = es]
    BY DEF t
  <2> HIDE DEF t, rs, es
  <2>3. t \in TreeType
    BY <2>1, <2>2, InvParts, Zenon DEF TreeType
  <2>4. /\ t.runs = rs /\ t.enabled = es
        /\ SameDirs(tree, t) /\ SameRoot(tree, t)
    BY <2>2, <2>3, InvParts DEF TreeType
  <2> QED
    BY <2>1, <2>3, <2>4 DEF rs, es
<1> HIDE DEF t
<1>5. /\ scopeOp' \in ScopeCalls /\ scopeOp'.s = scopeOp.s
      /\ scopeFaults' \in Nat /\ scopeCrashes' \in Nat
      /\ Blamed => Blamed'
      /\ \/ tree' = t /\ Moved(scopeOp, scopeOp', "wrRolled")
         \/ /\ tree' \in {tree, t} /\ Blamed'
            /\ Moved(scopeOp, scopeOp', "failed")
  <2>1. Mutate(t, "wrRolled")
    BY <1>1 DEF RemoveMade, t, At
  <2>2. Handler = "failed"
    BY <1>3, HandlerSteps
  <2>3. "wrRolled" \in ScopeSteps
    BY DEF ScopeSteps
  <2> QED
    BY <1>1, <1>2, <2>1, <2>2, <2>3, InvParts, MutateCall DEF Runs3
<1>6. Busy'
  BY <1>5, CallIsBusyNext
<1>7. /\ Good(scopeFile, t, orphans, runState)
      /\ Good(scopeOp.s, t, orphans, runState)
  BY <1>3, <1>4, InvParts, GoodWithout
<1>8. Ordered(t) /\ Placed(t, runState)
  BY <1>1, <1>2, <1>3, <1>4, InvParts DEF Hierarchy, Directories, Ordered,
     Placed
<1>9. Hierarchy' /\ Directories' /\ FileInv' /\ CopyInv'
  BY <1>1, <1>2, <1>3, <1>5, <1>7, <1>8, MutateKeeps
<1>10. ScopeTypeOK'
  BY <1>1, <1>3, <1>4, <1>5, InvParts, TypesKept
<1>11. Owned'
  BY <1>1, <1>2, <1>5, InvParts, OwnedKept
<1>12. Stage'
  BY <1>1, <1>2, <1>3, <1>4, <1>5, <1>6 DEF Stage
<1>13. Agree'
  BY <1>1, <1>2, <1>3, <1>4, <1>5, <1>6 DEF Agree
<1>14. Building'
  BY <1>1, <1>2, <1>3, <1>4, <1>5, <1>6 DEF Building
<1>15. Undone'
  BY <1>1, <1>2, <1>3, <1>4, <1>5, <1>6 DEF Undone
<1>16. Unused'
  BY <1>1, <1>2, <1>3, <1>4, <1>5, <1>6 DEF Unused
<1>17. Recorded'
  BY <1>1, <1>3, <1>4, <1>5, <1>6, RecordedKept
<1>18. Refusals'
  BY <1>1, <1>2, <1>3, <1>4, <1>5, <1>6 DEF Refusals
<1> QED
  BY <1>9, <1>10, <1>11, <1>12, <1>13, <1>14, <1>15, <1>16, <1>17, <1>18
    DEF ScopeInv

-----------------------------------------------------------------------------
(* The steps of a removal.                                                 *)

\* The directory of a run that leaves is removed.
LEMMA RemoveRunDirectoryKeeps ==
  ASSUME ScopeInv, RemoveRunDirectory
  PROVE  ScopeInv'
<1>1. /\ scopeOp.pc = "rmRun"
      /\ UNCHANGED <<scopeFile, runState, runOwner, orphans>>
  BY DEF RemoveRunDirectory, At, Runs3, Counts
<1>2. Busy /\ scopeOp \in ScopeCalls
  BY <1>1, InvParts, BusyCall
<1>3. /\ scopeFile # NoScope /\ Good(scopeFile, tree, orphans, runState)
      /\ scopeOp.s \in ScopeStates /\ Good(scopeOp.s, tree, orphans, runState)
      /\ scopeOp.s # NoScope /\ scopeFile = scopeOp.s
      /\ scopeOp.kind \in {"remove", "stale"}
      /\ runState[scopeOp.run] \in {"leaving", "stale"}
      /\ ~scopeOp.attempted /\ ~scopeOp.published
      /\ ~scopeOp.rolling /\ ~scopeOp.made
      /\ scopeOp.ctl => scopeOp.sim
  BY <1>1, <1>2, InvParts, CallTypes, ScopeIsSome DEF Stage, Agree, Building,
     Undone, Unused, Refusals, CopyInv, Owned, FileInv
<1> DEFINE t == [tree EXCEPT !.runs = @ \ {scopeOp.run},
                               !.enabled = @ \ {scopeOp.run}]
<1>4. /\ t \in TreeType /\ t.enabled \subseteq t.runs
      /\ t.runs = tree.runs \ {scopeOp.run}
      /\ t.enabled = tree.enabled \ {scopeOp.run}
      /\ SameDirs(tree, t) /\ SameRoot(tree, t)
  <2> DEFINE rs == tree.runs \ {scopeOp.run}
             es == tree.enabled \ {scopeOp.run}
  <2>1. rs \in SUBSET Runs /\ es \in SUBSET Runs /\ es \subseteq rs
    BY InvParts
  <2>2. t = [tree EXCEPT !.runs = rs, !.enabled = es]
    BY DEF t
  <2> HIDE DEF t, rs, es
  <2>3. t \in TreeType
    BY <2>1, <2>2, InvParts, Zenon DEF TreeType
  <2>4. /\ t.runs = rs /\ t.enabled = es
        /\ SameDirs(tree, t) /\ SameRoot(tree, t)
    BY <2>2, <2>3, InvParts DEF TreeType
  <2> QED
    BY <2>1, <2>3, <2>4 DEF rs, es
<1> HIDE DEF t
<1>5. /\ scopeOp' \in ScopeCalls /\ scopeOp'.s = scopeOp.s
      /\ scopeFaults' \in Nat /\ scopeCrashes' \in Nat
      /\ Blamed => Blamed'
      /\ \/ tree' = t /\ Moved(scopeOp, scopeOp', "wrRemoved")
         \/ /\ tree' \in {tree, t} /\ Blamed'
            /\ Moved(scopeOp, scopeOp', "failed")
  <2>1. Mutate(t, "wrRemoved")
    BY <1>1 DEF RemoveRunDirectory, t, At
  <2>2. Handler = "failed"
    BY <1>3, HandlerSteps
  <2>3. "wrRemoved" \in ScopeSteps
    BY DEF ScopeSteps
  <2> QED
    BY <1>1, <1>2, <2>1, <2>2, <2>3, InvParts, MutateCall DEF Runs3
<1>6. Busy'
  BY <1>5, CallIsBusyNext
<1>7. /\ Good(scopeFile, t, orphans, runState)
      /\ Good(scopeOp.s, t, orphans, runState)
  BY <1>3, <1>4, InvParts, GoodWithout
<1>8. Ordered(t) /\ Placed(t, runState)
  BY <1>1, <1>2, <1>3, <1>4, InvParts DEF Hierarchy, Directories, Ordered,
     Placed
<1>9. Hierarchy' /\ Directories' /\ FileInv' /\ CopyInv'
  BY <1>1, <1>2, <1>3, <1>5, <1>7, <1>8, MutateKeeps
<1>10. ScopeTypeOK'
  BY <1>1, <1>3, <1>4, <1>5, InvParts, TypesKept
<1>11. Owned'
  BY <1>1, <1>2, <1>5, InvParts, OwnedKept
<1>12. Stage'
  BY <1>1, <1>2, <1>3, <1>4, <1>5, <1>6 DEF Stage
<1>13. Agree'
  BY <1>1, <1>2, <1>3, <1>4, <1>5, <1>6 DEF Agree
<1>14. Building'
  BY <1>1, <1>2, <1>3, <1>4, <1>5, <1>6 DEF Building
<1>15. Undone'
  BY <1>1, <1>2, <1>3, <1>4, <1>5, <1>6 DEF Undone
<1>16. Unused'
  BY <1>1, <1>2, <1>3, <1>4, <1>5, <1>6 DEF Unused
<1>17. Recorded'
  BY <1>1, <1>3, <1>4, <1>5, <1>6, RecordedKept
<1>18. Refusals'
  BY <1>1, <1>2, <1>3, <1>4, <1>5, <1>6 DEF Refusals
<1> QED
  BY <1>9, <1>10, <1>11, <1>12, <1>13, <1>14, <1>15, <1>16, <1>17, <1>18
    DEF ScopeInv

-----------------------------------------------------------------------------
(* The steps of the restoration.                                           *)

\* The controllers are switched off at the simulator directory...
LEMMA DisableSimulatorKeeps ==
  ASSUME ScopeInv, DisableControllers, At("simOff")
  PROVE  ScopeInv'
<1>1. /\ scopeOp.pc = "simOff"
      /\ UNCHANGED <<scopeFile, runState, runOwner, orphans>>
  BY DEF DisableControllers, At, Runs3, Counts
<1>2. Busy /\ scopeOp \in ScopeCalls
  BY <1>1, InvParts, BusyCall
<1>3. /\ scopeOp.s \in ScopeStates /\ scopeFile = scopeOp.s
      /\ scopeFile # NoScope /\ Good(scopeOp.s, tree, orphans, runState)
      /\ scopeOp.s.active = {} /\ scopeOp.s.pending = NoRun
      /\ \/ scopeOp.then = "ok" /\ scopeOp.kind # "prepare"
         \/ /\ scopeOp.then = "new" /\ scopeOp.kind = "prepare"
            /\ ~scopeOp.attempted /\ ~scopeOp.published /\ ~scopeOp.rolling
         \/ scopeOp.then = "failed" /\ scopeOp.rolling
      /\ scopeOp.kind # "prepare" =>
            ~scopeOp.attempted /\ ~scopeOp.published /\ ~scopeOp.rolling
      /\ scopeOp.made => scopeOp.attempted
      /\ scopeOp.attempted /\ ~scopeOp.made =>
            scopeOp.run \notin tree.runs \ orphans
      /\ scopeOp.kind = "prepare" /\ ~scopeOp.attempted =>
            /\ scopeOp.run \notin tree.runs
            /\ scopeOp.run \notin scopeOp.s.active
            /\ scopeOp.run # scopeOp.s.pending
      /\ scopeOp.kind = "prepare" /\ (scopeOp.refused \/ scopeOp.rolling) =>
            Blamed
      /\ scopeOp.ctl => scopeOp.sim
      /\ ~scopeOp.s.ready
      /\ (scopeOp.sim <=> tree.sim) /\ (scopeOp.ctl <=> tree.ctl)
      /\ (tree.sim => scopeOp.s.sim) /\ (tree.ctl => scopeOp.s.ctl)
      /\ (tree.simOn => tree.sim) /\ (~tree.ctl => tree.procs = "root")
  BY <1>1, <1>2, InvParts, CallTypes, ScopeIsSome, ScopeAssumption DEF Stage,
     Agree, Building, Undone, Unused, Refusals, CopyInv, Owned, Hierarchy,
     Ordered, TreeType
<1> DEFINE t == [tree EXCEPT !.simOn = FALSE]
<1>4. /\ t \in TreeType /\ t.enabled \subseteq t.runs
      /\ SameRuns(tree, t) /\ ~t.simOn
      /\ (t.found <=> tree.found) /\ (t.sim <=> tree.sim)
      /\ (t.ctl <=> tree.ctl) /\ (t.rootOn <=> tree.rootOn)
      /\ t.procs = tree.procs
  <2>1. tree \in TreeType /\ tree.enabled \subseteq tree.runs
    BY InvParts
  <2> QED
    BY <2>1, TreeSimOn
<1> HIDE DEF t
<1>5. /\ scopeOp' \in ScopeCalls /\ scopeOp'.s = scopeOp.s
      /\ scopeFaults' \in Nat /\ scopeCrashes' \in Nat
      /\ Blamed => Blamed'
      /\ \/ tree' = t /\ Moved(scopeOp, scopeOp', "rootOff")
         \/ tree' = tree /\ ~scopeOp.sim /\ Moved(scopeOp, scopeOp', "rootOff")
         \/ /\ tree' \in {tree, t} /\ Blamed'
            /\ Moved(scopeOp, scopeOp', "failed")
  <2>1. /\ Handler = "failed" /\ "rootOff" \in ScopeSteps
    BY <1>3, HandlerSteps DEF ScopeSteps
  <2>2. CASE scopeOp.sim
    <3>1. Mutate(t, "rootOff")
      BY <1>1, <2>2 DEF DisableControllers, t, At
    <3> QED
      BY <1>1, <1>2, <2>1, <3>1, InvParts, MutateCall DEF Runs3
  <2>3. CASE ~scopeOp.sim
    <3>1. Goto("rootOff") /\ UNCHANGED <<tree, Counts>>
      BY <1>1, <2>3 DEF DisableControllers, At
    <3> QED
      BY <1>1, <1>2, <2>1, <2>3, <3>1, InvParts, GotoCall, SameCounts
  <2> QED
    BY <2>2, <2>3
<1>6. Busy'
  BY <1>5, CallIsBusyNext
<1>7. /\ Good(scopeFile, t, orphans, runState)
      /\ Good(scopeOp.s, t, orphans, runState)
  BY <1>1, <1>3, <1>4, GoodShared DEF Good, Matches
<1>8. Ordered(t) /\ Placed(t, runState)
  BY <1>1, <1>3, <1>4, InvParts DEF Hierarchy, Directories, Ordered, Placed,
     Good, Lists
<1>9. Hierarchy' /\ Directories' /\ FileInv' /\ CopyInv'
  BY <1>1, <1>2, <1>3, <1>5, <1>7, <1>8, MutateKeeps
<1>10. ScopeTypeOK'
  BY <1>1, <1>3, <1>4, <1>5, InvParts, TypesKept
<1>11. Owned'
  BY <1>1, <1>2, <1>5, InvParts, OwnedKept
<1>12. Stage'
  BY <1>1, <1>2, <1>3, <1>4, <1>5, <1>6 DEF Stage
<1>13. Agree'
  BY <1>1, <1>2, <1>3, <1>4, <1>5, <1>6 DEF Agree
<1>14. Building'
  BY <1>1, <1>2, <1>3, <1>4, <1>5, <1>6 DEF Building
<1>15. Undone'
  BY <1>1, <1>2, <1>3, <1>4, <1>5, <1>6 DEF Undone
<1>16. Unused'
  BY <1>1, <1>2, <1>3, <1>4, <1>5, <1>6 DEF Unused
<1>17. Recorded'
  BY <1>1, <1>3, <1>4, <1>5, <1>6, RecordedKept
<1>18. Refusals'
  BY <1>1, <1>2, <1>3, <1>4, <1>5, <1>6 DEF Refusals
<1> QED
  BY <1>9, <1>10, <1>11, <1>12, <1>13, <1>14, <1>15, <1>16, <1>17, <1>18
    DEF ScopeInv

\* ... and then at the root.
LEMMA DisableRootKeeps ==
  ASSUME ScopeInv, DisableControllers, At("rootOff")
  PROVE  ScopeInv'
<1>1. /\ scopeOp.pc = "rootOff"
      /\ UNCHANGED <<scopeFile, runState, runOwner, orphans>>
  BY DEF DisableControllers, At, Runs3, Counts
<1>2. Busy /\ scopeOp \in ScopeCalls
  BY <1>1, InvParts, BusyCall
<1>3. /\ scopeOp.s \in ScopeStates /\ scopeFile = scopeOp.s
      /\ scopeFile # NoScope /\ Good(scopeOp.s, tree, orphans, runState)
      /\ scopeOp.s.active = {} /\ scopeOp.s.pending = NoRun
      /\ \/ scopeOp.then = "ok" /\ scopeOp.kind # "prepare"
         \/ /\ scopeOp.then = "new" /\ scopeOp.kind = "prepare"
            /\ ~scopeOp.attempted /\ ~scopeOp.published /\ ~scopeOp.rolling
         \/ scopeOp.then = "failed" /\ scopeOp.rolling
      /\ scopeOp.kind # "prepare" =>
            ~scopeOp.attempted /\ ~scopeOp.published /\ ~scopeOp.rolling
      /\ scopeOp.made => scopeOp.attempted
      /\ scopeOp.attempted /\ ~scopeOp.made =>
            scopeOp.run \notin tree.runs \ orphans
      /\ scopeOp.kind = "prepare" /\ ~scopeOp.attempted =>
            /\ scopeOp.run \notin tree.runs
            /\ scopeOp.run \notin scopeOp.s.active
            /\ scopeOp.run # scopeOp.s.pending
      /\ scopeOp.kind = "prepare" /\ (scopeOp.refused \/ scopeOp.rolling) =>
            Blamed
      /\ scopeOp.ctl => scopeOp.sim
      /\ ~scopeOp.s.ready
      /\ (scopeOp.sim <=> tree.sim) /\ (scopeOp.ctl <=> tree.ctl)
      /\ (tree.sim => scopeOp.s.sim) /\ (tree.ctl => scopeOp.s.ctl)
      /\ (tree.simOn => tree.sim) /\ (~tree.ctl => tree.procs = "root")
      /\ ~tree.simOn
  BY <1>1, <1>2, InvParts, CallTypes, ScopeIsSome, ScopeAssumption DEF Stage,
     Agree, Building, Undone, Unused, Refusals, CopyInv, Owned, Hierarchy,
     Ordered, TreeType
<1> DEFINE t == [tree EXCEPT !.rootOn = FALSE]
<1>4. /\ t \in TreeType /\ t.enabled \subseteq t.runs
      /\ SameRuns(tree, t) /\ ~t.rootOn
      /\ (t.found <=> tree.found) /\ (t.sim <=> tree.sim)
      /\ (t.ctl <=> tree.ctl) /\ (t.simOn <=> tree.simOn)
      /\ t.procs = tree.procs
  <2>1. tree \in TreeType /\ tree.enabled \subseteq tree.runs
    BY InvParts
  <2> QED
    BY <2>1, TreeRootOn
<1> HIDE DEF t
<1>5. /\ scopeOp' \in ScopeCalls /\ scopeOp'.s = scopeOp.s
      /\ scopeFaults' \in Nat /\ scopeCrashes' \in Nat
      /\ Blamed => Blamed'
      /\ \/ tree' = t /\ Moved(scopeOp, scopeOp', "moveOut")
         \/ /\ tree' \in {tree, t} /\ Blamed'
            /\ Moved(scopeOp, scopeOp', "failed")
  <2>1. Mutate(t, "moveOut")
    BY <1>1 DEF DisableControllers, t, At
  <2>2. Handler = "failed"
    BY <1>3, HandlerSteps
  <2>3. "moveOut" \in ScopeSteps
    BY DEF ScopeSteps
  <2> QED
    BY <1>1, <1>2, <2>1, <2>2, <2>3, InvParts, MutateCall DEF Runs3
<1>6. Busy'
  BY <1>5, CallIsBusyNext
<1>7. /\ Good(scopeFile, t, orphans, runState)
      /\ Good(scopeOp.s, t, orphans, runState)
  BY <1>1, <1>3, <1>4, GoodShared DEF Good, Matches
<1>8. Ordered(t) /\ Placed(t, runState)
  BY <1>1, <1>3, <1>4, InvParts DEF Hierarchy, Directories, Ordered, Placed,
     Good, Lists
<1>9. Hierarchy' /\ Directories' /\ FileInv' /\ CopyInv'
  BY <1>1, <1>2, <1>3, <1>5, <1>7, <1>8, MutateKeeps
<1>10. ScopeTypeOK'
  BY <1>1, <1>3, <1>4, <1>5, InvParts, TypesKept
<1>11. Owned'
  BY <1>1, <1>2, <1>5, InvParts, OwnedKept
<1>12. Stage'
  BY <1>1, <1>2, <1>3, <1>4, <1>5, <1>6 DEF Stage
<1>13. Agree'
  BY <1>1, <1>2, <1>3, <1>4, <1>5, <1>6 DEF Agree
<1>14. Building'
  BY <1>1, <1>2, <1>3, <1>4, <1>5, <1>6 DEF Building
<1>15. Undone'
  BY <1>1, <1>2, <1>3, <1>4, <1>5, <1>6 DEF Undone
<1>16. Unused'
  BY <1>1, <1>2, <1>3, <1>4, <1>5, <1>6 DEF Unused
<1>17. Recorded'
  BY <1>1, <1>3, <1>4, <1>5, <1>6, RecordedKept
<1>18. Refusals'
  BY <1>1, <1>2, <1>3, <1>4, <1>5, <1>6 DEF Refusals
<1> QED
  BY <1>9, <1>10, <1>11, <1>12, <1>13, <1>14, <1>15, <1>16, <1>17, <1>18
    DEF ScopeInv

\* The processes go back to the root.
LEMMA MoveProcessesBackKeeps ==
  ASSUME ScopeInv, MoveProcessesBack
  PROVE  ScopeInv'
<1>1. /\ scopeOp.pc = "moveOut"
      /\ UNCHANGED <<scopeFile, runState, runOwner, orphans>>
  BY DEF MoveProcessesBack, At, Runs3, Counts
<1>2. Busy /\ scopeOp \in ScopeCalls
  BY <1>1, InvParts, BusyCall
<1>3. /\ scopeOp.s \in ScopeStates /\ scopeFile = scopeOp.s
      /\ scopeFile # NoScope /\ Good(scopeOp.s, tree, orphans, runState)
      /\ scopeOp.s.active = {} /\ scopeOp.s.pending = NoRun
      /\ \/ scopeOp.then = "ok" /\ scopeOp.kind # "prepare"
         \/ /\ scopeOp.then = "new" /\ scopeOp.kind = "prepare"
            /\ ~scopeOp.attempted /\ ~scopeOp.published /\ ~scopeOp.rolling
         \/ scopeOp.then = "failed" /\ scopeOp.rolling
      /\ scopeOp.kind # "prepare" =>
            ~scopeOp.attempted /\ ~scopeOp.published /\ ~scopeOp.rolling
      /\ scopeOp.made => scopeOp.attempted
      /\ scopeOp.attempted /\ ~scopeOp.made =>
            scopeOp.run \notin tree.runs \ orphans
      /\ scopeOp.kind = "prepare" /\ ~scopeOp.attempted =>
            /\ scopeOp.run \notin tree.runs
            /\ scopeOp.run \notin scopeOp.s.active
            /\ scopeOp.run # scopeOp.s.pending
      /\ scopeOp.kind = "prepare" /\ (scopeOp.refused \/ scopeOp.rolling) =>
            Blamed
      /\ scopeOp.ctl => scopeOp.sim
      /\ ~scopeOp.s.ready
      /\ (scopeOp.sim <=> tree.sim) /\ (scopeOp.ctl <=> tree.ctl)
      /\ (tree.sim => scopeOp.s.sim) /\ (tree.ctl => scopeOp.s.ctl)
      /\ (tree.simOn => tree.sim) /\ (~tree.ctl => tree.procs = "root")
      /\ ~tree.simOn /\ ~tree.rootOn
  BY <1>1, <1>2, InvParts, CallTypes, ScopeIsSome, ScopeAssumption DEF Stage,
     Agree, Building, Undone, Unused, Refusals, CopyInv, Owned, Hierarchy,
     Ordered, TreeType
<1> DEFINE t == [tree EXCEPT !.procs = "root"]
<1>4. /\ t \in TreeType /\ t.enabled \subseteq t.runs
      /\ SameRuns(tree, t) /\ SameDirs(tree, t) /\ t.procs = "root"
      /\ (t.rootOn <=> tree.rootOn) /\ (t.simOn <=> tree.simOn)
  <2>1. tree \in TreeType /\ tree.enabled \subseteq tree.runs
    BY InvParts
  <2> QED
    BY <2>1, TreeProcs
<1> HIDE DEF t
<1>5. /\ scopeOp' \in ScopeCalls /\ scopeOp'.s = scopeOp.s
      /\ scopeFaults' \in Nat /\ scopeCrashes' \in Nat
      /\ Blamed => Blamed'
      /\ \/ tree' = t /\ Moved(scopeOp, scopeOp', "verify")
         \/ tree' = tree /\ ~scopeOp.ctl /\ Moved(scopeOp, scopeOp', "verify")
         \/ /\ tree' \in {tree, t} /\ Blamed'
            /\ Moved(scopeOp, scopeOp', "failed")
  <2>1. /\ Handler = "failed" /\ "verify" \in ScopeSteps
    BY <1>3, HandlerSteps DEF ScopeSteps
  <2>2. CASE scopeOp.ctl
    <3>1. Mutate(t, "verify")
      BY <1>1, <2>2 DEF MoveProcessesBack, t, At
    <3> QED
      BY <1>1, <1>2, <2>1, <3>1, InvParts, MutateCall DEF Runs3
  <2>3. CASE ~scopeOp.ctl
    <3>1. Goto("verify") /\ UNCHANGED <<tree, Counts>>
      BY <1>1, <2>3 DEF MoveProcessesBack, At
    <3> QED
      BY <1>1, <1>2, <2>1, <2>3, <3>1, InvParts, GotoCall, SameCounts
  <2> QED
    BY <2>2, <2>3
<1>6. Busy'
  BY <1>5, CallIsBusyNext
<1>7. /\ Good(scopeFile, t, orphans, runState)
      /\ Good(scopeOp.s, t, orphans, runState)
  BY <1>1, <1>3, <1>4, GoodShared DEF Good, Matches
<1>8. Ordered(t) /\ Placed(t, runState)
  BY <1>1, <1>3, <1>4, InvParts DEF Hierarchy, Directories, Ordered, Placed,
     Good, Lists
<1>9. Hierarchy' /\ Directories' /\ FileInv' /\ CopyInv'
  BY <1>1, <1>2, <1>3, <1>5, <1>7, <1>8, MutateKeeps
<1>10. ScopeTypeOK'
  BY <1>1, <1>3, <1>4, <1>5, InvParts, TypesKept
<1>11. Owned'
  BY <1>1, <1>2, <1>5, InvParts, OwnedKept
<1>12. Stage'
  BY <1>1, <1>2, <1>3, <1>4, <1>5, <1>6 DEF Stage
<1>13. Agree'
  BY <1>1, <1>2, <1>3, <1>4, <1>5, <1>6 DEF Agree
<1>14. Building'
  BY <1>1, <1>2, <1>3, <1>4, <1>5, <1>6 DEF Building
<1>15. Undone'
  BY <1>1, <1>2, <1>3, <1>4, <1>5, <1>6 DEF Undone
<1>16. Unused'
  BY <1>1, <1>2, <1>3, <1>4, <1>5, <1>6 DEF Unused
<1>17. Recorded'
  BY <1>1, <1>3, <1>4, <1>5, <1>6, RecordedKept
<1>18. Refusals'
  BY <1>1, <1>2, <1>3, <1>4, <1>5, <1>6 DEF Refusals
<1> QED
  BY <1>9, <1>10, <1>11, <1>12, <1>13, <1>14, <1>15, <1>16, <1>17, <1>18
    DEF ScopeInv

\* The file notes that only directories are left, unless a check refuses.
LEMMA MarkRestorableKeeps ==
  ASSUME ScopeInv, MarkRestorable
  PROVE  ScopeInv'
<1>1. /\ scopeOp.pc = "verify"
      /\ UNCHANGED <<tree, runState, runOwner, orphans>>
  BY DEF MarkRestorable, At, Runs3, Counts
<1>2. Busy /\ scopeOp \in ScopeCalls
  BY <1>1, InvParts, BusyCall
<1>3. /\ scopeOp.s \in ScopeStates /\ scopeFile = scopeOp.s
      /\ scopeFile # NoScope /\ Good(scopeOp.s, tree, orphans, runState)
      /\ scopeOp.s.active = {} /\ scopeOp.s.pending = NoRun
      /\ \/ scopeOp.then = "ok" /\ scopeOp.kind # "prepare"
         \/ /\ scopeOp.then = "new" /\ scopeOp.kind = "prepare"
            /\ ~scopeOp.attempted /\ ~scopeOp.published /\ ~scopeOp.rolling
         \/ scopeOp.then = "failed" /\ scopeOp.rolling
      /\ scopeOp.kind # "prepare" =>
            ~scopeOp.attempted /\ ~scopeOp.published /\ ~scopeOp.rolling
      /\ scopeOp.made => scopeOp.attempted
      /\ scopeOp.attempted /\ ~scopeOp.made =>
            scopeOp.run \notin tree.runs \ orphans
      /\ scopeOp.kind = "prepare" /\ ~scopeOp.attempted =>
            /\ scopeOp.run \notin tree.runs
            /\ scopeOp.run \notin scopeOp.s.active
            /\ scopeOp.run # scopeOp.s.pending
      /\ scopeOp.kind = "prepare" /\ (scopeOp.refused \/ scopeOp.rolling) =>
            Blamed
      /\ scopeOp.ctl => scopeOp.sim
      /\ ~scopeOp.s.ready
      /\ (scopeOp.sim <=> tree.sim) /\ (scopeOp.ctl <=> tree.ctl)
      /\ (tree.sim => scopeOp.s.sim) /\ (tree.ctl => scopeOp.s.ctl)
      /\ (tree.simOn => tree.sim) /\ (~tree.ctl => tree.procs = "root")
      /\ ~tree.simOn /\ ~tree.rootOn /\ tree.procs = "root"
  BY <1>1, <1>2, InvParts, CallTypes, ScopeIsSome, ScopeAssumption DEF Stage,
     Agree, Building, Undone, Unused, Refusals, CopyInv, Owned, Hierarchy,
     Ordered, TreeType
<1> DEFINE s == [scopeOp.s EXCEPT !.ready = TRUE]
<1>4. /\ s \in ScopeStates /\ s # NoScope
      /\ SameList(scopeOp.s, s) /\ s.ready
      /\ (s.pre <=> scopeOp.s.pre) /\ (s.sim <=> scopeOp.s.sim)
      /\ (s.ctl <=> scopeOp.s.ctl)
  <2>1. TRUE \in BOOLEAN
    BY <1>3 DEF ScopeStates
  <2>2. s = [scopeOp.s EXCEPT !.ready = TRUE]
    BY DEF s
  <2> HIDE DEF s
  <2>3. s \in ScopeStates
    BY <1>3, <2>1, <2>2, Zenon DEF ScopeStates
  <2> QED
    BY <1>3, <2>2, <2>3, ScopeIsSome DEF ScopeStates
<1> HIDE DEF s
<1>5. /\ scopeOp' \in ScopeCalls /\ SameCall(scopeOp, scopeOp')
      /\ SameFlags(scopeOp, scopeOp') /\ SameHold(scopeOp, scopeOp')
      /\ scopeOp'.then = scopeOp.then
      /\ scopeFaults' \in Nat /\ scopeCrashes' \in Nat
      /\ Blamed => Blamed'
      /\ \/ /\ scopeFile' = scopeFile /\ scopeOp'.s = scopeOp.s
            /\ scopeOp'.pc = "failed" /\ (scopeOp.kind = "prepare" => Blamed')
         \/ /\ scopeFile' = s /\ scopeOp'.s = s /\ scopeOp'.pc = "rmCtl"
            /\ (scopeOp'.refused <=> scopeOp.refused)
         \/ /\ scopeFile' \in {scopeFile, s} /\ scopeOp'.s = s /\ Blamed'
            /\ scopeOp'.pc = "failed"
  <2>1. Handler = "failed" /\ "rmCtl" \in ScopeSteps
    BY <1>3, HandlerSteps DEF ScopeSteps
  <2>2. CASE RefuseScope /\ UNCHANGED <<scopeFile, Counts>>
             /\ (tree.runs # {} \/ ~HierarchyOk(scopeOp.s))
    <3>1. scopeOp.sim = tree.sim /\ scopeOp.ctl = tree.ctl
      BY <1>2, <1>3, InvParts DEF ScopeCalls, TreeType
    <3>2. HierarchyOk(scopeOp.s)
      BY <1>3, <3>1 DEF HierarchyOk
    <3>3. tree.runs \subseteq orphans
      BY <1>3, InvParts, ScopeAssumption DEF Good, Lists
    <3>4. Blamed
      BY <2>2, <3>2, <3>3 DEF Blamed
    <3> QED
      BY <1>1, <1>2, <2>1, <2>2, <3>4, InvParts, RefuseCall, SameCounts
  <2>3. CASE WriteScope(s, "rmCtl")
    <3>1. /\ scopeOp' \in ScopeCalls /\ scopeOp'.s = s
          /\ scopeFaults' \in Nat /\ scopeCrashes' \in Nat
          /\ Blamed => Blamed'
          /\ \/ scopeFile' = s /\ Moved(scopeOp, scopeOp', "rmCtl")
             \/ /\ scopeFile' \in {scopeFile, s} /\ Blamed'
                /\ Moved(scopeOp, scopeOp', "failed")
      BY <1>1, <1>2, <1>4, <2>1, <2>3, InvParts, WriteCall DEF Runs3
    <3> QED
      BY <3>1
  <2> QED
    BY <1>3, <2>2, <2>3 DEF MarkRestorable, s
<1>6. Busy'
  BY <1>5, CallIsBusyNext
<1>7. Good(s, tree, orphans, runState)
  BY <1>1, <1>2, <1>3, <1>4, InvParts, ScopeAssumption, ScopeTypes DEF Good,
     Consistent, Matches, Lists, InUse
<1>8. Hierarchy' /\ Directories' /\ FileInv' /\ CopyInv'
  <2>1. CASE scopeFile' = scopeFile /\ scopeOp'.s = scopeOp.s
    BY <1>1, <1>2, <2>1, StayKeeps
  <2>2. CASE scopeFile' \in {scopeFile, s} /\ scopeOp'.s = s
    BY <1>1, <1>4, <1>7, <2>2, WriteKeeps
  <2> QED
    BY <1>5, <2>1, <2>2
<1>9. ScopeTypeOK'
  BY <1>1, <1>3, <1>4, <1>5, InvParts, TypesKept
<1>10. Owned'
  BY <1>1, <1>2, <1>5, InvParts, OwnedKept
<1>11. Stage'
  BY <1>1, <1>2, <1>3, <1>4, <1>5, <1>6, <1>7 DEF Stage
<1>12. Agree'
  BY <1>1, <1>2, <1>3, <1>4, <1>5, <1>6, <1>7 DEF Agree
<1>13. Building'
  BY <1>1, <1>2, <1>3, <1>4, <1>5, <1>6, <1>7 DEF Building
<1>14. Undone'
  BY <1>1, <1>2, <1>3, <1>4, <1>5, <1>6, <1>7 DEF Undone
<1>15. Unused'
  BY <1>1, <1>2, <1>3, <1>4, <1>5, <1>6, <1>7 DEF Unused
<1>16. Recorded'
  BY <1>5, <1>6, RecordedKept
<1>17. Refusals'
  BY <1>1, <1>2, <1>3, <1>4, <1>5, <1>6, <1>7 DEF Refusals
<1> QED
  BY <1>8, <1>9, <1>10, <1>11, <1>12, <1>13, <1>14, <1>15, <1>16, <1>17
    DEF ScopeInv

\* The controller directory is removed...
LEMMA RemoveControllerKeeps ==
  ASSUME ScopeInv, RemoveScopeDirectories, At("rmCtl")
  PROVE  ScopeInv'
<1>1. /\ scopeOp.pc = "rmCtl"
      /\ UNCHANGED <<scopeFile, runState, runOwner, orphans>>
  BY DEF RemoveScopeDirectories, At, Runs3, Counts
<1>2. Busy /\ scopeOp \in ScopeCalls
  BY <1>1, InvParts, BusyCall
<1>3. /\ scopeOp.s \in ScopeStates /\ scopeFile = scopeOp.s
      /\ scopeFile # NoScope /\ Good(scopeOp.s, tree, orphans, runState)
      /\ scopeOp.s.active = {} /\ scopeOp.s.pending = NoRun
      /\ \/ scopeOp.then = "ok" /\ scopeOp.kind # "prepare"
         \/ /\ scopeOp.then = "new" /\ scopeOp.kind = "prepare"
            /\ ~scopeOp.attempted /\ ~scopeOp.published /\ ~scopeOp.rolling
         \/ scopeOp.then = "failed" /\ scopeOp.rolling
      /\ scopeOp.kind # "prepare" =>
            ~scopeOp.attempted /\ ~scopeOp.published /\ ~scopeOp.rolling
      /\ scopeOp.made => scopeOp.attempted
      /\ scopeOp.attempted /\ ~scopeOp.made =>
            scopeOp.run \notin tree.runs \ orphans
      /\ scopeOp.kind = "prepare" /\ ~scopeOp.attempted =>
            /\ scopeOp.run \notin tree.runs
            /\ scopeOp.run \notin scopeOp.s.active
            /\ scopeOp.run # scopeOp.s.pending
      /\ scopeOp.kind = "prepare" /\ (scopeOp.refused \/ scopeOp.rolling) =>
            Blamed
      /\ scopeOp.ctl => scopeOp.sim
      /\ scopeOp.s.ready /\ ~tree.simOn /\ ~tree.rootOn /\ tree.procs = "root"
      /\ (scopeOp.s.pre <=> tree.found) /\ (scopeOp.s.pre => tree.sim)
      /\ (scopeOp.sim <=> tree.sim)
      /\ (scopeOp.ctl <=> tree.ctl)
  BY <1>1, <1>2, InvParts, CallTypes, ScopeIsSome, ScopeAssumption DEF Stage,
     Agree, Building, Undone, Unused, Refusals, CopyInv, Owned, Good, Matches
<1> DEFINE t == [tree EXCEPT !.ctl = FALSE]
<1>4. /\ t \in TreeType /\ t.enabled \subseteq t.runs
      /\ SameRuns(tree, t) /\ ~t.ctl
      /\ (t.found <=> tree.found) /\ (t.sim <=> tree.sim)
      /\ (t.rootOn <=> tree.rootOn) /\ (t.simOn <=> tree.simOn)
      /\ t.procs = tree.procs
  <2>1. tree \in TreeType /\ tree.enabled \subseteq tree.runs
    BY InvParts
  <2> QED
    BY <2>1, TreeCtl
<1> HIDE DEF t
<1>5. /\ scopeOp' \in ScopeCalls /\ scopeOp'.s = scopeOp.s
      /\ scopeFaults' \in Nat /\ scopeCrashes' \in Nat
      /\ Blamed => Blamed'
      /\ SameCall(scopeOp, scopeOp') /\ SameFlags(scopeOp, scopeOp')
      /\ (scopeOp'.sim <=> scopeOp.sim) /\ scopeOp'.then = scopeOp.then
      /\ (scopeOp'.refused <=> scopeOp.refused)
      /\ \/ /\ tree' = IF scopeOp.ctl THEN t ELSE tree
            /\ ~scopeOp'.ctl /\ scopeOp'.pc = "rmSim"
         \/ /\ tree' \in {tree, t} /\ Blamed' /\ scopeOp'.pc = "failed"
            /\ (scopeOp'.ctl <=> scopeOp.ctl)
  <2>1. /\ Handler = "failed" /\ "rmSim" \in ScopeSteps
        /\ "failed" \in ScopeSteps
    BY <1>3, HandlerSteps DEF ScopeSteps
  <2>2. \/ /\ tree' = IF scopeOp.ctl THEN t ELSE tree
           /\ scopeOp' = [scopeOp EXCEPT !.ctl = FALSE, !.pc = "rmSim"]
           /\ UNCHANGED Counts
        \/ Throw /\ Goto(Handler) /\ tree' \in {tree, t}
    BY <1>1 DEF RemoveScopeDirectories, At, t
  <2>3. CASE /\ tree' = IF scopeOp.ctl THEN t ELSE tree
             /\ scopeOp' = [scopeOp EXCEPT !.ctl = FALSE, !.pc = "rmSim"]
             /\ UNCHANGED Counts
    <3>1. scopeOp' \in ScopeCalls
      BY <1>2, <2>1, <2>3, Zenon DEF ScopeCalls
    <3>2. /\ scopeOp'.s = scopeOp.s /\ ~scopeOp'.ctl /\ scopeOp'.pc = "rmSim"
          /\ SameCall(scopeOp, scopeOp') /\ SameFlags(scopeOp, scopeOp')
          /\ (scopeOp'.sim <=> scopeOp.sim) /\ scopeOp'.then = scopeOp.then
          /\ (scopeOp'.refused <=> scopeOp.refused)
      BY <1>2, <2>3, <3>1 DEF ScopeCalls
    <3> QED
      BY <1>1, <2>3, <3>1, <3>2, InvParts, SameCounts
  <2>4. CASE Throw /\ Goto(Handler) /\ tree' \in {tree, t}
    <3>1. /\ scopeOp' \in ScopeCalls /\ scopeOp'.s = scopeOp.s
          /\ Moved(scopeOp, scopeOp', "failed")
      BY <1>2, <2>1, <2>4, GotoCall
    <3>2. scopeFaults' \in Nat /\ scopeCrashes' \in Nat /\ Blamed'
      BY <2>4, InvParts, ThrowCounts
    <3> QED
      BY <2>4, <3>1, <3>2
  <2> QED
    BY <2>2, <2>3, <2>4
<1>6. Busy'
  BY <1>5, CallIsBusyNext
<1>7. /\ Good(scopeFile, t, orphans, runState)
      /\ Good(scopeOp.s, t, orphans, runState)
  BY <1>1, <1>3, <1>4, GoodShared DEF Good, Matches
<1>8. Ordered(t) /\ Placed(t, runState)
  BY <1>1, <1>3, <1>4, InvParts DEF Hierarchy, Directories, Ordered, Placed,
     Good, Lists
<1>9. Hierarchy' /\ Directories' /\ FileInv' /\ CopyInv'
  BY <1>1, <1>2, <1>3, <1>5, <1>7, <1>8, MutateKeeps
<1>10. ScopeTypeOK'
  BY <1>1, <1>3, <1>4, <1>5, InvParts, TypesKept
<1>11. Owned'
  BY <1>1, <1>2, <1>5, InvParts, OwnedKept
<1>12. Stage'
  BY <1>1, <1>2, <1>3, <1>4, <1>5, <1>6 DEF Stage
<1>13. Agree'
  BY <1>1, <1>2, <1>3, <1>4, <1>5, <1>6 DEF Agree
<1>14. Building'
  BY <1>1, <1>2, <1>3, <1>4, <1>5, <1>6 DEF Building
<1>15. Undone'
  BY <1>1, <1>2, <1>3, <1>4, <1>5, <1>6 DEF Undone
<1>16. Unused'
  BY <1>1, <1>2, <1>3, <1>4, <1>5, <1>6 DEF Unused
<1>17. Recorded'
  BY <1>5, <1>6, RecordedKept
<1>18. Refusals'
  BY <1>1, <1>2, <1>3, <1>4, <1>5, <1>6 DEF Refusals
<1> QED
  BY <1>9, <1>10, <1>11, <1>12, <1>13, <1>14, <1>15, <1>16, <1>17, <1>18
    DEF ScopeInv

\* ... and the simulator directory, if it was not found there.
LEMMA RemoveSimulatorKeeps ==
  ASSUME ScopeInv, RemoveScopeDirectories, At("rmSim")
  PROVE  ScopeInv'
<1>1. /\ scopeOp.pc = "rmSim"
      /\ UNCHANGED <<scopeFile, runState, runOwner, orphans>>
  BY DEF RemoveScopeDirectories, At, Runs3, Counts
<1>2. Busy /\ scopeOp \in ScopeCalls
  BY <1>1, InvParts, BusyCall
<1>3. /\ scopeOp.s \in ScopeStates /\ scopeFile = scopeOp.s
      /\ scopeFile # NoScope /\ Good(scopeOp.s, tree, orphans, runState)
      /\ scopeOp.s.active = {} /\ scopeOp.s.pending = NoRun
      /\ \/ scopeOp.then = "ok" /\ scopeOp.kind # "prepare"
         \/ /\ scopeOp.then = "new" /\ scopeOp.kind = "prepare"
            /\ ~scopeOp.attempted /\ ~scopeOp.published /\ ~scopeOp.rolling
         \/ scopeOp.then = "failed" /\ scopeOp.rolling
      /\ scopeOp.kind # "prepare" =>
            ~scopeOp.attempted /\ ~scopeOp.published /\ ~scopeOp.rolling
      /\ scopeOp.made => scopeOp.attempted
      /\ scopeOp.attempted /\ ~scopeOp.made =>
            scopeOp.run \notin tree.runs \ orphans
      /\ scopeOp.kind = "prepare" /\ ~scopeOp.attempted =>
            /\ scopeOp.run \notin tree.runs
            /\ scopeOp.run \notin scopeOp.s.active
            /\ scopeOp.run # scopeOp.s.pending
      /\ scopeOp.kind = "prepare" /\ (scopeOp.refused \/ scopeOp.rolling) =>
            Blamed
      /\ scopeOp.ctl => scopeOp.sim
      /\ scopeOp.s.ready /\ ~tree.simOn /\ ~tree.rootOn /\ tree.procs = "root"
      /\ (scopeOp.s.pre <=> tree.found) /\ (scopeOp.s.pre => tree.sim)
      /\ (scopeOp.sim <=> tree.sim)
      /\ ~tree.ctl /\ ~scopeOp.ctl
  BY <1>1, <1>2, InvParts, CallTypes, ScopeIsSome, ScopeAssumption DEF Stage,
     Agree, Building, Undone, Unused, Refusals, CopyInv, Owned, Good, Matches
<1> DEFINE t == [tree EXCEPT !.sim = FALSE]
<1>4. /\ t \in TreeType /\ t.enabled \subseteq t.runs
      /\ SameRuns(tree, t) /\ ~t.sim
      /\ (t.found <=> tree.found) /\ (t.ctl <=> tree.ctl)
      /\ (t.rootOn <=> tree.rootOn) /\ (t.simOn <=> tree.simOn)
      /\ t.procs = tree.procs
  <2>1. tree \in TreeType /\ tree.enabled \subseteq tree.runs
    BY InvParts
  <2> QED
    BY <2>1, TreeSim
<1> HIDE DEF t
<1>5. /\ scopeOp' \in ScopeCalls /\ scopeOp'.s = scopeOp.s
      /\ scopeFaults' \in Nat /\ scopeCrashes' \in Nat
      /\ Blamed => Blamed'
      /\ SameCall(scopeOp, scopeOp') /\ SameFlags(scopeOp, scopeOp')
      /\ (scopeOp'.ctl <=> scopeOp.ctl) /\ scopeOp'.then = scopeOp.then
      /\ (scopeOp'.refused <=> scopeOp.refused)
      /\ \/ /\ tree' = t /\ scopeOp.sim /\ ~scopeOp.s.pre
            /\ ~scopeOp'.sim /\ scopeOp'.pc = "unlink"
         \/ /\ tree' = tree /\ ~(scopeOp.sim /\ ~scopeOp.s.pre)
            /\ (scopeOp'.sim <=> scopeOp.sim) /\ scopeOp'.pc = "unlink"
         \/ /\ tree' \in {tree, t} /\ scopeOp.sim /\ ~scopeOp.s.pre /\ Blamed'
            /\ scopeOp'.pc = "failed" /\ (scopeOp'.sim <=> scopeOp.sim)
  <2> DEFINE mine == scopeOp.sim /\ ~scopeOp.s.pre
             sim == scopeOp.sim /\ ~mine
  <2>1. /\ Handler = "failed" /\ "unlink" \in ScopeSteps
        /\ "failed" \in ScopeSteps
    BY <1>3, HandlerSteps DEF ScopeSteps
  <2>2. sim \in BOOLEAN
    OBVIOUS
  <2>3. \/ /\ tree' = IF mine THEN t ELSE tree
           /\ scopeOp' = [scopeOp EXCEPT !.sim = sim, !.pc = "unlink"]
           /\ UNCHANGED Counts
        \/ mine /\ Throw /\ Goto(Handler) /\ tree' \in {tree, t}
    BY <1>1 DEF RemoveScopeDirectories, At, t
  <2> HIDE DEF sim
  <2>4. CASE /\ tree' = IF mine THEN t ELSE tree
             /\ scopeOp' = [scopeOp EXCEPT !.sim = sim, !.pc = "unlink"]
             /\ UNCHANGED Counts
    <3>1. scopeOp' \in ScopeCalls
      BY <1>2, <2>1, <2>2, <2>4, Zenon DEF ScopeCalls
    <3>2. /\ scopeOp'.s = scopeOp.s /\ scopeOp'.pc = "unlink"
          /\ scopeOp'.sim = sim
          /\ SameCall(scopeOp, scopeOp') /\ SameFlags(scopeOp, scopeOp')
          /\ (scopeOp'.ctl <=> scopeOp.ctl) /\ scopeOp'.then = scopeOp.then
          /\ (scopeOp'.refused <=> scopeOp.refused)
      BY <1>2, <2>4, <3>1 DEF ScopeCalls
    <3>3. scopeOp'.sim <=> scopeOp.sim /\ ~mine
      BY <3>2 DEF sim
    <3> QED
      BY <1>1, <2>4, <3>1, <3>2, <3>3, InvParts, SameCounts
  <2>5. CASE mine /\ Throw /\ Goto(Handler) /\ tree' \in {tree, t}
    <3>1. /\ scopeOp' \in ScopeCalls /\ scopeOp'.s = scopeOp.s
          /\ Moved(scopeOp, scopeOp', "failed")
      BY <1>2, <2>1, <2>5, GotoCall
    <3>2. scopeFaults' \in Nat /\ scopeCrashes' \in Nat /\ Blamed'
      BY <2>5, InvParts, ThrowCounts
    <3> QED
      BY <2>5, <3>1, <3>2
  <2> QED
    BY <2>3, <2>4, <2>5
<1>6. Busy'
  BY <1>5, CallIsBusyNext
<1>7. /\ ~scopeOp.s.pre => Good(scopeFile, t, orphans, runState)
      /\ ~scopeOp.s.pre => Good(scopeOp.s, t, orphans, runState)
  BY <1>1, <1>3, <1>4, GoodShared DEF Good, Matches
<1>8. Ordered(t) /\ Placed(t, runState)
  BY <1>1, <1>3, <1>4, InvParts DEF Hierarchy, Directories, Ordered, Placed,
     Good, Lists
<1>9. Hierarchy' /\ Directories' /\ FileInv' /\ CopyInv'
  <2>1. CASE tree' = tree
    BY <1>1, <1>2, <1>5, <2>1, StayKeeps
  <2>2. CASE tree' = t /\ ~scopeOp.s.pre
    BY <1>1, <1>2, <1>3, <1>5, <1>7, <1>8, <2>2, MutateKeeps
  <2> QED
    BY <1>5, <2>1, <2>2
<1>10. ScopeTypeOK'
  BY <1>1, <1>3, <1>4, <1>5, InvParts, TypesKept
<1>11. Owned'
  BY <1>1, <1>2, <1>5, InvParts, OwnedKept
<1>12. Stage'
  BY <1>1, <1>2, <1>3, <1>4, <1>5, <1>6 DEF Stage
<1>13. Agree'
  BY <1>1, <1>2, <1>3, <1>4, <1>5, <1>6 DEF Agree
<1>14. Building'
  BY <1>1, <1>2, <1>3, <1>4, <1>5, <1>6 DEF Building
<1>15. Undone'
  BY <1>1, <1>2, <1>3, <1>4, <1>5, <1>6 DEF Undone
<1>16. Unused'
  BY <1>1, <1>2, <1>3, <1>4, <1>5, <1>6 DEF Unused
<1>17. Recorded'
  BY <1>5, <1>6, RecordedKept
<1>18. Refusals'
  BY <1>1, <1>2, <1>3, <1>4, <1>5, <1>6 DEF Refusals
<1> QED
  BY <1>9, <1>10, <1>11, <1>12, <1>13, <1>14, <1>15, <1>16, <1>17, <1>18
    DEF ScopeInv

\* The state file is removed when the host is as it was found.
LEMMA UnlinkScopeKeeps ==
  ASSUME ScopeInv, UnlinkScope
  PROVE  ScopeInv'
<1>1. /\ scopeOp.pc = "unlink"
      /\ UNCHANGED <<tree, runState, runOwner, orphans>>
  BY DEF UnlinkScope, At, Runs3, Counts
<1>2. Busy /\ scopeOp \in ScopeCalls
  BY <1>1, InvParts, BusyCall
<1>3. /\ scopeOp.s \in ScopeStates /\ scopeFile = scopeOp.s
      /\ scopeFile # NoScope /\ Good(scopeOp.s, tree, orphans, runState)
      /\ scopeOp.s.active = {} /\ scopeOp.s.pending = NoRun
      /\ \/ scopeOp.then = "ok" /\ scopeOp.kind # "prepare"
         \/ /\ scopeOp.then = "new" /\ scopeOp.kind = "prepare"
            /\ ~scopeOp.attempted /\ ~scopeOp.published /\ ~scopeOp.rolling
         \/ scopeOp.then = "failed" /\ scopeOp.rolling
      /\ scopeOp.kind # "prepare" =>
            ~scopeOp.attempted /\ ~scopeOp.published /\ ~scopeOp.rolling
      /\ scopeOp.made => scopeOp.attempted
      /\ scopeOp.attempted /\ ~scopeOp.made =>
            scopeOp.run \notin tree.runs \ orphans
      /\ scopeOp.kind = "prepare" /\ ~scopeOp.attempted =>
            /\ scopeOp.run \notin tree.runs
            /\ scopeOp.run \notin scopeOp.s.active
            /\ scopeOp.run # scopeOp.s.pending
      /\ scopeOp.kind = "prepare" /\ (scopeOp.refused \/ scopeOp.rolling) =>
            Blamed
      /\ scopeOp.ctl => scopeOp.sim
      /\ scopeOp.s.ready /\ ~tree.simOn /\ ~tree.rootOn /\ tree.procs = "root"
      /\ (scopeOp.s.pre <=> tree.found) /\ (scopeOp.s.pre => tree.sim)
      /\ ~tree.ctl /\ ~scopeOp.ctl /\ (tree.sim <=> tree.found)
  BY <1>1, <1>2, InvParts, CallTypes, ScopeIsSome, ScopeAssumption DEF Stage,
     Agree, Building, Undone, Unused, Refusals, CopyInv, Owned, Good, Matches
<1>4. /\ scopeOp' \in ScopeCalls /\ scopeOp'.s = scopeOp.s
      /\ scopeFaults' \in Nat /\ scopeCrashes' \in Nat
      /\ Blamed => Blamed'
      /\ \/ scopeFile' = NoScope /\ Moved(scopeOp, scopeOp', scopeOp.then)
         \/ /\ scopeFile' \in {scopeFile, NoScope} /\ Blamed'
            /\ Moved(scopeOp, scopeOp', "failed")
  <2>1. /\ Handler = "failed" /\ Handler \in ScopeSteps
        /\ scopeOp.then \in ScopeSteps
    BY <1>3, HandlerSteps DEF ScopeSteps
  <2>2. CASE scopeFile' = NoScope /\ Goto(scopeOp.then) /\ UNCHANGED Counts
    BY <1>1, <1>2, <2>1, <2>2, InvParts, GotoCall, SameCounts
  <2>3. CASE Throw /\ scopeFile' \in {scopeFile, NoScope} /\ Goto(Handler)
    BY <1>2, <2>1, <2>3, InvParts, GotoCall, ThrowCounts
  <2> QED
    BY <2>2, <2>3 DEF UnlinkScope
<1>5. Busy'
  BY <1>4, CallIsBusyNext
<1>6. Hierarchy' /\ Directories' /\ FileInv' /\ CopyInv'
  <2>1. Hierarchy' /\ Directories' /\ CopyInv'
    BY <1>1, <1>2, <1>4, InvParts DEF Hierarchy, Directories, CopyInv
  <2>2. Empty(tree, orphans, runState)
    BY <1>3, InvParts, ScopeAssumption DEF Good, Lists, Empty
  <2>3. FileInv'
    BY <1>1, <1>3, <1>4, <2>2, InvParts DEF FileInv
  <2> QED
    BY <2>1, <2>3
<1>7. ScopeTypeOK'
  BY <1>1, <1>3, <1>4, InvParts, TypesKept
<1>8. Owned'
  BY <1>1, <1>2, <1>4, InvParts, OwnedKept
<1>9. Stage'
  BY <1>1, <1>2, <1>3, <1>4, <1>5 DEF Stage
<1>10. Agree'
  BY <1>1, <1>2, <1>3, <1>4, <1>5 DEF Agree
<1>11. Building'
  BY <1>1, <1>2, <1>3, <1>4, <1>5 DEF Building
<1>12. Undone'
  BY <1>1, <1>2, <1>3, <1>4, <1>5 DEF Undone
<1>13. Unused'
  BY <1>1, <1>2, <1>3, <1>4, <1>5 DEF Unused
<1>14. Recorded'
  BY <1>1, <1>3, <1>4, <1>5, RecordedKept
<1>15. Refusals'
  BY <1>1, <1>2, <1>3, <1>4, <1>5 DEF Refusals
<1> QED
  BY <1>6, <1>7, <1>8, <1>9, <1>10, <1>11, <1>12, <1>13, <1>14, <1>15
    DEF ScopeInv

\* A restoration begins when no run is left and the hierarchy is verified.
LEMMA BeginRestoreKeeps ==
  ASSUME ScopeInv, BeginRestore
  PROVE  ScopeInv'
<1>1. /\ scopeOp.pc \in {"restoreThenNew", "restoreThenFail", "restoreThenOk"}
      /\ UNCHANGED <<scopeFile, tree, runState, runOwner, orphans,
                     scopeFaults, scopeCrashes>>
  BY DEF BeginRestore, At, Runs3, Counts
<1>2. Busy /\ scopeOp \in ScopeCalls
  BY <1>1, InvParts, BusyCall
<1>3. /\ scopeOp.s \in ScopeStates /\ scopeFile = scopeOp.s
      /\ scopeFile # NoScope /\ Good(scopeOp.s, tree, orphans, runState)
      /\ scopeOp.pc = "restoreThenNew" =>
            /\ scopeOp.kind = "prepare" /\ ~scopeOp.attempted
            /\ ~scopeOp.published /\ ~scopeOp.rolling
            /\ scopeOp.s.active = {} /\ scopeOp.s.pending = NoRun
            /\ (scopeOp.sim <=> tree.sim) /\ (scopeOp.ctl <=> tree.ctl)
            /\ (tree.sim => scopeOp.s.sim) /\ (tree.ctl => scopeOp.s.ctl)
      /\ scopeOp.pc = "restoreThenFail" =>
            scopeOp.kind = "prepare" /\ scopeOp.rolling
      /\ scopeOp.pc = "restoreThenOk" => scopeOp.kind # "prepare"
      /\ scopeOp.attempted => scopeOp.s.pending \in {scopeOp.run, NoRun}
      /\ tree.ctl => tree.sim
      /\ scopeOp.kind # "prepare" =>
            ~scopeOp.attempted /\ ~scopeOp.published /\ ~scopeOp.rolling
      /\ scopeOp.made => scopeOp.attempted
      /\ scopeOp.attempted /\ ~scopeOp.made =>
            scopeOp.run \notin tree.runs \ orphans
      /\ scopeOp.kind = "prepare" /\ ~scopeOp.attempted =>
            /\ scopeOp.run \notin tree.runs
            /\ scopeOp.run \notin scopeOp.s.active
            /\ scopeOp.run # scopeOp.s.pending
      /\ scopeOp.kind = "prepare" /\ (scopeOp.refused \/ scopeOp.rolling) =>
            Blamed
      /\ scopeOp.ctl => scopeOp.sim
  BY <1>1, <1>2, InvParts, CallTypes, ScopeIsSome, ScopeAssumption DEF Stage,
     Agree, Building, Undone, Unused, Refusals, CopyInv, Owned, Hierarchy,
     Ordered
<1>4. /\ scopeOp' \in ScopeCalls /\ scopeOp'.s = scopeOp.s
      /\ SameCall(scopeOp, scopeOp') /\ SameFlags(scopeOp, scopeOp')
      /\ SameHold(scopeOp, scopeOp')
      /\ \/ scopeOp'.pc = "failed" /\ (scopeOp.kind = "prepare" => Blamed)
         \/ /\ scopeOp.s.active = {} /\ scopeOp.s.pending = NoRun
            /\ HierarchyOk(scopeOp.s) /\ (scopeOp'.refused <=> scopeOp.refused)
            /\ scopeOp.pc = "restoreThenNew" => scopeOp'.then = "new"
            /\ scopeOp.pc = "restoreThenFail" => scopeOp'.then = "failed"
            /\ scopeOp.pc = "restoreThenOk" => scopeOp'.then = "ok"
            /\ scopeOp'.pc = IF scopeOp.s.ready THEN "rmCtl" ELSE "simOff"
  <2>1. Handler = "failed"
    BY <1>1, <1>3, HandlerSteps
  <2>2. CASE /\ RefuseScope
             /\ \/ InUse(scopeOp.s) \/ scopeOp.s.bound # {}
                \/ ~HierarchyOk(scopeOp.s)
    <3>1. CASE scopeOp.pc = "restoreThenNew"
      <4>1. scopeOp.sim = tree.sim /\ scopeOp.ctl = tree.ctl
        BY <1>2, <1>3, <3>1, InvParts DEF ScopeCalls, TreeType
      <4>2. HierarchyOk(scopeOp.s)
        BY <1>3, <3>1, <4>1 DEF HierarchyOk
      <4>3. ~InUse(scopeOp.s) /\ scopeOp.s.bound = {}
        BY <1>3, <3>1 DEF InUse, Good, Consistent
      <4> QED
        BY <2>2, <4>2, <4>3
    <3>2. CASE scopeOp.pc # "restoreThenNew"
      BY <1>1, <1>2, <1>3, <2>1, <2>2, <3>2, RefuseCall
    <3> QED
      BY <3>1, <3>2
  <2> DEFINE then == CASE scopeOp.pc = "restoreThenNew" -> "new"
                       [] scopeOp.pc = "restoreThenFail" -> "failed"
                       [] OTHER -> "ok"
             pc == IF scopeOp.s.ready THEN "rmCtl" ELSE "simOff"
  <2>3. then \in {"none", "new", "failed", "ok"} /\ pc \in ScopeSteps
    BY DEF ScopeSteps
  <2>4. CASE /\ ~(InUse(scopeOp.s) \/ scopeOp.s.bound # {}
                  \/ ~HierarchyOk(scopeOp.s))
             /\ scopeOp' = [scopeOp EXCEPT !.then = then, !.pc = pc]
    <3> HIDE DEF then, pc
    <3>1. scopeOp' \in ScopeCalls
      BY <1>2, <2>3, <2>4, Zenon DEF ScopeCalls
    <3>2. /\ scopeOp'.s = scopeOp.s /\ scopeOp'.pc = pc /\ scopeOp'.then = then
          /\ SameCall(scopeOp, scopeOp') /\ SameFlags(scopeOp, scopeOp')
          /\ SameHold(scopeOp, scopeOp')
          /\ (scopeOp'.refused <=> scopeOp.refused)
      BY <1>2, <2>4, <3>1 DEF ScopeCalls
    <3>3. scopeOp.s.active = {} /\ scopeOp.s.pending = NoRun
      BY <2>4 DEF InUse
    <3> QED
      BY <2>4, <3>1, <3>2, <3>3 DEF then, pc
  <2> QED
    BY <2>2, <2>4 DEF BeginRestore
<1>5. Busy'
  BY <1>4, CallIsBusyNext
<1>6. scopeFaults' \in Nat /\ scopeCrashes' \in Nat /\ (Blamed => Blamed')
  BY <1>1, InvParts, SameCounts DEF Counts
<1>7. \/ scopeOp'.pc = "failed"
      \/ /\ (scopeOp.sim <=> tree.sim) /\ (tree.sim => scopeOp.s.sim)
         /\ (scopeOp.ctl <=> tree.ctl) /\ (tree.ctl => scopeOp.s.ctl)
  BY <1>3, <1>4 DEF HierarchyOk
<1>8. /\ scopeOp.s.ready =>
            /\ ~tree.simOn /\ ~tree.rootOn /\ tree.procs = "root"
  BY <1>3 DEF Good, Matches
<1>9. Hierarchy' /\ Directories' /\ FileInv' /\ CopyInv'
  BY <1>1, <1>2, <1>4, StayKeeps
<1>10. ScopeTypeOK'
  BY <1>1, <1>4, <1>6, InvParts, TypesKept
<1>11. Owned'
  BY <1>1, <1>2, <1>4, InvParts, OwnedKept
<1>12. Stage'
  BY <1>1, <1>2, <1>3, <1>4, <1>5, <1>6, <1>7, <1>8 DEF Stage
<1>13. Agree'
  BY <1>1, <1>2, <1>3, <1>4, <1>5, <1>6, <1>7, <1>8 DEF Agree
<1>14. Building'
  BY <1>1, <1>2, <1>3, <1>4, <1>5, <1>6, <1>7, <1>8 DEF Building
<1>15. Undone'
  BY <1>1, <1>2, <1>3, <1>4, <1>5, <1>6, <1>7, <1>8 DEF Undone
<1>16. Unused'
  BY <1>1, <1>2, <1>3, <1>4, <1>5, <1>6, <1>7, <1>8 DEF Unused
<1>17. Recorded'
  BY <1>4, <1>5, RecordedKept
<1>18. Refusals'
  BY <1>1, <1>2, <1>3, <1>4, <1>5, <1>6, <1>7, <1>8 DEF Refusals
<1> QED
  BY <1>9, <1>10, <1>11, <1>12, <1>13, <1>14, <1>15, <1>16, <1>17, <1>18
    DEF ScopeInv

\* The run gets its controllers if the simulator directory passes them on.
LEMMA EnableRunKeeps ==
  ASSUME ScopeInv, EnableRun
  PROVE  ScopeInv'
<1>1. /\ scopeOp.pc = "enableRun"
      /\ UNCHANGED <<scopeFile, runState, runOwner, orphans>>
  BY DEF EnableRun, At, Runs3, Counts
<1>2. Busy /\ scopeOp \in ScopeCalls
  BY <1>1, InvParts, BusyCall
<1>3. /\ scopeOp.s \in ScopeStates /\ scopeFile = scopeOp.s
      /\ scopeFile # NoScope /\ Good(scopeOp.s, tree, orphans, runState)
      /\ scopeOp.kind = "prepare" /\ runState[scopeOp.run] = "preparing"
      /\ scopeOp.run \in Runs /\ scopeOp.run # NoRun
      /\ scopeOp.attempted /\ ~scopeOp.rolling
      /\ scopeOp.s.sim /\ scopeOp.s.ctl /\ ~scopeOp.s.ready
      /\ scopeOp.s.pending = scopeOp.run
      /\ tree.simOn \/ orphans # {}
      /\ scopeOp.ctl => scopeOp.sim
      /\ scopeOp.refused => Blamed
      /\ Good(scopeFile, tree, orphans, runState)
      /\ scopeOp.made /\ scopeOp.run \in tree.runs /\ scopeOp.s.created
  BY <1>1, <1>2, InvParts, CallTypes, ScopeIsSome, ScopeAssumption DEF Stage,
     Agree, Building, Undone, Unused, Refusals, CopyInv, Owned, FileInv
<1> DEFINE t == [tree EXCEPT !.enabled = @ \cup {scopeOp.run}]
<1>4. /\ t \in TreeType /\ t.enabled \subseteq t.runs
      /\ t.runs = tree.runs /\ t.enabled = tree.enabled \cup {scopeOp.run}
      /\ SameDirs(tree, t) /\ SameRoot(tree, t)
  <2> DEFINE es == tree.enabled \cup {scopeOp.run}
  <2>1. es \in SUBSET Runs /\ es \subseteq tree.runs
    BY <1>3, InvParts
  <2>2. t = [tree EXCEPT !.enabled = es]
    BY DEF t
  <2> HIDE DEF t, es
  <2>3. /\ t \in TreeType /\ t.runs = tree.runs /\ t.enabled = es
        /\ SameDirs(tree, t) /\ SameRoot(tree, t)
    BY <2>1, <2>2, InvParts, TreeEnable
  <2> QED
    BY <2>1, <2>3 DEF es
<1> HIDE DEF t
<1>5. /\ scopeOp' \in ScopeCalls /\ scopeOp'.s = scopeOp.s
      /\ SameCall(scopeOp, scopeOp') /\ SameFlags(scopeOp, scopeOp')
      /\ SameHold(scopeOp, scopeOp')
      /\ scopeFaults' \in Nat /\ scopeCrashes' \in Nat
      /\ Blamed => Blamed'
      /\ \/ /\ tree' = t /\ tree.simOn /\ scopeOp'.pc = "wrActive"
            /\ (scopeOp'.refused <=> scopeOp.refused)
         \/ tree' \in {tree, t} /\ Blamed' /\ scopeOp'.pc = "rollback"
  <2>1. Handler = "rollback" /\ "wrActive" \in ScopeSteps
    BY <1>3, HandlerSteps DEF ScopeSteps
  <2>2. CASE tree.simOn
    <3>1. Mutate(t, "wrActive")
      BY <2>2 DEF EnableRun, t
    <3>2. /\ scopeOp' \in ScopeCalls /\ scopeOp'.s = scopeOp.s
          /\ scopeFaults' \in Nat /\ scopeCrashes' \in Nat
          /\ Blamed => Blamed'
          /\ \/ tree' = t /\ Moved(scopeOp, scopeOp', "wrActive")
             \/ /\ tree' \in {tree, t} /\ Blamed'
                /\ Moved(scopeOp, scopeOp', "rollback")
      BY <1>1, <1>2, <2>1, <3>1, InvParts, MutateCall DEF Runs3
    <3> QED
      BY <2>2, <3>2
  <2>3. CASE ~tree.simOn
    <3>1. RefuseScope /\ UNCHANGED <<tree, Counts>>
      BY <2>3 DEF EnableRun
    <3>2. Blamed
      BY <1>3, <2>3 DEF Blamed
    <3> QED
      BY <1>1, <1>2, <2>1, <3>1, <3>2, InvParts, RefuseCall, SameCounts
  <2> QED
    BY <2>2, <2>3
<1>6. Busy'
  BY <1>5, CallIsBusyNext
<1>7. /\ Good(scopeFile, t, orphans, runState)
      /\ Good(scopeOp.s, t, orphans, runState)
  BY <1>3, <1>4, InvParts, GoodWithout
<1>8. Ordered(t) /\ Placed(t, runState)
  BY <1>1, <1>2, <1>3, <1>4, InvParts DEF Hierarchy, Directories, Ordered,
     Placed
<1>9. Hierarchy' /\ Directories' /\ FileInv' /\ CopyInv'
  BY <1>1, <1>2, <1>3, <1>5, <1>7, <1>8, MutateKeeps
<1>10. ScopeTypeOK'
  BY <1>1, <1>3, <1>4, <1>5, InvParts, TypesKept
<1>11. Owned'
  BY <1>1, <1>2, <1>5, InvParts, OwnedKept
<1>12. Stage'
  BY <1>1, <1>2, <1>3, <1>4, <1>5, <1>6 DEF Stage
<1>13. Agree'
  BY <1>1, <1>2, <1>3, <1>4, <1>5, <1>6 DEF Agree
<1>14. Building'
  BY <1>1, <1>2, <1>3, <1>4, <1>5, <1>6 DEF Building
<1>15. Undone'
  BY <1>1, <1>2, <1>3, <1>4, <1>5, <1>6 DEF Undone
<1>16. Unused'
  BY <1>1, <1>2, <1>3, <1>4, <1>5, <1>6 DEF Unused
<1>17. Recorded'
  BY <1>5, <1>6, RecordedKept
<1>18. Refusals'
  BY <1>1, <1>2, <1>3, <1>4, <1>5, <1>6 DEF Refusals
<1> QED
  BY <1>9, <1>10, <1>11, <1>12, <1>13, <1>14, <1>15, <1>16, <1>17, <1>18
    DEF ScopeInv

\* The directory of an interrupted preparation is removed if it is there.
LEMMA RemovePendingKeeps ==
  ASSUME ScopeInv, RemovePending
  PROVE  ScopeInv'
<1>1. /\ scopeOp.pc = "rmPending"
      /\ UNCHANGED <<scopeFile, runState, runOwner, orphans>>
  BY DEF RemovePending, At, Runs3, Counts
<1>2. Busy /\ scopeOp \in ScopeCalls
  BY <1>1, InvParts, BusyCall
<1>3. /\ scopeOp.s \in ScopeStates /\ scopeFile = scopeOp.s
      /\ scopeFile # NoScope /\ Good(scopeOp.s, tree, orphans, runState)
      /\ scopeOp.kind = "prepare"
      /\ scopeOp.run \in Runs /\ scopeOp.run # NoRun
      /\ ~scopeOp.attempted /\ ~scopeOp.published
      /\ ~scopeOp.rolling /\ ~scopeOp.made
      /\ (tree.sim => scopeOp.s.sim) /\ (tree.ctl => scopeOp.s.ctl)
      /\ InUse(scopeOp.s) => scopeOp.s.sim /\ scopeOp.s.ctl
      /\ (scopeOp.sim <=> tree.sim) /\ (scopeOp.ctl <=> tree.ctl)
      /\ scopeOp.ctl => scopeOp.sim
      /\ scopeOp.run \notin tree.runs
      /\ scopeOp.run \notin scopeOp.s.active
      /\ scopeOp.run # scopeOp.s.pending
      /\ scopeOp.refused => Blamed
      /\ Good(scopeFile, tree, orphans, runState)
      /\ scopeOp.s.created /\ scopeOp.s.pending # NoRun
  BY <1>1, <1>2, InvParts, CallTypes, ScopeIsSome, ScopeAssumption DEF Stage,
     Agree, Building, Undone, Unused, Refusals, CopyInv, Owned, FileInv
<1> DEFINE t == [tree EXCEPT !.runs = @ \ {scopeOp.s.pending},
                               !.enabled = @ \ {scopeOp.s.pending}]
<1>4. /\ t \in TreeType /\ t.enabled \subseteq t.runs
      /\ t.runs = tree.runs \ {scopeOp.s.pending}
      /\ t.enabled = tree.enabled \ {scopeOp.s.pending}
      /\ SameDirs(tree, t) /\ SameRoot(tree, t)
  <2> DEFINE rs == tree.runs \ {scopeOp.s.pending}
             es == tree.enabled \ {scopeOp.s.pending}
  <2>1. rs \in SUBSET Runs /\ es \in SUBSET Runs /\ es \subseteq rs
    BY InvParts
  <2>2. t = [tree EXCEPT !.runs = rs, !.enabled = es]
    BY DEF t
  <2> HIDE DEF t, rs, es
  <2>3. t \in TreeType
    BY <2>1, <2>2, InvParts, Zenon DEF TreeType
  <2>4. /\ t.runs = rs /\ t.enabled = es
        /\ SameDirs(tree, t) /\ SameRoot(tree, t)
    BY <2>2, <2>3, InvParts DEF TreeType
  <2> QED
    BY <2>1, <2>3, <2>4 DEF rs, es
<1> HIDE DEF t
<1>5. /\ scopeOp' \in ScopeCalls /\ scopeOp'.s = scopeOp.s
      /\ SameCall(scopeOp, scopeOp') /\ SameFlags(scopeOp, scopeOp')
      /\ SameHold(scopeOp, scopeOp')
      /\ scopeFaults' \in Nat /\ scopeCrashes' \in Nat
      /\ Blamed => Blamed'
      /\ \/ /\ tree' = t /\ scopeOp'.pc = "wrRecovered"
            /\ (scopeOp'.refused <=> scopeOp.refused)
         \/ tree' \in {tree, t} /\ Blamed' /\ scopeOp'.pc = "failed"
         \/ /\ tree' = tree /\ scopeOp.s.pending \notin tree.runs
            /\ scopeOp'.pc = "failed"
  <2>1. Handler = "failed" /\ "wrRecovered" \in ScopeSteps
    BY <1>3, HandlerSteps DEF ScopeSteps
  <2>2. scopeOp.s.pending \in scopeOp.s.bound
    BY <1>3 DEF Good, Consistent
  <2>3. CASE scopeOp.s.pending \in tree.runs
    <3>1. Mutate(t, "wrRecovered")
      BY <2>2, <2>3 DEF RemovePending, t
    <3>2. /\ scopeOp' \in ScopeCalls /\ scopeOp'.s = scopeOp.s
          /\ scopeFaults' \in Nat /\ scopeCrashes' \in Nat
          /\ Blamed => Blamed'
          /\ \/ tree' = t /\ Moved(scopeOp, scopeOp', "wrRecovered")
             \/ /\ tree' \in {tree, t} /\ Blamed'
                /\ Moved(scopeOp, scopeOp', "failed")
      BY <1>1, <1>2, <2>1, <3>1, InvParts, MutateCall DEF Runs3
    <3> QED
      BY <3>2
  <2>4. CASE scopeOp.s.pending \notin tree.runs
    <3>1. RefuseScope /\ UNCHANGED <<tree, Counts>>
      BY <2>4 DEF RemovePending
    <3> QED
      BY <1>1, <1>2, <2>1, <2>4, <3>1, InvParts, RefuseCall, SameCounts
  <2> QED
    BY <2>3, <2>4
<1>6. Busy'
  BY <1>5, CallIsBusyNext
<1>7. /\ Good(scopeFile, t, orphans, runState)
      /\ Good(scopeOp.s, t, orphans, runState)
  BY <1>3, <1>4, InvParts, GoodWithout
<1>8. Ordered(t) /\ Placed(t, runState)
  BY <1>3, <1>4, InvParts DEF Hierarchy, Directories, Ordered, Placed, Good,
     Consistent, Lists
<1>9. Hierarchy' /\ Directories' /\ FileInv' /\ CopyInv'
  BY <1>1, <1>2, <1>3, <1>5, <1>7, <1>8, MutateKeeps
<1>10. ScopeTypeOK'
  BY <1>1, <1>3, <1>4, <1>5, InvParts, TypesKept
<1>11. Owned'
  BY <1>1, <1>2, <1>5, InvParts, OwnedKept
<1>12. Stage'
  BY <1>1, <1>2, <1>3, <1>4, <1>5, <1>6 DEF Stage
<1>13. Agree'
  BY <1>1, <1>2, <1>3, <1>4, <1>5, <1>6 DEF Agree
<1>14. Building'
  BY <1>1, <1>2, <1>3, <1>4, <1>5, <1>6 DEF Building
<1>15. Undone'
  BY <1>1, <1>2, <1>3, <1>4, <1>5, <1>6 DEF Undone
<1>16. Unused'
  BY <1>1, <1>2, <1>3, <1>4, <1>5, <1>6 DEF Unused
<1>17. Recorded'
  BY <1>5, <1>6, RecordedKept
<1>18. Refusals'
  BY <1>1, <1>2, <1>3, <1>4, <1>5, <1>6 DEF Refusals
<1> QED
  BY <1>9, <1>10, <1>11, <1>12, <1>13, <1>14, <1>15, <1>16, <1>17, <1>18
    DEF ScopeInv

\* The state file is loaded and compared with the hierarchy.
LEMMA LoadForPrepareKeeps ==
  ASSUME ScopeInv, LoadForPrepare
  PROVE  ScopeInv'
<1>1. /\ scopeOp.pc = "prepare"
      /\ UNCHANGED <<scopeFile, tree, runState, runOwner, orphans,
                     scopeFaults, scopeCrashes>>
  BY DEF LoadForPrepare, At, Runs3, Counts
<1>2. Busy /\ scopeOp \in ScopeCalls
  BY <1>1, InvParts, BusyCall
<1>3. /\ scopeFile = scopeOp.s /\ scopeOp.kind = "prepare"
      /\ scopeFile # NoScope =>
            /\ scopeFile \in ScopeStates
            /\ Good(scopeFile, tree, orphans, runState)
      /\ ~scopeOp.attempted /\ ~scopeOp.published
      /\ ~scopeOp.rolling /\ ~scopeOp.made /\ ~scopeOp.ctl
      /\ scopeOp.run \notin tree.runs
      /\ scopeFile # NoScope =>
            /\ scopeOp.run \notin scopeFile.active
            /\ scopeOp.run # scopeFile.pending
      /\ tree.ctl => tree.sim
      /\ Unrecorded \subseteq orphans
      /\ scopeOp.refused => Blamed
  BY <1>1, <1>2, InvParts, CallTypes, ScopeIsSome, ScopeAssumption DEF Stage,
     Agree, Building, Undone, Unused, Refusals, CopyInv, Owned, FileInv,
     Hierarchy, Ordered, Recorded
<1>4. /\ scopeOp' \in ScopeCalls /\ scopeOp'.s = scopeOp.s
      /\ SameCall(scopeOp, scopeOp') /\ SameFlags(scopeOp, scopeOp')
      /\ \/ /\ scopeFile = NoScope /\ scopeOp'.pc = "new"
            /\ SameHold(scopeOp, scopeOp')
            /\ (scopeOp'.refused <=> scopeOp.refused)
         \/ /\ scopeFile # NoScope
            /\ Loadable(scopeFile) /\ Bindable(scopeFile)
            /\ (scopeOp'.sim <=> tree.sim)
            /\ (scopeOp'.ctl <=> tree.sim /\ tree.ctl)
            /\ (scopeOp'.refused <=> scopeOp.refused)
            /\ scopeOp'.pc = IF scopeFile.pending = NoRun THEN "survey"
                             ELSE IF scopeFile.created THEN "rmPending"
                             ELSE "wrRecovered"
         \/ /\ scopeFile # NoScope
            /\ ~(Loadable(scopeFile) /\ Bindable(scopeFile))
            /\ scopeOp'.pc = "failed" /\ SameHold(scopeOp, scopeOp')
  <2>1. Handler = "failed" /\ "new" \in ScopeSteps
    BY <1>3, HandlerSteps DEF ScopeSteps
  <2> DEFINE ctl == tree.sim /\ tree.ctl
             pc == IF scopeFile.pending = NoRun THEN "survey"
                   ELSE IF scopeFile.created THEN "rmPending"
                   ELSE "wrRecovered"
  <2>2. pc \in ScopeSteps /\ ctl \in BOOLEAN /\ tree.sim \in BOOLEAN
    BY InvParts DEF ScopeSteps, TreeType
  <2>3. CASE scopeFile = NoScope /\ Goto("new")
    BY <1>2, <2>1, <2>3, GotoCall
  <2>4. CASE /\ scopeFile # NoScope
             /\ Loadable(scopeFile) /\ Bindable(scopeFile)
             /\ scopeOp' = [scopeOp EXCEPT !.sim = tree.sim, !.ctl = ctl,
                                           !.pc = pc]
    <3> HIDE DEF ctl, pc
    <3>1. scopeOp' \in ScopeCalls
      BY <1>2, <2>2, <2>4, Zenon DEF ScopeCalls
    <3>2. /\ scopeOp'.s = scopeOp.s /\ scopeOp'.pc = pc /\ scopeOp'.ctl = ctl
          /\ scopeOp'.sim = tree.sim
          /\ SameCall(scopeOp, scopeOp') /\ SameFlags(scopeOp, scopeOp')
          /\ (scopeOp'.refused <=> scopeOp.refused)
      BY <1>2, <2>4, <3>1 DEF ScopeCalls
    <3>3. scopeOp'.ctl <=> tree.sim /\ tree.ctl
      BY <3>2 DEF ctl
    <3> QED
      BY <2>4, <3>1, <3>2, <3>3 DEF pc
  <2>5. CASE /\ scopeFile # NoScope
             /\ ~(Loadable(scopeFile) /\ Bindable(scopeFile)) /\ RefuseScope
    BY <1>2, <2>1, <2>5, RefuseCall
  <2> QED
    BY <2>3, <2>4, <2>5 DEF LoadForPrepare
<1>5. Busy'
  BY <1>4, CallIsBusyNext
<1>6. scopeFaults' \in Nat /\ scopeCrashes' \in Nat /\ (Blamed => Blamed')
  BY <1>1, InvParts, SameCounts DEF Counts
<1>7. /\ scopeOp'.pc \in Loaded =>
            /\ (tree.sim => scopeFile.sim) /\ (tree.ctl => scopeFile.ctl)
            /\ InUse(scopeFile) => scopeFile.sim /\ scopeFile.ctl
      /\ scopeOp'.pc = "wrRecovered" =>
            scopeFile.pending \notin tree.runs \ orphans
  <2>1. ASSUME scopeOp'.pc \in Loaded
        PROVE  Loadable(scopeFile) /\ Bindable(scopeFile)
    BY <1>4, <2>1
  <2>2. ASSUME scopeOp'.pc \in Loaded
        PROVE  /\ (tree.sim => scopeFile.sim) /\ (tree.ctl => scopeFile.ctl)
               /\ InUse(scopeFile) => scopeFile.sim /\ scopeFile.ctl
    BY <1>3, <2>1, <2>2 DEF Loadable, Bindable
  <2>3. ASSUME scopeOp'.pc = "wrRecovered"
        PROVE  scopeFile.pending \notin tree.runs \ orphans
    BY <1>3, <1>4, <2>3 DEF Unrecorded
  <2> QED
    BY <2>2, <2>3
<1>8. scopeOp'.pc = "failed" => Blamed
  <2> SUFFICES ASSUME scopeOp'.pc = "failed", orphans = {}
               PROVE  Loadable(scopeFile) /\ Bindable(scopeFile)
    BY <1>4 DEF Blamed
  <2>1. /\ scopeFile # NoScope /\ scopeFile \in ScopeStates
        /\ Consistent(scopeFile) /\ Matches(scopeFile, tree, orphans)
    BY <1>3, <1>4 DEF Good
  <2>2. Loadable(scopeFile)
    BY <2>1 DEF Loadable, Consistent, Matches, InUse
  <2>3. (tree.sim => scopeFile.sim) /\ (tree.ctl => scopeFile.ctl)
    BY <1>3, <2>1 DEF Unrecorded
  <2>4. Bindable(scopeFile)
    BY <1>3, <2>1, <2>2, <2>3
      DEF Bindable, Loadable, Consistent, Matches
  <2> QED
    BY <2>2, <2>4
<1>9. Hierarchy' /\ Directories' /\ FileInv' /\ CopyInv'
  BY <1>1, <1>2, <1>4, StayKeeps
<1>10. ScopeTypeOK'
  BY <1>1, <1>4, <1>6, InvParts, TypesKept
<1>11. Owned'
  BY <1>1, <1>2, <1>4, InvParts, OwnedKept
<1>12. Stage'
  BY <1>1, <1>2, <1>3, <1>4, <1>5, <1>6, <1>7, <1>8 DEF Stage
<1>13. Agree'
  BY <1>1, <1>2, <1>3, <1>4, <1>5, <1>6, <1>7, <1>8 DEF Agree
<1>14. Building'
  BY <1>1, <1>2, <1>3, <1>4, <1>5, <1>6, <1>7, <1>8 DEF Building
<1>15. Undone'
  BY <1>1, <1>2, <1>3, <1>4, <1>5, <1>6, <1>7, <1>8 DEF Undone
<1>16. Unused'
  BY <1>1, <1>2, <1>3, <1>4, <1>5, <1>6, <1>7, <1>8 DEF Unused
<1>17. Recorded'
  BY <1>4, <1>5, RecordedKept
<1>18. Refusals'
  BY <1>1, <1>2, <1>3, <1>4, <1>5, <1>6, <1>7, <1>8 DEF Refusals
<1> QED
  BY <1>9, <1>10, <1>11, <1>12, <1>13, <1>14, <1>15, <1>16, <1>17, <1>18
    DEF ScopeInv

\* The same for a removal, which then knows whether there is a directory.
LEMMA LoadForRemoveKeeps ==
  ASSUME ScopeInv, LoadForRemove
  PROVE  ScopeInv'
<1>1. /\ scopeOp.pc \in {"remove", "stale"}
      /\ UNCHANGED <<scopeFile, tree, runState, runOwner, orphans,
                     scopeFaults, scopeCrashes>>
  BY DEF LoadForRemove, At, Runs3, Counts
<1>2. Busy /\ scopeOp \in ScopeCalls
  BY <1>1, InvParts, BusyCall
<1>3. /\ scopeFile = scopeOp.s /\ scopeOp.kind \in {"remove", "stale"}
      /\ ~scopeOp.attempted /\ ~scopeOp.published
      /\ ~scopeOp.rolling /\ ~scopeOp.made /\ ~scopeOp.ctl
  BY <1>1, <1>2, InvParts, CallTypes, ScopeIsSome, ScopeAssumption DEF Stage,
     Agree, Building, Undone, Unused, Refusals, CopyInv, Owned, FileInv
<1>4. /\ scopeOp' \in ScopeCalls /\ scopeOp'.s = scopeOp.s
      /\ SameCall(scopeOp, scopeOp') /\ SameFlags(scopeOp, scopeOp')
      /\ scopeOp'.ctl => scopeOp'.sim
      /\ \/ scopeOp'.pc \in {"ok", "failed"}
         \/ /\ scopeFile # NoScope
            /\ scopeOp'.pc \in {"rmRun", "wrRemoved", "restoreThenOk"}
            /\ scopeOp'.pc = "wrRemoved" => scopeOp.run \notin tree.runs
  <2>1. Handler = "failed" /\ "ok" \in ScopeSteps
    BY <1>3, HandlerSteps DEF ScopeSteps
  <2> DEFINE ctl == tree.sim /\ tree.ctl
             quit == IF InUse(scopeFile) THEN "ok" ELSE "restoreThenOk"
             work == IF scopeOp.run \in tree.runs THEN "rmRun" ELSE "wrRemoved"
  <2>2. /\ quit \in ScopeSteps /\ work \in ScopeSteps
        /\ quit \in {"ok", "restoreThenOk"} /\ work \in {"rmRun", "wrRemoved"}
        /\ work = "wrRemoved" => scopeOp.run \notin tree.runs
    BY DEF ScopeSteps
  <2>3. ctl \in BOOLEAN /\ tree.sim \in BOOLEAN
    BY InvParts DEF TreeType
  <2>4. \/ RefuseScope \/ Goto("ok")
        \/ /\ scopeFile # NoScope
           /\ \E pc \in {quit, work} :
                 scopeOp' = [scopeOp EXCEPT !.sim = tree.sim, !.ctl = ctl,
                                            !.pc = pc]
    BY DEF LoadForRemove
  <2>5. CASE RefuseScope
    BY <1>2, <1>3, <2>1, <2>5, RefuseCall
  <2>6. CASE Goto("ok")
    BY <1>2, <1>3, <2>1, <2>6, GotoCall
  <2> HIDE DEF quit, work
  <2>7. ASSUME NEW pc \in {quit, work}, scopeFile # NoScope,
               scopeOp' = [scopeOp EXCEPT !.sim = tree.sim, !.ctl = ctl,
                                          !.pc = pc]
        PROVE  /\ scopeOp' \in ScopeCalls /\ scopeOp'.s = scopeOp.s
               /\ SameCall(scopeOp, scopeOp') /\ SameFlags(scopeOp, scopeOp')
               /\ scopeOp'.ctl => scopeOp'.sim
               /\ scopeOp'.pc = pc
    <3> HIDE DEF ctl
    <3>1. pc \in ScopeSteps
      BY <2>2, <2>7
    <3>2. scopeOp' \in ScopeCalls
      BY <1>2, <2>3, <2>7, <3>1, Zenon DEF ScopeCalls
    <3>3. /\ scopeOp'.s = scopeOp.s /\ scopeOp'.pc = pc /\ scopeOp'.ctl = ctl
          /\ scopeOp'.sim = tree.sim
          /\ SameCall(scopeOp, scopeOp') /\ SameFlags(scopeOp, scopeOp')
      BY <1>2, <2>7, <3>2 DEF ScopeCalls
    <3>4. scopeOp'.ctl => scopeOp'.sim
      BY <3>3 DEF ctl
    <3> QED
      BY <3>2, <3>3, <3>4
  <2> QED
    BY <2>2, <2>4, <2>5, <2>6, <2>7
<1>5. Busy'
  BY <1>4, CallIsBusyNext
<1>6. scopeFaults' \in Nat /\ scopeCrashes' \in Nat /\ (Blamed => Blamed')
  BY <1>1, InvParts, SameCounts DEF Counts
<1>7. Hierarchy' /\ Directories' /\ FileInv' /\ CopyInv'
  BY <1>1, <1>2, <1>4, StayKeeps
<1>8. ScopeTypeOK'
  BY <1>1, <1>4, <1>6, InvParts, TypesKept
<1>9. Owned'
  BY <1>1, <1>2, <1>4, InvParts, OwnedKept
<1>10. Stage'
  BY <1>1, <1>2, <1>3, <1>4, <1>5, <1>6 DEF Stage
<1>11. Agree'
  BY <1>1, <1>2, <1>3, <1>4, <1>5, <1>6 DEF Agree
<1>12. Building'
  BY <1>1, <1>2, <1>3, <1>4, <1>5, <1>6 DEF Building
<1>13. Undone'
  BY <1>1, <1>2, <1>3, <1>4, <1>5, <1>6 DEF Undone
<1>14. Unused'
  BY <1>1, <1>2, <1>3, <1>4, <1>5, <1>6 DEF Unused
<1>15. Recorded'
  BY <1>4, <1>5, RecordedKept
<1>16. Refusals'
  BY <1>1, <1>2, <1>3, <1>4, <1>5, <1>6 DEF Refusals
<1> QED
  BY <1>7, <1>8, <1>9, <1>10, <1>11, <1>12, <1>13, <1>14, <1>15, <1>16
    DEF ScopeInv

\* The run that has left is forgotten; after the last one the host is
\* restored.
LEMMA RecordRemovalKeeps ==
  ASSUME ScopeInv, RecordRemoval
  PROVE  ScopeInv'
<1>1. /\ scopeOp.pc = "wrRemoved"
      /\ UNCHANGED <<tree, runState, runOwner, orphans>>
  BY DEF RecordRemoval, At, Runs3, Counts
<1>2. Busy /\ scopeOp \in ScopeCalls
  BY <1>1, InvParts, BusyCall
<1>3. /\ scopeFile # NoScope /\ Good(scopeFile, tree, orphans, runState)
      /\ scopeOp.s \in ScopeStates /\ Good(scopeOp.s, tree, orphans, runState)
      /\ scopeOp.s # NoScope /\ scopeFile = scopeOp.s
      /\ scopeOp.kind \in {"remove", "stale"}
      /\ runState[scopeOp.run] \in {"leaving", "stale"}
      /\ ~scopeOp.attempted /\ ~scopeOp.published
      /\ ~scopeOp.rolling /\ ~scopeOp.made
      /\ scopeOp.ctl => scopeOp.sim
      /\ scopeOp.run \in Runs /\ scopeOp.run \notin tree.runs
  BY <1>1, <1>2, InvParts, CallTypes, ScopeIsSome, ScopeAssumption DEF Stage,
     Agree, Building, Undone, Unused, Refusals, CopyInv, Owned, FileInv
<1> DEFINE s == [scopeOp.s EXCEPT
                  !.active = @ \ {scopeOp.run}, !.bound = @ \ {scopeOp.run},
                  !.pending = IF @ = scopeOp.run THEN NoRun ELSE @,
                  !.created = IF scopeOp.s.pending = scopeOp.run THEN FALSE
                              ELSE @]
<1>4. /\ s \in ScopeStates /\ s # NoScope
      /\ SameShared(scopeOp.s, s)
      /\ s.active = scopeOp.s.active \ {scopeOp.run}
      /\ s.bound = scopeOp.s.bound \ {scopeOp.run}
      /\ scopeOp.s.pending = scopeOp.run => s.pending = NoRun /\ ~s.created
      /\ scopeOp.s.pending # scopeOp.run =>
            /\ s.pending = scopeOp.s.pending
            /\ (s.created <=> scopeOp.s.created)
  <2> DEFINE a == scopeOp.s.active \ {scopeOp.run}
             b == scopeOp.s.bound \ {scopeOp.run}
             p == IF scopeOp.s.pending = scopeOp.run THEN NoRun
                  ELSE scopeOp.s.pending
             c == IF scopeOp.s.pending = scopeOp.run THEN FALSE
                  ELSE scopeOp.s.created
  <2>1. /\ a \in SUBSET Runs /\ b \in SUBSET Runs
        /\ p \in Runs \cup {NoRun} /\ c \in BOOLEAN
    BY <1>3 DEF ScopeStates
  <2>2. s = [scopeOp.s EXCEPT !.active = a, !.bound = b, !.pending = p,
                              !.created = c]
    BY DEF s
  <2> HIDE DEF s, a, b, p, c
  <2>3. s \in ScopeStates
    BY <1>3, <2>1, <2>2, Zenon DEF ScopeStates
  <2>4. /\ SameShared(scopeOp.s, s) /\ s.active = a /\ s.bound = b
        /\ s.pending = p /\ s.created = c
    BY <1>3, <2>2, <2>3 DEF ScopeStates
  <2>5. /\ scopeOp.s.pending = scopeOp.run => p = NoRun /\ c = FALSE
        /\ scopeOp.s.pending # scopeOp.run =>
              p = scopeOp.s.pending /\ c = scopeOp.s.created
    BY DEF p, c
  <2> QED
    BY <2>3, <2>4, <2>5, ScopeIsSome DEF a, b
<1> HIDE DEF s
<1>5. /\ scopeOp' \in ScopeCalls /\ scopeOp'.s = s
      /\ scopeFaults' \in Nat /\ scopeCrashes' \in Nat
      /\ Blamed => Blamed'
      /\ \/ scopeFile' = s /\ Moved(scopeOp, scopeOp', "ok")
         \/ scopeFile' = s /\ Moved(scopeOp, scopeOp', "restoreThenOk")
         \/ /\ scopeFile' \in {scopeFile, s}
            /\ Moved(scopeOp, scopeOp', "failed")
  <2> DEFINE pc == IF InUse(s) THEN "ok" ELSE "restoreThenOk"
  <2>1. WriteScope(s, pc)
    BY DEF RecordRemoval, s
  <2>2. pc \in ScopeSteps /\ pc \in {"ok", "restoreThenOk"}
    BY DEF ScopeSteps
  <2>3. Handler = "failed"
    BY <1>3, HandlerSteps
  <2> HIDE DEF pc
  <2> QED
    BY <1>1, <1>2, <1>4, <2>1, <2>2, <2>3, InvParts, WriteCall DEF Runs3
<1>6. Busy'
  BY <1>5, CallIsBusyNext
<1>7. Good(s, tree, orphans, runState)
  BY <1>1, <1>2, <1>3, <1>4, InvParts, ScopeAssumption, ScopeTypes DEF Good,
     Consistent, Matches, Lists, InUse
<1>8. Hierarchy' /\ Directories' /\ FileInv' /\ CopyInv'
  BY <1>1, <1>3, <1>4, <1>5, <1>6, <1>7, WriteKeeps
<1>9. ScopeTypeOK'
  BY <1>1, <1>3, <1>4, <1>5, InvParts, TypesKept
<1>10. Owned'
  BY <1>1, <1>2, <1>5, InvParts, OwnedKept
<1>11. Stage'
  BY <1>1, <1>2, <1>3, <1>4, <1>5, <1>6, <1>7 DEF Stage
<1>12. Agree'
  BY <1>1, <1>2, <1>3, <1>4, <1>5, <1>6, <1>7 DEF Agree
<1>13. Building'
  BY <1>1, <1>2, <1>3, <1>4, <1>5, <1>6, <1>7 DEF Building
<1>14. Undone'
  BY <1>1, <1>2, <1>3, <1>4, <1>5, <1>6, <1>7 DEF Undone
<1>15. Unused'
  BY <1>1, <1>2, <1>3, <1>4, <1>5, <1>6, <1>7 DEF Unused
<1>16. Recorded'
  BY <1>1, <1>3, <1>4, <1>5, <1>6, RecordedKept
<1>17. Refusals'
  BY <1>1, <1>2, <1>3, <1>4, <1>5, <1>6, <1>7 DEF Refusals
<1> QED
  BY <1>8, <1>9, <1>10, <1>11, <1>12, <1>13, <1>14, <1>15, <1>16, <1>17
    DEF ScopeInv

\* The directory of the run is made; a call that fails may leave an orphan.
LEMMA MakeRunKeeps ==
  ASSUME ScopeInv, MakeRun
  PROVE  ScopeInv'
<1>1. /\ scopeOp.pc = "mkRun"
      /\ UNCHANGED <<scopeFile, runState, runOwner>>
  BY DEF MakeRun, At, Runs3, Counts
<1>2. Busy /\ scopeOp \in ScopeCalls
  BY <1>1, InvParts, BusyCall
<1>3. /\ scopeOp.s \in ScopeStates /\ scopeFile = scopeOp.s
      /\ scopeFile # NoScope /\ Good(scopeOp.s, tree, orphans, runState)
      /\ scopeOp.kind = "prepare" /\ runState[scopeOp.run] = "preparing"
      /\ scopeOp.run \in Runs /\ scopeOp.run # NoRun
      /\ scopeOp.attempted /\ ~scopeOp.rolling
      /\ scopeOp.s.sim /\ scopeOp.s.ctl /\ ~scopeOp.s.ready
      /\ scopeOp.s.pending = scopeOp.run
      /\ tree.simOn \/ orphans # {}
      /\ scopeOp.ctl => scopeOp.sim
      /\ scopeOp.refused => Blamed
      /\ Good(scopeFile, tree, orphans, runState)
      /\ ~scopeOp.made /\ scopeOp.run \notin tree.runs
  BY <1>1, <1>2, InvParts, CallTypes, ScopeIsSome, ScopeAssumption DEF Stage,
     Agree, Building, Undone, Unused, Refusals, CopyInv, Owned, FileInv
<1> DEFINE t == [tree EXCEPT !.runs = @ \cup {scopeOp.run}]
<1>4. /\ t \in TreeType /\ t.enabled \subseteq t.runs
      /\ t.runs = tree.runs \cup {scopeOp.run} /\ t.enabled = tree.enabled
      /\ SameDirs(tree, t) /\ SameRoot(tree, t)
  <2> DEFINE rs == tree.runs \cup {scopeOp.run}
  <2>1. rs \in SUBSET Runs /\ tree.enabled \subseteq rs
    BY <1>3, InvParts
  <2>2. t = [tree EXCEPT !.runs = rs]
    BY DEF t
  <2> HIDE DEF t, rs
  <2>3. /\ t \in TreeType /\ t.runs = rs /\ t.enabled = tree.enabled
        /\ SameDirs(tree, t) /\ SameRoot(tree, t)
    BY <2>1, <2>2, InvParts, TreeMake
  <2> QED
    BY <2>1, <2>3 DEF rs
<1> HIDE DEF t
<1>5. /\ scopeOp' \in ScopeCalls /\ scopeOp'.s = scopeOp.s
      /\ SameCall(scopeOp, scopeOp') /\ SameHold(scopeOp, scopeOp')
      /\ scopeOp'.attempted /\ ~scopeOp'.rolling
      /\ (scopeOp'.refused <=> scopeOp.refused)
      /\ scopeFaults' \in Nat /\ scopeCrashes' \in Nat
      /\ (Blamed => Blamed') /\ orphans \subseteq orphans'
      /\ \/ /\ tree' = t /\ orphans' = orphans
            /\ scopeOp'.made /\ scopeOp'.pc = "wrCreated"
         \/ /\ tree' = tree /\ orphans' = orphans /\ Blamed'
            /\ scopeOp'.pc = "rollback"
         \/ /\ tree' = t /\ scopeOp.run \in orphans' /\ Blamed'
            /\ scopeOp'.pc = "rollback"
  <2>1. "wrCreated" \in ScopeSteps /\ "rollback" \in ScopeSteps
    BY DEF ScopeSteps
  <2>2. CASE /\ tree' = t /\ UNCHANGED <<orphans, Counts>>
             /\ scopeOp' = [scopeOp EXCEPT !.made = TRUE, !.pc = "wrCreated"]
    <3>1. scopeOp' \in ScopeCalls
      BY <1>2, <2>1, <2>2, Zenon DEF ScopeCalls
    <3>2. /\ scopeOp'.s = scopeOp.s /\ scopeOp'.pc = "wrCreated"
          /\ SameCall(scopeOp, scopeOp') /\ SameHold(scopeOp, scopeOp')
          /\ (scopeOp'.attempted <=> scopeOp.attempted) /\ scopeOp'.made
          /\ (scopeOp'.rolling <=> scopeOp.rolling)
          /\ (scopeOp'.refused <=> scopeOp.refused)
      BY <1>2, <2>2, <3>1 DEF ScopeCalls
    <3> QED
      BY <1>3, <2>2, <3>1, <3>2, InvParts, SameCounts
  <2>3. CASE /\ Throw /\ Goto("rollback")
             /\ \/ UNCHANGED <<tree, orphans>>
                \/ tree' = t /\ orphans' = orphans \cup {scopeOp.run}
    <3>1. /\ scopeOp' \in ScopeCalls /\ scopeOp'.s = scopeOp.s
          /\ Moved(scopeOp, scopeOp', "rollback")
      BY <1>2, <2>1, <2>3, GotoCall
    <3>2. scopeFaults' \in Nat /\ scopeCrashes' \in Nat /\ Blamed'
      BY <2>3, InvParts, ThrowCounts
    <3> QED
      BY <1>3, <2>3, <3>1, <3>2
  <2> QED
    BY <1>3, <2>2, <2>3 DEF MakeRun, t
<1>6. Busy'
  BY <1>5, CallIsBusyNext
<1>7. /\ Good(scopeOp.s, t, orphans, runState)
      /\ Ordered(t) /\ Placed(t, runState)
  <2>1. Good(scopeOp.s, t, orphans, runState)
    BY <1>3, <1>4 DEF Good, Matches, Lists
  <2>2. Ordered(t) /\ Placed(t, runState)
    BY <1>3, <1>4, InvParts DEF Hierarchy, Directories, Ordered, Placed
  <2> QED
    BY <2>1, <2>2
<1>8. Hierarchy' /\ Directories' /\ FileInv' /\ CopyInv'
  <2>1. CASE tree' = tree /\ orphans' = orphans
    BY <1>1, <1>2, <1>5, <2>1, StayKeeps
  <2>2. CASE tree' = t
    <3>1. Good(scopeOp.s, t, orphans', runState)
      BY <1>5, <1>7, GoodOrphans
    <3>2. Hierarchy' /\ Directories'
      BY <1>1, <1>7, <2>2 DEF Hierarchy, Directories
    <3> QED
      BY <1>1, <1>3, <1>5, <2>2, <3>1, <3>2 DEF FileInv, CopyInv
  <2> QED
    BY <1>5, <2>1, <2>2
<1>9. ScopeTypeOK'
  BY <1>1, <1>3, <1>4, <1>5, InvParts, TypesKept
<1>10. Owned'
  BY <1>1, <1>2, <1>5, InvParts, OwnedKept
<1>11. Stage'
  BY <1>1, <1>2, <1>3, <1>4, <1>5, <1>6 DEF Stage
<1>12. Agree'
  BY <1>1, <1>2, <1>3, <1>4, <1>5, <1>6 DEF Agree
<1>13. Building'
  BY <1>1, <1>2, <1>3, <1>4, <1>5, <1>6 DEF Building
<1>14. Undone'
  BY <1>1, <1>2, <1>3, <1>4, <1>5, <1>6 DEF Undone
<1>15. Unused'
  BY <1>1, <1>2, <1>3, <1>4, <1>5, <1>6 DEF Unused
<1>16. Recorded'
  BY <1>5, <1>6, RecordedKept
<1>17. Refusals'
  BY <1>1, <1>2, <1>3, <1>4, <1>5, <1>6 DEF Refusals
<1> QED
  BY <1>8, <1>9, <1>10, <1>11, <1>12, <1>13, <1>14, <1>15, <1>16, <1>17
    DEF ScopeInv

-----------------------------------------------------------------------------
(* Taking and leaving the lock, and crashes.                               *)

\* A state while runs are begun, prepared or given up.
LEMMA GoodStates ==
  ASSUME NEW s, NEW t, NEW os, NEW rs, NEW ns, Good(s, t, os, rs),
         \A r \in Runs :
            /\ ns[r] = "prepared" => rs[r] = "prepared" \/ r \in s.active
            /\ ns[r] = "new" => rs[r] = "new"
  PROVE  Good(s, t, os, ns)
BY DEF Good, Lists

\* The types of the state when the lock is free.
LEMMA TypesKeptFree ==
  ASSUME ScopeTypeOK, UNCHANGED <<scopeFile, tree>>, scopeOp' = NoOp,
         runState' \in [Runs -> {"new", "preparing", "prepared", "leaving",
                                 "stale", "removed"}],
         runOwner' \in [Runs -> Simulators \cup {NoSimulator}],
         scopeFaults' \in Nat, scopeCrashes' \in Nat
  PROVE  ScopeTypeOK'
BY DEF ScopeTypeOK

\* A call that ends or dies leaves the file and the hierarchy in order: what
\* it has made and not recorded is an orphan, and a run counts as prepared
\* only with its directory, its controllers and its line in the file.
LEMMA LeaveKeeps ==
  ASSUME ScopeInv, scopeOp' = NoOp, UNCHANGED <<scopeFile, tree>>,
         orphans' = orphans \cup Unrecorded, ScopeTypeOK',
         \A r \in Runs :
            /\ runState'[r] = "prepared" =>
                  \/ runState[r] = "prepared"
                  \/ /\ scopeFile # NoScope /\ r \in scopeFile.active
                     /\ r \in tree.runs /\ r \in tree.enabled /\ tree.simOn
            /\ runState'[r] = "new" => runState[r] = "new"
  PROVE  ScopeInv'
<1>1. ~Busy'
  BY DEF Busy, NoOp
<1>2. Hierarchy /\ Directories /\ FileInv
  BY InvParts
<1>3. Hierarchy' /\ Directories'
  BY <1>2 DEF Hierarchy, Directories, Placed
<1>4. FileInv'
  <2>1. CASE scopeFile # NoScope
    <3>1. Good(scopeFile, tree, orphans', runState)
      BY <1>2, <2>1, GoodOrphans DEF FileInv
    <3>2. Good(scopeFile, tree, orphans', runState')
      BY <3>1, <2>1, GoodStates
    <3> QED
      BY <3>2, <2>1 DEF FileInv
  <2>2. CASE scopeFile = NoScope
    BY <1>2, <2>2 DEF FileInv, Empty
  <2> QED
    BY <2>1, <2>2
<1>5. Recorded'
  <2>1. Unrecorded' = Unrecorded
    BY DEF Unrecorded
  <2> QED
    BY <2>1 DEF Recorded
<1>6. /\ CopyInv' /\ Owned' /\ Stage' /\ Agree' /\ Building' /\ Undone'
      /\ Unused' /\ Refusals'
  BY <1>1 DEF CopyInv, Owned, Stage, Agree, Building, Undone, Unused, Refusals
<1> QED
  BY <1>3, <1>4, <1>5, <1>6 DEF ScopeInv

\* EndScopeCall: only a preparation that went through makes a run prepared.
LEMMA EndScopeCallKeeps ==
  ASSUME ScopeInv, EndScopeCall
  PROVE  ScopeInv'
<1> DEFINE r == scopeOp.run
<1>1. ScopeTypeOK /\ Building
  BY InvParts
<1>2. Busy
  <2>1. scopeOp.pc # "idle"
    BY DEF EndScopeCall
  <2> QED
    BY <2>1 DEF Busy, NoOp
<1>3. scopeOp \in ScopeCalls
  BY <1>1, <1>2, BusyCall
<1>4. r \in Runs /\ scopeOp.kind \in {"prepare", "remove", "stale"}
  BY <1>3, CallTypes
<1>5. runState \in [Runs -> {"new", "preparing", "prepared", "leaving",
                             "stale", "removed"}]
      /\ runOwner \in [Runs -> Simulators \cup {NoSimulator}]
  BY <1>1 DEF ScopeTypeOK
<1>6. /\ scopeOp' = NoOp /\ UNCHANGED <<scopeFile, tree, Counts>>
      /\ orphans' = orphans \cup Unrecorded
  BY DEF EndScopeCall
<1>7. PICK x \in {"prepared", "removed", "stale", runState[r]} :
         /\ runState' = [runState EXCEPT ![r] = x]
         /\ x = "prepared" =>
               \/ scopeOp.pc = "ok" /\ scopeOp.kind = "prepare"
               \/ x = runState[r]
  <2>1. CASE scopeOp.pc = "ok" /\ scopeOp.kind = "prepare"
    BY <2>1 DEF EndScopeCall, At
  <2>2. CASE scopeOp.pc = "ok" /\ scopeOp.kind # "prepare"
    BY <2>2 DEF EndScopeCall, At
  <2>3. CASE scopeOp.pc # "ok" /\ scopeOp.kind = "prepare"
    BY <2>3 DEF EndScopeCall, At
  <2>4. CASE scopeOp.pc # "ok" /\ scopeOp.kind # "prepare"
    BY <2>4 DEF EndScopeCall, At
  <2> QED
    BY <2>1, <2>2, <2>3, <2>4
<1>8. \/ runOwner' = runOwner
      \/ runOwner' = [runOwner EXCEPT ![r] = NoSimulator]
  BY DEF EndScopeCall
<1>9. ScopeTypeOK'
  <2>1. runState' \in [Runs -> {"new", "preparing", "prepared", "leaving",
                                "stale", "removed"}]
    BY <1>4, <1>5, <1>7
  <2>2. runOwner' \in [Runs -> Simulators \cup {NoSimulator}]
    BY <1>4, <1>5, <1>8
  <2>3. scopeFaults' \in Nat /\ scopeCrashes' \in Nat
    BY <1>1, <1>6 DEF ScopeTypeOK, Counts
  <2> QED
    BY <1>1, <1>6, <2>1, <2>2, <2>3, TypesKeptFree
<1>10. ASSUME scopeOp.pc = "ok" /\ scopeOp.kind = "prepare"
       PROVE  /\ scopeFile # NoScope /\ r \in scopeFile.active
              /\ r \in tree.runs /\ r \in tree.enabled /\ tree.simOn
  <2>1. tree.enabled \subseteq tree.runs
    BY InvParts
  <2> QED
    BY <1>1, <1>2, <1>10, <2>1 DEF Building
<1>11. ASSUME NEW q \in Runs
       PROVE  /\ runState'[q] = "prepared" =>
                    \/ runState[q] = "prepared"
                    \/ /\ scopeFile # NoScope /\ q \in scopeFile.active
                       /\ q \in tree.runs /\ q \in tree.enabled /\ tree.simOn
              /\ runState'[q] = "new" => runState[q] = "new"
  <2>1. CASE q # r
    BY <1>5, <1>7, <2>1
  <2>2. CASE q = r
    <3>1. runState'[q] = x
      BY <1>5, <1>7, <2>2
    <3> QED
      BY <1>7, <1>10, <2>2, <3>1
  <2> QED
    BY <2>1, <2>2
<1> QED
  BY <1>6, <1>9, <1>11, LeaveKeeps

\* What only depends on the file, the hierarchy and the call stays as it is
\* while these do.
LEMMA StillKeeps ==
  ASSUME ScopeInv,
         UNCHANGED <<scopeFile, tree, scopeOp, orphans, scopeFaults>>
  PROVE  /\ Hierarchy' /\ Stage' /\ Agree' /\ Building' /\ Undone'
         /\ Unused' /\ Recorded' /\ Refusals'
<1>1. /\ Hierarchy /\ Stage /\ Agree /\ Building /\ Undone
      /\ Unused /\ Recorded /\ Refusals
  BY InvParts
<1>2. Hierarchy' /\ Stage' /\ Agree'
  BY <1>1 DEF Hierarchy, Stage, Agree, Busy
<1>3. Building'
  BY <1>1 DEF Building, Busy
<1>4. Undone'
  BY <1>1 DEF Undone, Busy
<1>5. Unused'
  BY <1>1 DEF Unused, Busy
<1>6. Recorded' /\ Refusals'
  BY <1>1 DEF Recorded, Unrecorded, Refusals, Blamed, Busy
<1> QED
  BY <1>2, <1>3, <1>4, <1>5, <1>6

\* A step that changes nothing.
LEMMA StutterKeeps ==
  ASSUME ScopeInv, UNCHANGED scopeVars
  PROVE  ScopeInv'
<1>1. ScopeTypeOK /\ Directories /\ FileInv /\ CopyInv /\ Owned
  BY InvParts
<1>2. UNCHANGED <<scopeFile, tree, scopeOp, runState, runOwner, orphans,
                  scopeFaults, scopeCrashes>>
  BY DEF scopeVars
<1>3. ScopeTypeOK'
  BY <1>1, <1>2 DEF ScopeTypeOK
<1>4. Directories' /\ FileInv' /\ CopyInv' /\ Owned'
  BY <1>1, <1>2 DEF Directories, FileInv, CopyInv, Owned, Busy
<1> QED
  BY <1>2, <1>3, <1>4, StillKeeps DEF ScopeInv

\* ScopeCrash: the lock of the dead simulator is dropped and its runs become
\* stale; the call of another one goes on.
LEMMA ScopeCrashKeeps ==
  ASSUME ScopeInv, NEW p \in Simulators, ScopeCrash(p)
  PROVE  ScopeInv'
<1>1. ScopeTypeOK /\ Directories /\ FileInv /\ CopyInv /\ Owned
  BY InvParts
<1>2. runState \in [Runs -> {"new", "preparing", "prepared", "leaving",
                             "stale", "removed"}]
      /\ runOwner \in [Runs -> Simulators \cup {NoSimulator}]
  BY <1>1 DEF ScopeTypeOK
<1>3. /\ runState' = [r \in Runs |->
             IF runOwner[r] = p THEN "stale" ELSE runState[r]]
      /\ runOwner' = [r \in Runs |->
             IF runOwner[r] = p THEN NoSimulator ELSE runOwner[r]]
      /\ UNCHANGED <<scopeFile, tree, scopeFaults>>
      /\ scopeCrashes' = scopeCrashes + 1
  BY DEF ScopeCrash
<1>4. /\ runState' \in [Runs -> {"new", "preparing", "prepared", "leaving",
                                 "stale", "removed"}]
      /\ runOwner' \in [Runs -> Simulators \cup {NoSimulator}]
  BY <1>2, <1>3
<1>5. scopeFaults' \in Nat /\ scopeCrashes' \in Nat
  BY <1>1, <1>3 DEF ScopeTypeOK
<1>6. \A r \in Runs :
         /\ runState'[r] = "prepared" => runState[r] = "prepared"
         /\ runState'[r] = "new" => runState[r] = "new"
  BY <1>3
<1>7. CASE scopeOp # NoOp /\ scopeOp.by = p
  <2>1. scopeOp' = NoOp /\ orphans' = orphans \cup Unrecorded
    BY <1>7 DEF ScopeCrash
  <2>2. ScopeTypeOK'
    BY <1>1, <1>3, <1>4, <1>5, <2>1, TypesKeptFree
  <2> QED
    BY <1>3, <1>6, <2>1, <2>2, LeaveKeeps
<1>8. CASE ~(scopeOp # NoOp /\ scopeOp.by = p)
  <2>1. scopeOp' = scopeOp /\ orphans' = orphans
    BY <1>8 DEF ScopeCrash
  <2>2. ScopeTypeOK'
    BY <1>1, <1>3, <1>4, <1>5, <2>1 DEF ScopeTypeOK
  <2>3. Directories'
    BY <1>1, <1>3, <1>6 DEF Directories, Placed
  <2>4. FileInv'
    <3>1. CASE scopeFile # NoScope
      <4>1. Good(scopeFile, tree, orphans, runState')
        BY <1>1, <1>6, <3>1, GoodStates DEF FileInv
      <4> QED
        BY <1>3, <2>1, <3>1, <4>1 DEF FileInv
    <3>2. CASE scopeFile = NoScope
      BY <1>1, <1>3, <1>6, <2>1, <3>2 DEF FileInv, Empty
    <3> QED
      BY <3>1, <3>2
  <2>5. CopyInv'
    <3>1. CASE ~Busy
      BY <2>1, <3>1 DEF CopyInv, Busy
    <3>2. CASE Busy /\ scopeOp.s # NoScope
      <4>1. Good(scopeOp.s, tree, orphans, runState')
        BY <1>1, <1>6, <3>2, GoodStates DEF CopyInv
      <4> QED
        BY <1>3, <2>1, <3>2, <4>1 DEF CopyInv
    <3>3. CASE Busy /\ scopeOp.s = NoScope
      BY <1>1, <1>3, <1>6, <2>1, <3>3 DEF CopyInv, Empty
    <3> QED
      BY <3>1, <3>2, <3>3
  <2>6. Owned'
    <3>1. CASE ~Busy
      BY <2>1, <3>1 DEF Owned, Busy
    <3>2. CASE Busy
      <4>1. scopeOp.by # p
        BY <1>8, <3>2 DEF Busy
      <4>2. scopeOp.run \in Runs
            /\ scopeOp.kind \in {"prepare", "remove", "stale"}
        BY <1>1, <3>2, BusyCall, CallTypes
      <4> QED
        BY <1>1, <1>3, <2>1, <3>2, <4>1, <4>2 DEF Owned
    <3> QED
      BY <3>1, <3>2
  <2> QED
    BY <1>3, <2>1, <2>2, <2>3, <2>4, <2>5, <2>6, StillKeeps DEF ScopeInv
<1> QED
  BY <1>7, <1>8

\* CgroupScopeLock: a call that takes the lock finds the file in order, and
\* has nothing of its own yet.
LEMMA LockKeeps ==
  ASSUME ScopeInv, NEW p \in Simulators, NEW r \in Runs,
         NEW k \in {"prepare", "remove", "stale"}, LockScope(p, k, r),
         UNCHANGED <<scopeFile, tree, orphans, Counts>>,
         runState' \in [Runs -> {"new", "preparing", "prepared", "leaving",
                                 "stale", "removed"}],
         runOwner' \in [Runs -> Simulators \cup {NoSimulator}],
         \A q \in Runs :
            /\ runState'[q] = "prepared" => runState[q] = "prepared"
            /\ runState'[q] = "new" => runState[q] = "new",
         k = "prepare" => runState[r] = "new" /\ runState'[r] = "preparing",
         k = "remove" => runState'[r] = "leaving",
         k = "stale" => runState'[r] = "stale",
         k # "stale" => runOwner'[r] = p
  PROVE  ScopeInv'
<1>1. /\ ScopeTypeOK /\ Hierarchy /\ Directories /\ FileInv /\ Recorded
      /\ scopeFile \in ScopeStates \cup {NoScope}
  BY InvParts
<1>2. ~Busy
  BY DEF LockScope, Busy
<1>3. scopeOp' = [pc |-> k, by |-> p, kind |-> k, run |-> r,
                  s |-> scopeFile, sim |-> FALSE, ctl |-> FALSE,
                  made |-> FALSE, attempted |-> FALSE, published |-> FALSE,
                  rolling |-> FALSE, then |-> "none", refused |-> FALSE]
  BY DEF LockScope
<1>4. scopeOp' \in ScopeCalls
  <2>1. k \in ScopeSteps
    BY DEF ScopeSteps
  <2> QED
    BY <1>1, <1>3, <2>1 DEF ScopeCalls
<1>5. /\ scopeOp'.pc = k /\ scopeOp'.kind = k /\ scopeOp'.run = r
      /\ scopeOp'.by = p /\ scopeOp'.s = scopeFile
      /\ ~scopeOp'.sim /\ ~scopeOp'.ctl /\ ~scopeOp'.made
      /\ ~scopeOp'.attempted /\ ~scopeOp'.published /\ ~scopeOp'.rolling
      /\ ~scopeOp'.refused
  BY <1>3
<1>6. Busy'
  BY <1>4, CallIsBusyNext
<1>7. ScopeTypeOK'
  BY <1>1, <1>4 DEF ScopeTypeOK, Counts
<1>8. Hierarchy' /\ Directories'
  BY <1>1 DEF Hierarchy, Directories, Placed
<1>9. FileInv' /\ CopyInv'
  <2>1. CASE scopeFile # NoScope
    <3>1. Good(scopeFile, tree, orphans, runState')
      BY <1>1, <2>1, GoodStates DEF FileInv
    <3> QED
      BY <1>5, <2>1, <3>1 DEF FileInv, CopyInv
  <2>2. CASE scopeFile = NoScope
    BY <1>1, <1>5, <2>2 DEF FileInv, CopyInv, Empty
  <2> QED
    BY <2>1, <2>2
<1>10. Owned'
  BY <1>5 DEF Owned
<1>11. Stage'
  BY <1>5 DEF Stage
<1>12. Agree'
  BY <1>5 DEF Agree
<1>13. Building'
  BY <1>5 DEF Building
<1>14. Undone'
  BY <1>5 DEF Undone
<1>15. Unused'
  <2>1. ASSUME k = "prepare"
        PROVE  /\ r \notin tree.runs
               /\ scopeFile # NoScope =>
                     r \notin scopeFile.active /\ r # scopeFile.pending
    BY <1>1, <2>1 DEF Directories, Placed, FileInv, Good, Lists
  <2> QED
    BY <1>5, <2>1 DEF Unused
<1>16. Recorded'
  <2>1. Unrecorded' = Unrecorded
    BY DEF Unrecorded
  <2> QED
    BY <1>1, <1>2, <2>1 DEF Recorded
<1>17. Refusals'
  BY <1>5 DEF Refusals
<1> QED
  BY <1>7, <1>8, <1>9, <1>10, <1>11, <1>12, <1>13, <1>14, <1>15, <1>16, <1>17
     DEF ScopeInv

\* BeginPrepare: a new run is being prepared.
LEMMA BeginPrepareKeeps ==
  ASSUME ScopeInv, NEW p \in Simulators, NEW r \in Runs, BeginPrepare(p, r)
  PROVE  ScopeInv'
<1>1. /\ runState \in [Runs -> {"new", "preparing", "prepared", "leaving",
                                "stale", "removed"}]
      /\ runOwner \in [Runs -> Simulators \cup {NoSimulator}]
  BY InvParts DEF ScopeTypeOK
<1>2. /\ runState[r] = "new" /\ LockScope(p, "prepare", r)
      /\ runState' = [runState EXCEPT ![r] = "preparing"]
      /\ runOwner' = [runOwner EXCEPT ![r] = p]
      /\ UNCHANGED <<scopeFile, tree, orphans, Counts>>
  BY DEF BeginPrepare
<1>3. /\ runState' \in [Runs -> {"new", "preparing", "prepared", "leaving",
                                 "stale", "removed"}]
      /\ runOwner' \in [Runs -> Simulators \cup {NoSimulator}]
  BY <1>1, <1>2
<1>4. /\ \A q \in Runs :
            /\ runState'[q] = "prepared" => runState[q] = "prepared"
            /\ runState'[q] = "new" => runState[q] = "new"
      /\ runState'[r] = "preparing" /\ runOwner'[r] = p
  BY <1>1, <1>2
<1> QED
  BY <1>2, <1>3, <1>4, LockKeeps

\* BeginRemove: a run of this simulator is leaving.
LEMMA BeginRemoveKeeps ==
  ASSUME ScopeInv, NEW p \in Simulators, NEW r \in Runs, BeginRemove(p, r)
  PROVE  ScopeInv'
<1>1. /\ runState \in [Runs -> {"new", "preparing", "prepared", "leaving",
                                "stale", "removed"}]
      /\ runOwner \in [Runs -> Simulators \cup {NoSimulator}]
  BY InvParts DEF ScopeTypeOK
<1>2. /\ runOwner[r] = p /\ LockScope(p, "remove", r)
      /\ runState' = [runState EXCEPT ![r] = "leaving"]
      /\ runOwner' = runOwner
      /\ UNCHANGED <<scopeFile, tree, orphans, Counts>>
  BY DEF BeginRemove
<1>3. runState' \in [Runs -> {"new", "preparing", "prepared", "leaving",
                              "stale", "removed"}]
  BY <1>1, <1>2
<1>4. /\ \A q \in Runs :
            /\ runState'[q] = "prepared" => runState[q] = "prepared"
            /\ runState'[q] = "new" => runState[q] = "new"
      /\ runState'[r] = "leaving"
  BY <1>1, <1>2
<1> QED
  BY <1>1, <1>2, <1>3, <1>4, LockKeeps

\* BeginStale: a run without a live simulator is taken away.
LEMMA BeginStaleKeeps ==
  ASSUME ScopeInv, NEW p \in Simulators, NEW r \in Runs, BeginStale(p, r)
  PROVE  ScopeInv'
<1>1. /\ runState \in [Runs -> {"new", "preparing", "prepared", "leaving",
                                "stale", "removed"}]
      /\ runOwner \in [Runs -> Simulators \cup {NoSimulator}]
  BY InvParts DEF ScopeTypeOK
<1>2. /\ runState[r] = "stale" /\ LockScope(p, "stale", r)
      /\ runState' = runState /\ runOwner' = runOwner
      /\ UNCHANGED <<scopeFile, tree, orphans, Counts>>
  BY DEF BeginStale, Runs3
<1> QED
  BY <1>1, <1>2, LockKeeps

-----------------------------------------------------------------------------
(* The theorem.                                                            *)

\* The host as it is found, with or without the simulator directory.
LEMMA ScopeInitInv ==
  ASSUME ScopeInit
  PROVE  ScopeInv
<1>1. PICK found \in BOOLEAN :
         tree = [found |-> found, sim |-> found, ctl |-> FALSE,
                 rootOn |-> FALSE, simOn |-> FALSE, procs |-> "root",
                 runs |-> {}, enabled |-> {}]
  BY DEF ScopeInit
<1>2. /\ scopeFile = NoScope /\ scopeOp = NoOp /\ orphans = {}
      /\ runState = [r \in Runs |-> "new"]
      /\ runOwner = [r \in Runs |-> NoSimulator]
      /\ scopeFaults = 0 /\ scopeCrashes = 0
  BY DEF ScopeInit
<1>3. ~Busy
  BY <1>2 DEF Busy
<1>4. ScopeTypeOK
  BY <1>1, <1>2 DEF ScopeTypeOK
<1>5. Hierarchy /\ Directories /\ FileInv
  BY <1>1, <1>2 DEF Hierarchy, Ordered, Directories, Placed, FileInv, Empty
<1>6. Recorded
  BY <1>2 DEF Recorded, Unrecorded
<1>7. /\ CopyInv /\ Owned /\ Stage /\ Agree /\ Building /\ Undone
      /\ Unused /\ Refusals
  BY <1>3 DEF CopyInv, Owned, Stage, Agree, Building, Undone, Unused, Refusals
<1> QED
  BY <1>4, <1>5, <1>6, <1>7 DEF ScopeInv

\* Every step of a call keeps the invariant.
LEMMA ScopeStepKeeps ==
  ASSUME ScopeInv, ScopeStep
  PROVE  ScopeInv'
<1>1. CASE \/ LoadForPrepare \/ RemovePending \/ ForgetPending \/ SurveyRuns
           \/ PublishScope \/ MakeSimulator \/ RecordSimulator
           \/ MakeController \/ RecordController \/ MoveProcesses
  BY <1>1, LoadForPrepareKeeps, RemovePendingKeeps, ForgetPendingKeeps,
     SurveyRunsKeeps, PublishScopeKeeps, MakeSimulatorKeeps,
     RecordSimulatorKeeps, MakeControllerKeeps, RecordControllerKeeps,
     MoveProcessesKeeps
<1>2. CASE \/ ReserveRun \/ MakeRun \/ RecordRun \/ EnableRun \/ ActivateRun
           \/ RollBackRun \/ RemoveMade \/ ForgetRun \/ EndScopeCall
  BY <1>2, ReserveRunKeeps, MakeRunKeeps, RecordRunKeeps, EnableRunKeeps,
     ActivateRunKeeps, RollBackRunKeeps, RemoveMadeKeeps, ForgetRunKeeps,
     EndScopeCallKeeps
<1>3. CASE \/ BeginRestore \/ MoveProcessesBack \/ MarkRestorable
           \/ UnlinkScope \/ LoadForRemove \/ RemoveRunDirectory
           \/ RecordRemoval
  BY <1>3, BeginRestoreKeeps, MoveProcessesBackKeeps, MarkRestorableKeeps,
     UnlinkScopeKeeps, LoadForRemoveKeeps, RemoveRunDirectoryKeeps,
     RecordRemovalKeeps
<1>4. CASE EnableControllers
  <2>1. At("rootOn") \/ At("simOn")
    BY <1>4 DEF EnableControllers
  <2> QED
    BY <1>4, <2>1, EnableRootKeeps, EnableSimulatorKeeps
<1>5. CASE DisableControllers
  <2>1. At("simOff") \/ At("rootOff")
    BY <1>5 DEF DisableControllers
  <2> QED
    BY <1>5, <2>1, DisableSimulatorKeeps, DisableRootKeeps
<1>6. CASE RemoveScopeDirectories
  <2>1. At("rmCtl") \/ At("rmSim")
    BY <1>6 DEF RemoveScopeDirectories
  <2> QED
    BY <1>6, <2>1, RemoveControllerKeeps, RemoveSimulatorKeeps
<1> QED
  BY <1>1, <1>2, <1>3, <1>4, <1>5, <1>6 DEF ScopeStep

\* The invariant implies what is claimed.
LEMMA ScopeInvCorrect ==
  ASSUME ScopeInv
  PROVE  ScopeCorrect
<1>1. /\ ScopeTypeOK /\ Hierarchy /\ Directories /\ FileInv /\ Refusals
      /\ tree.runs \subseteq Runs
  BY InvParts
<1>2. PreparedRunsKeepTheirCgroup
  BY <1>1 DEF PreparedRunsKeepTheirCgroup, Hierarchy, Ordered, Directories,
              Placed
<1>3. HostIsRestored
  <2>1. ASSUME scopeFile = NoScope
        PROVE  /\ tree.runs \subseteq orphans
               /\ ~tree.ctl /\ ~tree.rootOn /\ ~tree.simOn
               /\ tree.procs = "root" /\ (tree.sim <=> tree.found)
    BY <1>1, <2>1 DEF FileInv, Empty
  <2>2. tree.sim \in BOOLEAN /\ tree.found \in BOOLEAN
    BY InvParts DEF TreeType
  <2> QED
    BY <2>1, <2>2 DEF HostIsRestored
<1>4. RunDirectoriesAreListed
  <2>1. SUFFICES ASSUME NEW r \in tree.runs \ orphans
                 PROVE  /\ scopeFile # NoScope
                        /\ r \in scopeFile.active \cup {scopeFile.pending}
    BY DEF RunDirectoriesAreListed
  <2>2. scopeFile # NoScope
    BY <1>1, <2>1 DEF FileInv, Empty
  <2> QED
    BY <1>1, <2>1, <2>2 DEF FileInv, Good, Lists
<1>5. PreparationIsRefusedOnlyByOrphans
  BY <1>1 DEF PreparationIsRefusedOnlyByOrphans, Refusals, Blamed, Busy
<1> QED
  BY <1>1, <1>2, <1>3, <1>4, <1>5 DEF ScopeCorrect

\* The cgroup scope is correct whatever simulators prepare, remove, recover,
\* fail to do or die over: a prepared run keeps its directory with its
\* controllers, the host is as it was found once no state file is left, every
\* run directory is named by the state file, and a preparation is refused only
\* after a failure or because of what a simulator that died left.
THEOREM ScopeIsCorrect == ScopeSpec => []ScopeCorrect
<1>1. ScopeInit => ScopeInv
  BY ScopeInitInv
<1>2. ScopeInv /\ [ScopeNext]_scopeVars => ScopeInv'
  <2>1. SUFFICES ASSUME ScopeInv, ScopeNext \/ UNCHANGED scopeVars
                 PROVE  ScopeInv'
    OBVIOUS
  <2>2. CASE UNCHANGED scopeVars
    BY <2>1, <2>2, StutterKeeps
  <2>3. CASE ScopeNext
    <3>1. CASE ScopeStep
      BY <2>1, <3>1, ScopeStepKeeps
    <3>2. ASSUME NEW p \in Simulators, NEW r \in Runs,
                 BeginPrepare(p, r) \/ BeginRemove(p, r) \/ BeginStale(p, r)
          PROVE  ScopeInv'
      BY <2>1, <3>2, BeginPrepareKeeps, BeginRemoveKeeps, BeginStaleKeeps
    <3>3. ASSUME NEW p \in Simulators, ScopeCrash(p)
          PROVE  ScopeInv'
      BY <2>1, <3>3, ScopeCrashKeeps
    <3> QED
      BY <2>3, <3>1, <3>2, <3>3 DEF ScopeNext
  <2> QED
    BY <2>1, <2>2, <2>3
<1>3. ScopeInv => ScopeCorrect
  BY ScopeInvCorrect
<1> QED
  BY <1>1, <1>2, <1>3, PTL DEF ScopeSpec

=============================================================================
