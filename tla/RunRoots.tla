------------------------------ MODULE RunRoots ------------------------------
(***************************************************************************)
(* The life of run directories under one benchmark root, across the        *)
(* application processes that make, run, recover and clean them:           *)
(*   - src/application_instance_lock.cpp and SimulatorApp::Run: one        *)
(*     application at a time, and recovery before anything else;           *)
(*   - src/simulator_startup_recovery.cpp: the activity record of a run;   *)
(*   - src/simulator_editor_application.cpp: launch, replay, stop, clean;  *)
(*   - src/simulator_managed_run_root.cpp, src/run_ownership.cpp: the      *)
(*     directory and its ownership marker;                                 *)
(*   - src/simulator_offline_run_cleanup.cpp and the cleanup receipts of   *)
(*     src/runtime_node_resource_manifest.cpp;                             *)
(*   - src/simulator_retained_run_registry.cpp: what is said of old runs.  *)
(*                                                                         *)
(* A directory is a record with an identity (device and inode together     *)
(* with the random resource id of its marker).  The external resources of  *)
(* a run (cgroup, interfaces, credentials) are named by that identity.     *)
(* All file work of a process is sequential, because launches and cleanups *)
(* share the transition mutex and a cleanup refuses a run in progress: the *)
(* variable job is the one piece of work under way, and a process may die  *)
(* between any two of its steps.                                           *)
(***************************************************************************)
EXTENDS Naturals, FiniteSets

CONSTANTS
    RunIds,          \* run ids, the names of run directories
    MaxRoots,        \* bound: directories ever made
    MaxStarts,       \* bound: application processes
    MaxRootFaults,   \* bound: system calls that fail
    MaxRootCrashes   \* bound: applications that die

VARIABLES
    pub,        \* the directory under each run id
    quarantine, \* directories renamed away for removal
    receipt,    \* durable cleanup receipts, per run id
    memo,       \* cleanup_receipts_ of the running application
    held,       \* identities that have external resources
    app,        \* the application process
    ctx,        \* EditorRunController::active_
    job,        \* the file work under way
    rootCount, starts, rootFaults, rootCrashes

rootVars == <<pub, quarantine, receipt, memo, held, app, ctx, job, rootCount,
              starts, rootFaults, rootCrashes>>

NoRoot == [id |-> 0, marker |-> FALSE, record |-> "none", files |-> FALSE,
           events |-> "none", summary |-> "none"]
NoReceipt == [id |-> 0, retired |-> FALSE]
NoMemo == [id |-> 0, ext |-> FALSE, complete |-> FALSE]
NoCtx == [state |-> "none", run |-> "none"]
NoJob == [pc |-> "none", kind |-> "none", run |-> "none", id |-> 0]
Down == [up |-> "down", todo |-> {}, refused |-> FALSE]

Outcomes == {"none", "finished", "cancelled", "failed"}
Roots == [id: 0..MaxRoots, marker: BOOLEAN, record: {"none", "partial", "full"},
          files: BOOLEAN, events: Outcomes, summary: Outcomes]

\* LoadRunOwnership: a directory is owned if its marker can be read and parsed.
Owned(p) == p.marker
\* InspectRunRootIdentity opens the directory without following links.
Identity(r) == pub[r].id

NewRoot == [NoRoot EXCEPT !.id = rootCount + 1]
IsTerminalEditorRunState(s) == s \in {"stopped", "failed"}

RootInit ==
    /\ pub = [r \in RunIds |-> NoRoot] /\ quarantine = {}
    /\ receipt = [r \in RunIds |-> NoReceipt] /\ memo = [r \in RunIds |-> NoMemo]
    /\ held = {} /\ app = Down /\ ctx = NoCtx /\ job = NoJob
    /\ rootCount = 0 /\ starts = 0 /\ rootFaults = 0 /\ rootCrashes = 0

----------------------------------------------------------------------------
(* Steps of the work under way *)

Doing(pc) == job.pc = pc
Then(pc) == job' = [job EXCEPT !.pc = pc]
RootFault == rootFaults < MaxRootFaults /\ rootFaults' = rootFaults + 1
NoFault == UNCHANGED rootFaults
Tallies == <<rootCount, starts, rootCrashes>>
Disk == <<pub, quarantine, receipt, held>>

\* The directory the job works on, by its name.
Here == pub[job.run]
There == {q \in quarantine : q.id = job.id}
WriteHere(root) == pub' = [pub EXCEPT ![job.run] = root] /\ UNCHANGED quarantine
Write(root) ==
    IF There = {} THEN WriteHere(root)
    ELSE quarantine' = (quarantine \ There) \cup {root} /\ UNCHANGED pub
Target == IF There = {} THEN Here ELSE CHOOSE q \in There : TRUE

\* Where the failure of a step leads.
OnFailure ==
    CASE job.kind = "recover" -> "abort"
      [] job.kind = "launch" /\ job.prepared /\ ~job.undoing -> "undo"
      [] job.kind = "launch" -> "unlaunch"
      [] OTHER -> "done"

----------------------------------------------------------------------------
(* Application processes *)

\* ApplicationInstanceLock and the start of SimulatorApp::Run.
StartApplication ==
    /\ app.up = "down" /\ starts < MaxStarts
    /\ starts' = starts + 1
    /\ app' = [up |-> "recovering", refused |-> FALSE,
               todo |-> {r \in RunIds : pub[r] # NoRoot}]
    /\ UNCHANGED <<Disk, memo, ctx, job, rootCount, rootFaults, rootCrashes>>

\* RecoverStaleRuns, one candidate: without an activity record it is kept as
\* it is; the record must be whole and the directory owned.
RecoverCandidate(r) ==
    /\ app.up = "recovering" /\ job = NoJob /\ r \in app.todo
    /\ IF pub[r].record = "none"
       THEN app' = [app EXCEPT !.todo = @ \ {r}] /\ UNCHANGED job
       ELSE IF Owned(pub[r]) /\ pub[r].record = "full"
       THEN /\ job' = [pc |-> "external", kind |-> "recover", run |-> r,
                       id |-> pub[r].id, remove |-> FALSE]
            /\ UNCHANGED app
       ELSE app' = [Down EXCEPT !.refused = TRUE] /\ UNCHANGED job
    /\ UNCHANGED <<Disk, memo, ctx, Tallies, rootFaults>>

\* RunRecoveryLease::Complete unlinks the record.
CompleteRecovery ==
    /\ Doing("complete")
    /\ \/ /\ WriteHere([Here EXCEPT !.record = "none"]) /\ NoFault
          /\ app' = [app EXCEPT !.todo = @ \ {job.run}] /\ job' = NoJob
       \/ /\ RootFault /\ UNCHANGED <<pub, quarantine, app>> /\ Then("abort")
    /\ UNCHANGED <<receipt, held, memo, ctx, Tallies>>

\* An exception of the recovery ends the start of the application.
AbortStart ==
    /\ Doing("abort")
    /\ app' = Down /\ job' = NoJob
    /\ UNCHANGED <<Disk, memo, ctx, Tallies, rootFaults>>

\* Only now does the editor, or a cleanup from the command line, begin.
FinishRecovery ==
    /\ app.up = "recovering" /\ app.todo = {} /\ job = NoJob
    /\ \/ app' = [app EXCEPT !.up = "running"] /\ UNCHANGED job
       \/ \E r \in RunIds :
             /\ Owned(pub[r])
             /\ app' = [app EXCEPT !.up = "cli"]
             /\ job' = [pc |-> "external", kind |-> "cli", run |-> r,
                        id |-> pub[r].id, remove |-> FALSE]
    /\ UNCHANGED <<Disk, memo, ctx, Tallies, rootFaults>>

\* The application ends: the controller is shut down, which stops the run and
\* waits for it, and what was only in memory is gone.
ShutDown ==
    /\ \/ /\ app.up = "running" /\ (job = NoJob \/ ctx # NoCtx)
          /\ app' = [app EXCEPT !.up = "closing"]
          /\ ctx' = IF ctx = NoCtx THEN NoCtx ELSE [ctx EXCEPT !.stop = TRUE]
          /\ UNCHANGED memo
       \/ /\ app.up = "closing" /\ job = NoJob
          /\ ctx = NoCtx \/ IsTerminalEditorRunState(ctx.state)
          /\ app' = Down /\ ctx' = NoCtx /\ memo' = [r \in RunIds |-> NoMemo]
    /\ UNCHANGED <<Disk, job, Tallies, rootFaults>>

Crash ==
    /\ app.up # "down" /\ rootCrashes < MaxRootCrashes
    /\ rootCrashes' = rootCrashes + 1
    /\ app' = Down /\ ctx' = NoCtx /\ job' = NoJob
    /\ memo' = [r \in RunIds |-> NoMemo]
    /\ UNCHANGED <<Disk, rootCount, starts, rootFaults>>

----------------------------------------------------------------------------
(* Launch and replay *)

InQuarantine(id) == \E q \in quarantine : q.id = id

\* LaunchLocked: a run id with an unfinished cleanup is not reused.
MayLaunch(r) ==
    LET d == receipt[r] m == memo[r] IN
    /\ d # NoReceipt /\ m # NoMemo => m.id = d.id
    /\ d # NoReceipt => pub[r] = NoRoot /\ ~InQuarantine(d.id)
    /\ d = NoReceipt /\ m # NoMemo =>
           pub[r] = NoRoot /\ ~InQuarantine(m.id) /\ m.complete

NewCtx(r) == [state |-> "starting", run |-> r, id |-> 0, stop |-> FALSE, kept |-> FALSE]

\* The terminal run, if any, is reaped; then the worker starts, or, for a
\* replay, the destination is reserved first.
Launch(r, replay, replace) ==
    /\ app.up = "running" /\ job = NoJob /\ rootCount < MaxRoots
    /\ ctx = NoCtx \/ IsTerminalEditorRunState(ctx.state)
    /\ MayLaunch(r)
    /\ ctx' = IF replay THEN NoCtx ELSE NewCtx(r)
    /\ job' = [pc |-> IF replay THEN "reserve" ELSE "prepare", kind |-> "launch",
               run |-> r, id |-> 0, replay |-> replay, replace |-> replace,
               prepared |-> FALSE, undoing |-> FALSE]
    /\ UNCHANGED <<Disk, memo, app, Tallies, rootFaults>>

\* ReserveManagedReplayRunRoot: a private directory is made and checked, then
\* renamed to the run id unless something is there.
Reserve ==
    /\ Doing("reserve")
    /\ IF Here # NoRoot
       THEN job' = NoJob /\ UNCHANGED <<pub, quarantine, rootCount>>
       ELSE /\ WriteHere(NewRoot) /\ rootCount' = rootCount + 1
            /\ job' = [job EXCEPT !.id = rootCount + 1, !.pc = "reserveMark"]
    /\ UNCHANGED <<receipt, held, memo, app, ctx, starts, rootCrashes, rootFaults>>

\* The marker is written and read back; the reservation's destructor removes
\* a reservation that nobody adopted.
MarkReservation ==
    /\ Doing("reserveMark")
    /\ \/ /\ WriteHere([Here EXCEPT !.marker = TRUE]) /\ NoFault
          /\ ctx' = [NewCtx(job.run) EXCEPT !.id = job.id]
          /\ job' = [job EXCEPT !.prepared = TRUE, !.pc = "populate"]
       \/ RootFault /\ WriteHere(NoRoot) /\ job' = NoJob /\ UNCHANGED ctx
    /\ UNCHANGED <<receipt, held, memo, app, Tallies>>

\* PrepareManagedRunRoot without a reservation: an existing directory is
\* refused, or replaced if the options say so and it is owned.
PrepareRoot ==
    /\ Doing("prepare")
    /\ IF Here = NoRoot
       THEN /\ WriteHere(NewRoot) /\ rootCount' = rootCount + 1
            /\ job' = [job EXCEPT !.id = rootCount + 1, !.pc = "mark"]
            /\ ctx' = [ctx EXCEPT !.id = rootCount + 1]
       ELSE /\ job' = [job EXCEPT !.id = Here.id,
                           !.pc = IF job.replace /\ Owned(Here) THEN "external"
                                  ELSE "unlaunch"]
            /\ UNCHANGED <<pub, quarantine, rootCount, ctx>>
    /\ UNCHANGED <<receipt, held, memo, app, starts, rootCrashes, rootFaults>>

\* WriteRunOwnershipMarker; nothing is taken back when it fails, because the
\* directory is not known to be prepared.
MarkRoot ==
    /\ Doing("mark")
    /\ \/ /\ WriteHere([Here EXCEPT !.marker = TRUE]) /\ NoFault
          /\ Then("populate")
       \/ RootFault /\ UNCHANGED <<pub, quarantine>> /\ Then("unlaunch")
    /\ UNCHANGED <<receipt, held, memo, app, ctx, Tallies>>

\* The log file and the nodes directory; with that the directory is prepared
\* and stays as a retained run unless the set-up fails.
PopulateRoot ==
    /\ Doing("populate")
    /\ \/ /\ WriteHere([Here EXCEPT !.files = TRUE]) /\ NoFault
          /\ job' = [job EXCEPT !.prepared = TRUE, !.pc = "lease"]
          /\ ctx' = [ctx EXCEPT !.kept = TRUE]
       \/ /\ RootFault /\ UNCHANGED <<pub, quarantine, ctx>> /\ Then(OnFailure)
    /\ UNCHANGED <<receipt, held, memo, app, Tallies>>

\* RunRecoveryLease: the activity record is created and locked...
CreateRecord ==
    /\ Doing("lease")
    /\ \/ WriteHere([Here EXCEPT !.record = "partial"]) /\ NoFault /\ Then("writeRecord")
       \/ RootFault /\ UNCHANGED <<pub, quarantine>> /\ Then("undo")
    /\ UNCHANGED <<receipt, held, memo, app, ctx, Tallies>>

\* ... and then written.
WriteRecord ==
    /\ Doing("writeRecord")
    /\ \/ WriteHere([Here EXCEPT !.record = "full"]) /\ NoFault /\ Then("retire")
       \/ RootFault /\ UNCHANGED <<pub, quarantine>> /\ Then("undo")
    /\ UNCHANGED <<receipt, held, memo, app, ctx, Tallies>>

\* run_root_prepared: the receipt of the previous owner of the run id is
\* renamed, which is the commit point, and removed.
RetireReceipt ==
    /\ Doing("retire")
    /\ LET d == receipt[job.run] IN
       IF d = NoReceipt
       THEN Then("forget") /\ UNCHANGED receipt /\ NoFault
       ELSE IF ~d.retired
       THEN \/ /\ receipt' = [receipt EXCEPT ![job.run].retired = TRUE]
               /\ NoFault /\ UNCHANGED job
            \/ RootFault /\ UNCHANGED receipt /\ Then("undo")
       ELSE \/ /\ receipt' = [receipt EXCEPT ![job.run] = NoReceipt]
               /\ NoFault /\ Then("forget")
            \/ RootFault /\ UNCHANGED receipt /\ Then("undo")
    /\ UNCHANGED <<pub, quarantine, held, memo, app, ctx, Tallies>>

\* The scenario is written; a stop that came meanwhile undoes the launch.
WriteScenario ==
    /\ Doing("forget")
    /\ memo' = [memo EXCEPT ![job.run] = NoMemo]
    /\ IF ctx.stop THEN Then("undo") ELSE job' = NoJob
    /\ UNCHANGED <<Disk, app, ctx, Tallies, rootFaults>>

\* The handler of RunPreparedBenchmark calls RemovePreparedRunRoot.
UndoLaunch ==
    /\ Doing("undo")
    /\ job' = [job EXCEPT !.undoing = TRUE,
                   !.pc = IF job.replay THEN "capture" ELSE "empty"]
    /\ UNCHANGED <<Disk, memo, app, ctx, Tallies, rootFaults>>

\* The worker ends without a run: cancelled only if everything was undone.
EndLaunch ==
    /\ Doing("unlaunch")
    /\ ctx' = [ctx EXCEPT !.state = IF ctx.stop /\ ~ctx.kept THEN "stopped" ELSE "failed"]
    /\ job' = NoJob
    /\ IF ctx.kept /\ Here.id = ctx.id /\ Owned(Here)
       THEN WriteHere([Here EXCEPT !.summary = "failed"])
       ELSE UNCHANGED <<pub, quarantine>>
    /\ UNCHANGED <<receipt, held, memo, app, Tallies, rootFaults>>

----------------------------------------------------------------------------
(* The run *)

Running == job = NoJob /\ ctx.state \in {"starting", "active", "stopping"}
RunRoot == pub[ctx.run]
WriteRun(root) == pub' = [pub EXCEPT ![ctx.run] = root] /\ UNCHANGED quarantine

\* The benchmark acquires its resources, and reports that it has started.
AcquireResources ==
    /\ Running /\ ctx.id \notin held /\ RunRoot.events = "none"
    /\ held' = held \cup {ctx.id}
    /\ ctx' = [ctx EXCEPT !.state = IF @ = "starting" THEN "active" ELSE @]
    /\ UNCHANGED <<pub, quarantine, receipt, memo, app, job, Tallies, rootFaults>>

\* StopRun and RequestHostedStop.
StopRun ==
    /\ ctx.state \in {"starting", "active"} /\ ~ctx.stop
    /\ ctx' = [ctx EXCEPT !.stop = TRUE, !.state = "stopping"]
    /\ UNCHANGED <<Disk, memo, app, job, Tallies, rootFaults>>

\* The benchmark returns, with its resources released...
FinishRun ==
    /\ Running /\ RunRoot.events = "none"
    /\ held' = held \ {ctx.id}
    /\ \E o \in {"finished"} \cup (IF ctx.stop THEN {"cancelled"} ELSE {}) :
          WriteRun([RunRoot EXCEPT !.events = o])
    /\ UNCHANGED <<receipt, memo, app, ctx, job, Tallies, rootFaults>>

\* ... or throws, with or without them.
FailRun ==
    /\ Running /\ RunRoot.events = "none" /\ RootFault
    /\ held' \in {held, held \ {ctx.id}}
    /\ WriteRun([RunRoot EXCEPT !.events = "failed"])
    /\ UNCHANGED <<receipt, memo, app, ctx, job, Tallies>>

\* recovery_lease->Complete after a normal return only.
CompleteLease ==
    /\ Running /\ RunRoot.events \in {"finished", "cancelled"} /\ RunRoot.record # "none"
    /\ \/ /\ WriteRun([RunRoot EXCEPT !.record = "none"]) /\ NoFault /\ UNCHANGED ctx
       \/ /\ RootFault
          /\ WriteRun([RunRoot EXCEPT !.summary = "failed"])
          /\ ctx' = [ctx EXCEPT !.state = "failed"]
    /\ UNCHANGED <<receipt, held, memo, app, job, Tallies>>

\* publish_terminal_summary (WriteRetainedRunRegistrySummary: a temporary file
\* renamed over the old one), then the terminal state.
PublishTerminal ==
    /\ Running /\ RunRoot.events # "none"
    /\ RunRoot.events = "failed" \/ RunRoot.record = "none"
    /\ \/ WriteRun([RunRoot EXCEPT !.summary = RunRoot.events]) /\ NoFault
       \/ RootFault /\ UNCHANGED <<pub, quarantine>>
    /\ ctx' = [ctx EXCEPT !.state =
                   IF RunRoot.events = "failed" THEN "failed" ELSE "stopped"]
    /\ UNCHANGED <<receipt, held, memo, app, job, Tallies>>

----------------------------------------------------------------------------
(* Cleanup *)

\* The receipt CleanRun goes by: its own, or the durable one it adopts.
CleanMemo(r) ==
    IF receipt[r] # NoReceipt /\ memo[r] = NoMemo
    THEN [id |-> receipt[r].id, ext |-> TRUE, complete |-> FALSE] ELSE memo[r]

\* An incomplete removal must be resumed as a removal.
Uncertain(r, remove) == CleanMemo(r) # NoMemo /\ ~CleanMemo(r).complete /\ ~remove

\* A cleanup that was prepared: the directory is under exactly one of its two
\* names and is the one the receipt names.
Resumable(r) ==
    LET m == CleanMemo(r) IN
    /\ m # NoMemo /\ ~m.complete /\ m.ext
    /\ (Identity(r) = m.id) # InQuarantine(m.id)
    /\ pub[r] # NoRoot => Identity(r) = m.id

\* Nothing is left of a durably receipted root: the cleanup was complete.
AlreadyGone(r) ==
    receipt[r] # NoReceipt /\ pub[r] = NoRoot /\ ~InQuarantine(CleanMemo(r).id)

\* A fresh cleanup of an owned directory; a receipt in memory must name it.
Cleanable(r) ==
    LET m == CleanMemo(r) IN
    Owned(pub[r]) /\ (m # NoMemo => m.id = Identity(r) /\ ~m.complete /\ ~m.ext)

\* EditorRunController::CleanRun up to its first change, for a run that is
\* stopped: a terminal run is reaped first.
CleanRun(r, remove) ==
    /\ app.up = "running" /\ job = NoJob
    /\ ctx = NoCtx \/ IsTerminalEditorRunState(ctx.state)
    /\ ctx' = NoCtx
    /\ receipt[r] # NoReceipt /\ memo[r] # NoMemo => memo[r].id = receipt[r].id
    /\ LET go(pc, m) == /\ memo' = [memo EXCEPT ![r] = m]
                        /\ job' = [pc |-> pc, kind |-> "clean", run |-> r, id |-> m.id,
                                   remove |-> remove]
       IN \/ /\ AlreadyGone(r)
             /\ memo' = [memo EXCEPT ![r] = [CleanMemo(r) EXCEPT !.complete = TRUE]]
             /\ UNCHANGED job
          \/ /\ ~AlreadyGone(r) /\ ~Uncertain(r, remove) /\ Resumable(r)
             /\ go(IF receipt[r] = NoReceipt THEN "receipt" ELSE "capture", CleanMemo(r))
          \/ /\ ~AlreadyGone(r) /\ ~Uncertain(r, remove) /\ ~Resumable(r) /\ Cleanable(r)
             /\ IF remove
                THEN go("external", [id |-> pub[r].id, ext |-> FALSE, complete |-> FALSE])
                ELSE /\ job' = [pc |-> "external", kind |-> "clean", run |-> r,
                                id |-> pub[r].id, remove |-> FALSE]
                     /\ UNCHANGED memo
    /\ UNCHANGED <<Disk, app, Tallies, rootFaults>>

\* CleanupRun: cgroup, interfaces, credentials, pending node directories.  A
\* step that fails does not keep the others from being tried, and the first
\* failure is thrown at the end.  For a launch that replaces a directory this
\* is the first half of PrepareManagedRunRoot.
CleanupRun ==
    /\ Doing("external")
    /\ \/ /\ held' = held \ {job.id} /\ NoFault
          /\ Then(CASE job.kind = "recover" -> "complete"
                    [] job.kind = "launch" -> "empty"
                    [] job.remove -> "receipt"
                    [] OTHER -> "done")
          /\ memo' = IF job.kind = "clean" /\ job.remove
                     THEN [memo EXCEPT ![job.run].ext = TRUE] ELSE memo
       \/ /\ RootFault /\ held' \in {held, held \ {job.id}}
          /\ UNCHANGED memo /\ Then(OnFailure)
    /\ UNCHANGED <<pub, quarantine, receipt, app, ctx, Tallies>>

\* WriteOwnedRunRootCleanupReceipt: a file inside the directory, linked under
\* the receipt's name.
WriteCleanupReceipt ==
    /\ Doing("receipt")
    /\ LET d == receipt[job.run] IN
       IF Here.id # job.id \/ d.retired \/ (d # NoReceipt /\ d.id # job.id)
       THEN Then("done") /\ UNCHANGED receipt /\ NoFault
       ELSE \/ /\ receipt' = [receipt EXCEPT ![job.run] = [id |-> job.id, retired |-> FALSE]]
               /\ NoFault /\ Then("capture")
            \/ /\ RootFault /\ Then("done")
               /\ receipt' \in {receipt, [receipt EXCEPT ![job.run] =
                                              [id |-> job.id, retired |-> FALSE]]}
    /\ UNCHANGED <<pub, quarantine, held, memo, app, ctx, Tallies>>

\* Mutant: the directory keeps its public name.
CopyingCaptureRoot ==
    /\ Doing("capture")
    /\ quarantine' = quarantine \cup {Here} /\ Then("empty")
    /\ UNCHANGED <<pub, receipt, held, memo, app, ctx, Tallies, rootFaults>>

\* RemoveOwnedRunRoot with a known identity: the directory is renamed away
\* first, unless an earlier cleanup did that, and checked under its new name.
CaptureRoot ==
    /\ Doing("capture")
    /\ IF There # {}
       THEN /\ Then(IF Target.marker THEN "empty"
                    ELSE IF receipt[job.run].id = job.id /\ ~Target.files THEN "rmbare"
                    ELSE OnFailure)
            /\ UNCHANGED <<pub, quarantine>> /\ NoFault
       ELSE \/ /\ pub' = [pub EXCEPT ![job.run] = NoRoot]
               /\ quarantine' = quarantine \cup {Here}
               /\ NoFault /\ Then("empty")
            \/ RootFault /\ UNCHANGED <<pub, quarantine>> /\ Then(OnFailure)
    /\ UNCHANGED <<receipt, held, memo, app, ctx, Tallies>>

\* A failure after the capture puts the name back.
RestoreName(root) ==
    \/ /\ There # {} /\ Here = NoRoot
       /\ pub' = [pub EXCEPT ![job.run] = root] /\ quarantine' = quarantine \ There
    \/ There = {} /\ WriteHere(root)

\* RemoveDirectoryContents spares the marker.
EmptyRoot ==
    /\ Doing("empty")
    /\ LET bare == [Target EXCEPT !.files = FALSE, !.record = "none",
                                  !.events = "none", !.summary = "none"] IN
       \/ Write(bare) /\ NoFault /\ Then("unmark")
       \/ /\ RootFault /\ Then(OnFailure)
          /\ RestoreName(Target) \/ RestoreName([bare EXCEPT !.files = TRUE])
    /\ UNCHANGED <<receipt, held, memo, app, ctx, Tallies>>

\* Then the marker; a later failure writes it again.
UnmarkRoot ==
    /\ Doing("unmark")
    /\ \/ Write([Target EXCEPT !.marker = FALSE]) /\ NoFault /\ Then("rmdir")
       \/ RootFault /\ RestoreName(Target) /\ Then(OnFailure)
    /\ UNCHANGED <<receipt, held, memo, app, ctx, Tallies>>

\* And the directory itself. A failure writes the marker again and puts the
\* name back, unless an earlier cleanup had taken both away: then the directory
\* stays as it was found.
RemoveRoot ==
    /\ Doing("rmdir") \/ Doing("rmbare")
    /\ \/ /\ NoFault
          /\ IF There = {} THEN WriteHere(NoRoot)
             ELSE quarantine' = quarantine \ There /\ UNCHANGED pub
          /\ Then(CASE job.kind = "clean" -> "removed"
                    [] job.undoing -> "undone"
                    [] OTHER -> "prepare")
       \/ /\ RootFault /\ Then(OnFailure)
          /\ IF Doing("rmbare") THEN UNCHANGED <<pub, quarantine>>
             ELSE RestoreName([Target EXCEPT !.marker = TRUE])
    /\ UNCHANGED <<receipt, held, memo, app, ctx, Tallies>>

\* The caller of RemoveOwnedRunRoot takes note.
NoteRemoval ==
    \/ /\ Doing("removed")
       /\ memo' = [memo EXCEPT ![job.run].complete = TRUE]
       /\ job' = NoJob
       /\ UNCHANGED <<Disk, app, ctx, Tallies, rootFaults>>
    \/ /\ Doing("undone")
       /\ ctx' = [ctx EXCEPT !.kept = FALSE] /\ Then("unlaunch")
       /\ UNCHANGED <<Disk, memo, app, Tallies, rootFaults>>

\* A cleanup returns or throws; from the command line it is the whole process.
EndCleanup ==
    /\ Doing("done")
    /\ job' = NoJob
    /\ app' = IF job.kind = "cli" THEN Down ELSE app
    /\ UNCHANGED <<Disk, memo, ctx, Tallies, rootFaults>>

RootStep ==
    \/ CompleteRecovery \/ AbortStart \/ Reserve \/ MarkReservation \/ PrepareRoot
    \/ MarkRoot \/ PopulateRoot \/ CreateRecord \/ WriteRecord \/ RetireReceipt
    \/ WriteScenario \/ UndoLaunch \/ EndLaunch \/ AcquireResources \/ StopRun
    \/ FinishRun \/ FailRun \/ CompleteLease \/ PublishTerminal \/ CleanupRun
    \/ WriteCleanupReceipt \/ CaptureRoot \/ EmptyRoot \/ UnmarkRoot \/ RemoveRoot
    \/ NoteRemoval \/ EndCleanup

RootNext ==
    \/ RootStep
    \/ StartApplication \/ FinishRecovery \/ ShutDown \/ Crash
    \/ \E r \in RunIds :
          \/ RecoverCandidate(r)
          \/ \E replay, replace \in BOOLEAN : ~(replay /\ replace) /\ Launch(r, replay, replace)
          \/ \E remove \in BOOLEAN : CleanRun(r, remove)

----------------------------------------------------------------------------
(* Properties *)

\* Directories, identities and records have their shape, and no two run ids
\* share a directory.
RootTypeOK ==
    /\ pub \in [RunIds -> Roots] /\ quarantine \subseteq Roots
    /\ held \subseteq 1..MaxRoots
    /\ \A r, s \in RunIds : r # s /\ pub[r] # NoRoot => pub[r].id # pub[s].id

\* Whatever an application was doing when it died or gave up, external
\* resources that nobody is using any more belong to a directory that is still
\* under its run id, owned, and has a whole activity record: the next start
\* finds and releases them.
LeftoverIsRecoverable ==
    \A id \in held :
        (ctx = NoCtx \/ ctx.id # id \/ IsTerminalEditorRunState(ctx.state)) =>
            \E r \in RunIds :
                pub[r].id = id /\ pub[r].marker /\ pub[r].record = "full"

\* Without a failing system call an application is kept from starting only by
\* an activity record whose writer died before it was written.
StartRefusedOnlyByTornRecord ==
    app.refused => \E r \in RunIds : pub[r].marker /\ pub[r].record = "partial"

\* An interrupted removal can be resumed: the directory a durable receipt names
\* is under one name only, and it still has its marker or has nothing else.
CleanupCanBeResumed ==
    \A r \in RunIds : job = NoJob /\ receipt[r] # NoReceipt =>
        LET roots == {q \in quarantine : q.id = receipt[r].id}
                     \cup {p \in {pub[r]} : p.id = receipt[r].id}
        IN Cardinality(roots) <= 1 /\ \A q \in roots : q.marker \/ ~q.files

\* A directory that was renamed away is named by a durable receipt; only the
\* undoing of a replay, which writes none, can leave one that nobody will find.
QuarantineIsReceipted ==
    \A q \in quarantine :
        \/ \E r \in RunIds : receipt[r].id = q.id
        \/ job.kind = "launch" /\ job.id = q.id
        \/ rootCrashes > 0

\* A cleanup that reported success left neither a directory nor a resource.
ReportedCleanupIsComplete ==
    \A r \in RunIds : memo[r].complete =>
        /\ memo[r].id \notin held /\ ~InQuarantine(memo[r].id)
        /\ \A s \in RunIds : pub[s].id # memo[r].id

\* A run id is not lost to an old receipt: a directory that a receipt for
\* another one keeps from being launched or cleaned comes from an application
\* that died, or failed twice, before it could retire the receipt.
ReceiptNamesTheRoot ==
    \A r \in RunIds :
        receipt[r] # NoReceipt /\ pub[r] # NoRoot /\ pub[r].id # receipt[r].id =>
            job.run = r \/ rootCrashes > 0 \/ rootFaults > 0

\* A directory without a marker, which no cleanup will touch, holds nothing.
UnmarkedRootIsBare ==
    \A r \in RunIds : ~pub[r].marker =>
        /\ ~pub[r].files /\ pub[r].record = "none"
        /\ pub[r].id \notin held

\* What DiscoverRetainedRuns says of an owned directory: its summary, or, where
\* the writer died before that, what the event stream says.
RetainedState(p) ==
    IF p.summary # "none" THEN p.summary
    ELSE IF p.events # "none" THEN p.events ELSE "incomplete"

\* The runs it lists: owned directories other than the active run's that have a
\* summary or at least a resolved scenario.
DiscoverRetainedRuns ==
    {r \in RunIds : /\ Owned(pub[r])
                    /\ pub[r].summary # "none" \/ pub[r].files
                    /\ ctx = NoCtx \/ IsTerminalEditorRunState(ctx.state) \/ ctx.run # r}

\* A retained run that is listed as finished or cancelled has left no resource.
RetainedStateIsTrue ==
    \A r \in DiscoverRetainedRuns :
        RetainedState(pub[r]) \in {"finished", "cancelled"} => Identity(r) \notin held

\* Run directories over crashes and restarts: what a crash leaves can be
\* recovered or resumed, a start is refused only by a torn record, what is
\* quarantined or removed has its receipt, and the retained state is true.
RootsCorrect ==
    /\ RootTypeOK
    /\ LeftoverIsRecoverable
    /\ StartRefusedOnlyByTornRecord
    /\ CleanupCanBeResumed
    /\ QuarantineIsReceipted
    /\ ReportedCleanupIsComplete
    /\ ReceiptNamesTheRoot
    /\ UnmarkedRootIsBare
    /\ RetainedStateIsTrue

=============================================================================
