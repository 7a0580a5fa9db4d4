--------------------------- MODULE WorkloadProofs ---------------------------
(***************************************************************************)
(* The invariant of LiveWorkloads, for any set of workloads and wallets,   *)
(* any targets and capacities and any number of operations and failures.   *)
(* Almost all of it speaks of one record: where its worker may be while it *)
(* is reported paused, terminal or completed, and what its counters say    *)
(* there.  Three clauses relate records with each other, with the node     *)
(* mutation mutex and with the shutdown.  A step changes one record, so    *)
(* that it is enough to follow the transformations of a record.            *)
(***************************************************************************)
EXTENDS LiveWorkloads, TLAPS

States == TerminalStates \cup {"starting", "running", "paused", "stopping"}
ConfigSet == [goal : Targets \cup {0}, wallets : SUBSET Wallets]
Records ==
    [kind : Kinds \cup {"none"}, pc : Positions, state : States,
     request : Requests, estop : BOOLEAN, end : TerminalStates \cup {"none"},
     config : ConfigSet, pending : ConfigSet, claims : SUBSET Wallets,
     done : Nat, attempted : Nat, settled : Nat, generated : Nat,
     tracked : BOOLEAN, due : BOOLEAN, late : BOOLEAN,
     runStop : {"no", "before", "after"}, timedOut : BOOLEAN,
     completing : BOOLEAN, settling : BOOLEAN]

WalletPositions == {"funding", "send", "yield", "submit", "returned", "reporting"}
BlockPositions == {"boundary", "generating", "sync"}
WaitPositions == {"await", "complete"}

Placed(r) ==
    /\ r.pc \in WalletPositions => r.kind = "wallet"
    /\ r.pc \in BlockPositions => r.kind = "blocks"
    /\ r.pc \in WaitPositions => r.kind \in Waits

\* The worker is where a worker of its kind can be.
KindInv(r) ==
    /\ r.kind = "none" <=> r.pc = "none"
    /\ r.kind = "none" => r = NoWork
    /\ Placed(r)
    /\ r.kind # "wallet" => r.claims = {}

\* A paused record is parked or on its way there, or has been asked to end.
PauseInv(r) ==
    r.state = "paused" =>
        \/ r.pc \in {"pausing", "parked"} /\ r.request = "pause"
        \/ r.pc = "top" /\ r.request # "none"
        \/ r.pc = "ending"

\* A terminal record is left by its worker, but for the completion event of a
\* wallet workload and what its failure makes of the record.
EndInv(r) ==
    /\ r.pc = "done" => r.state \in TerminalStates
    /\ r.pc = "ending" => r.end \in TerminalStates
    /\ r.pc = "reporting" => r.state = "completed"
    /\ r.state \in TerminalStates =>
          \/ r.pc = "done"
          \/ r.pc = "reporting"
          \/ r.pc = "ending" /\ r.kind = "wallet" /\ r.end = "failed"

\* An attempt is outstanding exactly from its count to its end.
Counted(r) ==
    LET accounted == r.done + r.settled
        outstanding == IF r.pc \in BlockPositions THEN 1 ELSE 0
        generating == IF r.pc = "sync" THEN 1 ELSE 0
    IN  r.kind = "blocks" =>
        /\ r.attempted = accounted + outstanding
        /\ r.done + generating <= r.generated
        /\ r.generated <= accounted + generating

\* A block workload is completed with all its blocks, and is not paused then:
\* its configuration no longer changes.
BlocksInv(r) ==
    r.kind = "blocks" =>
        /\ r.pc = "ending" /\ r.end = "completed" =>
              r.done >= r.config.goal /\ r.state # "paused"
        /\ r.state = "completed" => r.done >= r.config.goal

\* An epoch that is completing was in time; a wait ends no other way completed.
WaitInv(r) ==
    r.kind \in Waits =>
        /\ r.pc = "ending" => r.end # "completed"
        /\ r.pc = "complete" => r.completing /\ ~r.due /\ ~r.timedOut
        /\ r.state = "completed" =>
              r.pc = "done" /\ r.done = 1 /\ ~r.due /\ ~r.timedOut

\* A wallet workload that settles is stopping: only the shutdown overtakes it.
SettleInv(r) ==
    r.kind = "wallet" /\ r.request = "settle" =>
        r.state \in TerminalStates \cup {"stopping"}

\* Only a settled wallet workload ends with transactions under observation.
WalletInv(r) ==
    r.kind = "wallet" =>
        /\ r.pc = "ending" /\ r.end \in {"cancelled", "failed"} => ~r.tracked
        /\ r.pc = "ending" /\ r.end = "stopped" /\ r.tracked =>
              r.state = "stopping" /\ r.request # "cancel"
        /\ r.pc = "done" /\ r.state \in {"cancelled", "failed"} => ~r.tracked
        /\ r.pc = "done" /\ r.state = "stopped" /\ r.request = "cancel" => ~r.tracked

RecordInv(r) ==
    /\ r \in Records
    /\ KindInv(r)
    /\ PauseInv(r)
    /\ EndInv(r)
    /\ Counted(r)
    /\ BlocksInv(r)
    /\ WaitInv(r)
    /\ SettleInv(r)
    /\ WalletInv(r)

ShutdownType ==
    shutdown \in [pc : {"idle", "closing", "asking", "draining", "drained", "complete"},
                  tick : BOOLEAN, failed : BOOLEAN, todo : SUBSET Workloads]

\* Once the workers are joined none is left.
DrainInv ==
    shutdown.pc \in {"drained", "complete"} =>
        \A w \in Workloads : work[w].pc \in {"none", "done"}

Mutations == {"none", "adding", "retiring"}

WorkInv ==
    /\ work \in [Workloads -> Records]
    /\ \A w \in Workloads : RecordInv(work[w])
    /\ service \in {"open", "closed", "cancelled"} /\ mutating \in Mutations
    /\ ShutdownType
    /\ ClaimsAreDisjoint
    /\ RetirementExcludesWorkloads
    /\ DrainInv
Inert == {"none", "done"}

\* What a step makes of a record, other than a launch or its withdrawal.
Follows(r, q) ==
    /\ RecordInv(q)
    /\ q.kind = r.kind
    /\ r.state \in TerminalStates =>
          \/ q.state = r.state
          \/ r.kind = "wallet" /\ r.pc = "ending" /\ q.state = "failed"
    /\ r.pc \in Inert => q.pc \in Inert
    /\ r.state \in TerminalStates /\ q.tracked => r.tracked

Advances(r, q) == Follows(r, q) /\ q.claims = r.claims

-----------------------------------------------------------------------------
(* Transformations of a record: its worker stays or goes on, it comes to its *)
(* end, or an operation changes what it is asked for.                        *)

\* A worker that goes on is in no position that says anything of its end.
LEMMA GoingOn ==
  ASSUME NEW r, NEW q, RecordInv(r), r.state \notin TerminalStates,
         q \in Records, q.kind = r.kind, q.claims = r.claims, q.kind # "none",
         q.state \notin TerminalStates, Placed(q), PauseInv(q), Counted(q), SettleInv(q),
         q.pc \notin {"none", "done", "ending", "reporting"},
         q.pc = "complete" => q.completing /\ ~q.due /\ ~q.timedOut
  PROVE  Advances(r, q)
<1>1. KindInv(q)
  BY DEF RecordInv, KindInv
<1>2. EndInv(q)
  BY DEF EndInv
<1>3. BlocksInv(q)
  BY DEF BlocksInv, TerminalStates
<1>4. WaitInv(q)
  BY DEF WaitInv, TerminalStates
<1>5. WalletInv(q)
  BY DEF WalletInv
<1>6. r.pc \notin Inert
  BY DEF RecordInv, KindInv, EndInv, Inert
<1> QED
  BY <1>1, <1>2, <1>3, <1>4, <1>5, <1>6 DEF Advances, Follows, RecordInv

\* A worker that comes to its end.
LEMMA ComingToEnd ==
  ASSUME NEW r, NEW q, RecordInv(r), r.pc \notin Inert,
         r.state \in TerminalStates => r.kind = "wallet" /\ q.end = "failed",
         q \in Records, q.kind = r.kind, q.claims = r.claims, q.kind # "none",
         q.state = r.state, q.pc = "ending", q.end \in TerminalStates,
         Counted(q), SettleInv(q),
         q.kind = "blocks" /\ q.end = "completed" =>
            q.done >= q.config.goal /\ q.state # "paused",
         q.kind \in Waits => q.end # "completed",
         q.kind = "wallet" /\ q.end \in {"cancelled", "failed"} => ~q.tracked,
         q.kind = "wallet" /\ q.end = "stopped" /\ q.tracked =>
            q.state = "stopping" /\ q.request # "cancel"
  PROVE  Advances(r, q)
<1>1. KindInv(q)
  BY DEF RecordInv, KindInv, Placed, WalletPositions, BlockPositions, WaitPositions
<1>2. EndInv(q) /\ PauseInv(q)
  BY DEF EndInv, PauseInv
<1>3. BlocksInv(q)
  BY DEF BlocksInv, TerminalStates
<1>4. WaitInv(q)
  BY DEF WaitInv, TerminalStates, Waits
<1>5. WalletInv(q)
  BY DEF WalletInv
<1> QED
  BY <1>1, <1>2, <1>3, <1>4, <1>5 DEF Advances, Follows, RecordInv

\* An operation leaves the worker and its counters alone, and the configuration
\* of a record that is not paused.
LEMMA Operated ==
  ASSUME NEW r, NEW q, RecordInv(r), r.state \notin TerminalStates, r.kind # "none",
         q \in Records, q.kind = r.kind, q.claims = r.claims \/ q.kind = "wallet",
         q.pc = r.pc, q.end = r.end,
         q.done = r.done, q.attempted = r.attempted, q.settled = r.settled,
         q.generated = r.generated, q.tracked = r.tracked, q.due = r.due,
         q.completing = r.completing, q.config = r.config \/ r.state = "paused",
         q.state \notin TerminalStates, q.state = "paused" => r.state = "paused",
         PauseInv(q), SettleInv(q), r.pc = "complete" => q.timedOut = r.timedOut,
         q.kind = "wallet" /\ r.state = "stopping" =>
            q.state = "stopping" /\ (q.request # "cancel" \/ q.request = r.request)
  PROVE  Follows(r, q)
<1>1. KindInv(q)
  BY DEF RecordInv, KindInv, Placed
<1>2. EndInv(q)
  BY DEF RecordInv, EndInv, TerminalStates
<1>3. BlocksInv(q)
  BY DEF RecordInv, BlocksInv, TerminalStates
<1>4. WaitInv(q)
  BY DEF RecordInv, WaitInv, TerminalStates
<1>5. WalletInv(q)
  BY DEF RecordInv, WalletInv, EndInv
<1>6. Counted(q)
  BY DEF RecordInv, Counted
<1> QED
  BY <1>1, <1>2, <1>3, <1>4, <1>5, <1>6 DEF Follows, RecordInv

\* The worker goes on, and nothing else of the record changes.
LEMMA Moved ==
  ASSUME NEW r, RecordInv(r), r.state \notin TerminalStates, r.kind # "none",
         r.pc \notin BlockPositions,
         NEW p \in Positions \ ({"none", "done", "ending", "reporting", "complete"}
                                    \cup BlockPositions),
         p \in WalletPositions => r.kind = "wallet", p \in WaitPositions => r.kind \in Waits,
         r.state = "paused" => \/ p = "parked" /\ r.request = "pause"
                               \/ p = "top" /\ r.request # "none"
  PROVE  Advances(r, [r EXCEPT !.pc = p])
<1> DEFINE q == [r EXCEPT !.pc = p]
<1>1. /\ q \in Records /\ q.kind = r.kind /\ q.claims = r.claims /\ q.state = r.state
      /\ q.pc = p /\ q.request = r.request /\ q.done = r.done /\ q.settled = r.settled
      /\ q.attempted = r.attempted /\ q.generated = r.generated
  BY DEF RecordInv, Records
<1>2. Placed(q) /\ PauseInv(q) /\ SettleInv(q)
  BY <1>1 DEF RecordInv, Placed, PauseInv, SettleInv
<1>3. Counted(q)
  BY <1>1 DEF RecordInv, Counted, BlockPositions
<1> QED
  BY <1>1, <1>2, <1>3, GoingOn

\* cancel_outstanding_tracking, whatever the worker was doing.
LEMMA Cancelled ==
  ASSUME NEW r, RecordInv(r), r.pc \notin Inert \cup BlockPositions, r.kind # "none",
         NEW s \in {"stopped", "cancelled", "failed"},
         r.state \in TerminalStates => r.kind = "wallet" /\ s = "failed"
  PROVE  Advances(r, Cancelling(r, s))
<1> DEFINE q == Cancelling(r, s)
<1>1. /\ q \in Records /\ q.kind = r.kind /\ q.claims = r.claims /\ q.state = r.state
      /\ q.pc = "ending" /\ q.end = s /\ q.request = r.request /\ q.tracked = FALSE
  BY DEF RecordInv, Records, Cancelling, Ending, Positions, TerminalStates
<1>2. /\ q.done = r.done /\ q.settled = r.settled
      /\ q.attempted = r.attempted /\ q.generated = r.generated
  BY DEF RecordInv, Records, Cancelling, Ending
<1>3. SettleInv(q)
  BY <1>1 DEF RecordInv, SettleInv
<1>4. Counted(q)
  BY <1>1, <1>2 DEF RecordInv, Counted, BlockPositions
<1>5. q.end \in TerminalStates /\ q.end # "completed"
  BY <1>1 DEF TerminalStates
<1> HIDE DEF q
<1>a. Advances(r, q)
  BY <1>1, <1>3, <1>4, <1>5, ComingToEnd
<1> QED
  BY <1>a DEF q

\* set_terminal for a wait, and for a wallet workload that settles.
LEMMA Ended ==
  ASSUME NEW r, RecordInv(r), r.state \notin TerminalStates,
         r.pc \notin Inert \cup BlockPositions,
         NEW s \in {"stopped", "cancelled", "failed"},
         \/ r.kind \in Waits
         \/ r.kind = "blocks"
         \/ r.kind = "wallet" /\ s = "stopped" /\ r.request = "settle"
  PROVE  Advances(r, Ending(r, s))
<1> DEFINE q == Ending(r, s)
<1>1. /\ q \in Records /\ q.kind = r.kind /\ q.claims = r.claims /\ q.state = r.state
      /\ q.pc = "ending" /\ q.end = s /\ q.request = r.request
  BY DEF RecordInv, Records, Ending, Positions, TerminalStates
<1>2. /\ q.done = r.done /\ q.settled = r.settled
      /\ q.attempted = r.attempted /\ q.generated = r.generated
  BY DEF RecordInv, Records, Ending
<1>3. SettleInv(q) /\ q.kind # "none"
  BY <1>1 DEF RecordInv, SettleInv, Waits
<1>4. Counted(q)
  BY <1>1, <1>2 DEF RecordInv, Counted, BlockPositions
<1>5. q.end \in TerminalStates /\ q.end # "completed"
  BY <1>1 DEF TerminalStates
<1>6. q.kind = "wallet" => q.end = "stopped" /\ q.request # "cancel" /\ q.state = "stopping"
  BY <1>1 DEF RecordInv, SettleInv, Waits
<1> HIDE DEF q
<1>a. Advances(r, q)
  BY <1>1, <1>3, <1>4, <1>5, <1>6, ComingToEnd
<1> QED
  BY <1>a DEF q

\* finalize_outstanding_attempt, then set_terminal.
LEMMA Finalized ==
  ASSUME NEW r, RecordInv(r), r.kind = "blocks", r.pc \in BlockPositions,
         NEW s \in {"stopped", "cancelled", "failed"}
  PROVE  Advances(r, Ending(Finalize(r), s))
<1> DEFINE q == Ending(Finalize(r), s)
<1>3. r.done \in Nat /\ r.settled \in Nat /\ r.attempted \in Nat /\ r.generated \in Nat
  BY DEF RecordInv, Records
<1> DEFINE n == IF r.attempted > r.done + r.settled THEN r.settled + 1 ELSE r.settled
<1>0. n \in Nat /\ q = [r EXCEPT !.settled = n, !.pc = "ending", !.end = s]
  BY <1>3 DEF Ending, Finalize
<1> HIDE DEF n, q
<1>1. /\ q \in Records /\ q.kind = r.kind /\ q.claims = r.claims /\ q.state = r.state
      /\ q.pc = "ending" /\ q.end = s
  BY <1>0 DEF RecordInv, Records, Positions, TerminalStates
<1>2. /\ q.done = r.done /\ q.attempted = r.attempted /\ q.generated = r.generated
      /\ q.settled = n
  BY <1>0 DEF RecordInv, Records
<1>4. Counted(q)
  BY <1>0, <1>1, <1>2, <1>3 DEF RecordInv, Counted, BlockPositions, n
<1>5. /\ q.end \in TerminalStates /\ q.end # "completed" /\ SettleInv(q)
      /\ r.state \notin TerminalStates /\ r.pc \notin Inert
  BY <1>1 DEF TerminalStates, SettleInv, RecordInv, EndInv, BlockPositions, Inert
<1> HIDE DEF q
<1>a. Advances(r, q)
  BY <1>1, <1>4, <1>5, ComingToEnd DEF Waits
<1> QED
  BY <1>a DEF q

\* The end of an observation leaves the record as it is otherwise.
LEMMA Observed ==
  ASSUME NEW r, RecordInv(r), r.tracked
  PROVE  Advances(r, [r EXCEPT !.tracked = FALSE])
<1> DEFINE q == [r EXCEPT !.tracked = FALSE]
<1>1. /\ q \in Records /\ q.kind = r.kind /\ q.claims = r.claims /\ q.state = r.state
      /\ q.pc = r.pc /\ q.request = r.request /\ q.end = r.end /\ q.tracked = FALSE
  BY DEF RecordInv, Records
<1>2. /\ q.done = r.done /\ q.settled = r.settled /\ q.config = r.config
      /\ q.attempted = r.attempted /\ q.generated = r.generated
      /\ q.due = r.due /\ q.timedOut = r.timedOut /\ q.completing = r.completing
  BY DEF RecordInv, Records
<1>3. r.kind # "none"
  BY DEF RecordInv, KindInv, NoWork
<1> HIDE DEF q
<1>4. KindInv(q) /\ PauseInv(q) /\ EndInv(q) /\ SettleInv(q)
  BY <1>1, <1>3 DEF RecordInv, KindInv, Placed, PauseInv, EndInv, SettleInv
<1>5. Counted(q) /\ BlocksInv(q) /\ WaitInv(q) /\ WalletInv(q)
  BY <1>1, <1>2 DEF RecordInv, Counted, BlocksInv, WaitInv, WalletInv
<1>6. Advances(r, q)
  BY <1>1, <1>4, <1>5 DEF Advances, Follows, RecordInv
<1> QED
  BY <1>6 DEF q

\* Before the end, the record of a worker that has not ended is not terminal.
LEMMA NotTerminal ==
  ASSUME NEW r, RecordInv(r), r.pc \notin {"done", "reporting", "ending"}
  PROVE  r.state \notin TerminalStates
  BY DEF RecordInv, EndInv

\* What the worker makes of a request at the top of its loop.
LEMMA HonouredAdvances ==
  ASSUME NEW r, RecordInv(r), r.pc = "top", r.request # "none"
  PROVE  Advances(r, Honoured(r))
<1>0. /\ r.kind # "none" /\ r.pc \notin Inert \cup BlockPositions
      /\ r.state \notin TerminalStates /\ r \in Records
      /\ r.request \in Requests
  BY NotTerminal DEF RecordInv, KindInv, Inert, BlockPositions, Records
<1>1. CASE r.request = "pause"
  <2> DEFINE q == [r EXCEPT !.state = "paused", !.pc = "pausing", !.due = FALSE,
                            !.timedOut = FALSE, !.runStop = "no"]
  <2>1. /\ q \in Records /\ q.kind = r.kind /\ q.claims = r.claims
        /\ q.state = "paused" /\ q.pc = "pausing" /\ q.request = "pause"
    BY <1>0, <1>1 DEF Records, States, Positions
  <2>2. /\ q.done = r.done /\ q.settled = r.settled
        /\ q.attempted = r.attempted /\ q.generated = r.generated
    BY <1>0 DEF Records
  <2>3. Placed(q) /\ PauseInv(q) /\ SettleInv(q) /\ q.state \notin TerminalStates
    BY <2>1 DEF Placed, PauseInv, SettleInv, WalletPositions, BlockPositions,
                WaitPositions, TerminalStates
  <2>4. Counted(q)
    BY <1>0, <2>1, <2>2 DEF RecordInv, Counted, BlockPositions
  <2>5. Honoured(r) = q
    BY <1>1 DEF Honoured
  <2> HIDE DEF q
  <2>6. Advances(r, q)
    BY <1>0, <2>1, <2>3, <2>4, GoingOn
  <2> QED
    BY <2>5, <2>6
<1>2. CASE r.request = "cancel"
  <2>1. Honoured(r) = Cancelling(r, "stopped")
    BY <1>2 DEF Honoured
  <2> QED
    BY <2>1, <1>0, Cancelled
<1>3. CASE r.request = "settle"
  <2>1. Honoured(r) = Ending(r, "stopped")
    BY <1>3 DEF Honoured
  <2>2. r.kind \in Waits \/ r.kind = "blocks" \/ r.kind = "wallet"
    BY <1>0 DEF Records, Kinds
  <2> QED
    BY <2>1, <2>2, <1>0, <1>3, Ended
<1>4. CASE r.request = "shutdown"
  <2>1. Honoured(r) = Cancelling(r, "cancelled")
    BY <1>4 DEF Honoured
  <2> QED
    BY <2>1, <1>0, Cancelled
<1>5. CASE r.request = "runFailure"
  <2>1. Honoured(r) = Cancelling(r, "failed")
    BY <1>5 DEF Honoured
  <2> QED
    BY <2>1, <1>0, Cancelled
<1>6. CASE r.request = "reconfigure"
  <2> DEFINE q == [r EXCEPT !.config = r.pending, !.pending = NoConfig,
                            !.request = "none", !.state = "starting", !.pc = "restarting"]
  <2>0. NoConfig \in ConfigSet
    BY DEF NoConfig, ConfigSet
  <2>1. /\ q \in Records /\ q.kind = r.kind /\ q.claims = r.claims
        /\ q.state = "starting" /\ q.pc = "restarting" /\ q.request = "none"
    BY <1>0, <2>0 DEF Records, States, Positions, Requests
  <2>2. /\ q.done = r.done /\ q.settled = r.settled
        /\ q.attempted = r.attempted /\ q.generated = r.generated
    BY <1>0 DEF Records
  <2>3. Placed(q) /\ PauseInv(q) /\ SettleInv(q) /\ q.state \notin TerminalStates
    BY <2>1 DEF Placed, PauseInv, SettleInv, WalletPositions, BlockPositions,
                WaitPositions, TerminalStates
  <2>4. Counted(q)
    BY <1>0, <2>1, <2>2 DEF RecordInv, Counted, BlockPositions
  <2>5. Honoured(r) = q
    BY <1>6 DEF Honoured
  <2> HIDE DEF q
  <2>6. Advances(r, q)
    BY <1>0, <2>1, <2>3, <2>4, GoingOn
  <2> QED
    BY <2>5, <2>6
<1> QED
  BY <1>0, <1>1, <1>2, <1>3, <1>4, <1>5, <1>6 DEF Requests

\* A worker begins an epoch, unless its blocks are generated or the run stops.
LEMMA BeginAdvances ==
  ASSUME NEW r, RecordInv(r), r.pc \in {"top", "restarting"}, r.state # "paused"
  PROVE  Advances(r, Begin(r))
<1>0. /\ r.kind # "none" /\ r.pc \notin Inert \cup BlockPositions
      /\ r.state \notin TerminalStates /\ r \in Records
  BY NotTerminal DEF RecordInv, KindInv, Inert, BlockPositions
<1>s. ASSUME r.kind # "wallet"
      PROVE  Advances(r, Ending([r EXCEPT !.request = "shutdown"], "cancelled"))
  <2> DEFINE q == Ending([r EXCEPT !.request = "shutdown"], "cancelled")
  <2>1. /\ q \in Records /\ q.kind = r.kind /\ q.claims = r.claims /\ q.state = r.state
        /\ q.pc = "ending" /\ q.end = "cancelled"
    BY <1>0 DEF Records, Ending, Positions, TerminalStates, Requests
  <2>2. /\ q.done = r.done /\ q.settled = r.settled
        /\ q.attempted = r.attempted /\ q.generated = r.generated
    BY <1>0 DEF Records, Ending
  <2>3. SettleInv(q) /\ q.end \in TerminalStates
    BY <1>s, <2>1 DEF SettleInv, TerminalStates
  <2>4. Counted(q)
    BY <1>0, <2>1, <2>2 DEF RecordInv, Counted, BlockPositions
  <2> HIDE DEF q
  <2>5. Advances(r, q)
    BY <1>0, <1>s, <2>1, <2>3, <2>4, ComingToEnd
  <2> QED
    BY <2>5 DEF q
<1>1. CASE r.kind = "wallet"
  <2> DEFINE q == [r EXCEPT !.estop = FALSE, !.pc = "funding"]
  <2>1. /\ q \in Records /\ q.kind = "wallet" /\ q.claims = r.claims
        /\ q.state = r.state /\ q.pc = "funding" /\ q.request = r.request
    BY <1>0, <1>1 DEF Records, Positions
  <2>2. Placed(q) /\ PauseInv(q) /\ SettleInv(q) /\ Counted(q)
    BY <2>1 DEF Placed, PauseInv, SettleInv, WalletPositions, BlockPositions,
                WaitPositions, RecordInv, Counted
  <2>3. Begin(r) = q
    BY <1>1 DEF Begin, BeginWallet, Waits
  <2> HIDE DEF q
  <2>4. Advances(r, q)
    BY <1>0, <1>1, <2>1, <2>2, GoingOn
  <2> QED
    BY <2>3, <2>4
<1>2. CASE r.kind = "blocks"
  <2>0. Begin(r) = BeginBlocks(r)
    BY <1>2 DEF Begin, Waits
  <2>1. CASE r.done >= r.config.goal
    <3> DEFINE q == Ending(r, "completed")
    <3>1. /\ q \in Records /\ q.kind = "blocks" /\ q.claims = r.claims /\ q.state = r.state
          /\ q.pc = "ending" /\ q.end = "completed" /\ q.config = r.config
      BY <1>0, <1>2 DEF Records, Ending, Positions, TerminalStates
    <3>2. /\ q.done = r.done /\ q.settled = r.settled
          /\ q.attempted = r.attempted /\ q.generated = r.generated
      BY <1>0 DEF Records, Ending
    <3>3. SettleInv(q) /\ q.end \in TerminalStates
      BY <3>1 DEF SettleInv, TerminalStates
    <3>4. Counted(q)
      BY <1>0, <1>2, <3>1, <3>2 DEF RecordInv, Counted, BlockPositions
    <3>5. q.done >= q.config.goal /\ q.kind \notin Waits
      BY <2>1, <3>1, <3>2 DEF Waits
    <3>6. BeginBlocks(r) = q
      BY <2>1 DEF BeginBlocks
    <3> HIDE DEF q
    <3>7. Advances(r, q)
      BY <1>0, <1>2, <3>1, <3>3, <3>4, <3>5, ComingToEnd
    <3> QED
      BY <2>0, <3>6, <3>7
  <2>2. CASE ~(r.done >= r.config.goal) /\ ServiceStop
    BY <1>s, <1>2, <2>0, <2>2 DEF BeginBlocks
  <2>3. CASE ~(r.done >= r.config.goal) /\ ~ServiceStop
    <3> DEFINE n == r.attempted + 1
               q == [r EXCEPT !.estop = FALSE, !.pc = "boundary", !.state = "running",
                              !.attempted = n]
    <3>0. n \in Nat
      BY <1>0 DEF Records
    <3>5. BeginBlocks(r) = q
      BY <2>3 DEF BeginBlocks
    <3> HIDE DEF n
    <3>1. /\ q \in Records /\ q.kind = "blocks" /\ q.claims = r.claims
          /\ q.state = "running" /\ q.pc = "boundary"
      BY <1>0, <1>2, <3>0 DEF Records, Positions, States
    <3>2. /\ q.done = r.done /\ q.settled = r.settled
          /\ q.attempted = n /\ q.generated = r.generated
          /\ r.done \in Nat /\ r.settled \in Nat /\ r.attempted \in Nat /\ r.generated \in Nat
      BY <1>0 DEF Records
    <3>3. Placed(q) /\ PauseInv(q) /\ SettleInv(q) /\ q.state \notin TerminalStates
      BY <3>1 DEF Placed, PauseInv, SettleInv, WalletPositions, BlockPositions,
                  WaitPositions, TerminalStates
    <3>4. Counted(q)
      BY <1>0, <1>2, <3>1, <3>2 DEF RecordInv, Counted, BlockPositions, n
    <3> HIDE DEF q
    <3>6. Advances(r, q)
      BY <1>0, <1>2, <3>1, <3>3, <3>4, GoingOn
    <3> QED
      BY <2>0, <3>5, <3>6
  <2> QED
    BY <2>1, <2>2, <2>3
<1>3. CASE r.kind \in Waits
  <2>0. Begin(r) = BeginWait(r)
    BY <1>3 DEF Begin, Waits
  <2>1. CASE ServiceStop
    BY <1>s, <1>3, <2>0, <2>1 DEF BeginWait, Waits
  <2>2. CASE ~ServiceStop
    <3> DEFINE q == [r EXCEPT !.estop = FALSE, !.pc = "await", !.state = "running",
                              !.due = FALSE, !.timedOut = FALSE, !.runStop = "no"]
    <3>1. /\ q \in Records /\ q.kind = r.kind /\ q.claims = r.claims
          /\ q.state = "running" /\ q.pc = "await"
      BY <1>0 DEF Records, Positions, States
    <3>2. Placed(q) /\ PauseInv(q) /\ SettleInv(q) /\ q.state \notin TerminalStates
      BY <1>3, <3>1 DEF Placed, PauseInv, SettleInv, WalletPositions, BlockPositions,
                  WaitPositions, TerminalStates, Waits
    <3>3. Counted(q)
      BY <1>3, <3>1 DEF Counted, Waits
    <3>4. BeginWait(r) = q
      BY <2>2 DEF BeginWait
    <3> HIDE DEF q
    <3>5. Advances(r, q)
      BY <1>0, <3>1, <3>2, <3>3, GoingOn
    <3> QED
      BY <2>0, <3>4, <3>5
  <2> QED
    BY <2>1, <2>2
<1> QED
  BY <1>0, <1>1, <1>2, <1>3 DEF Records, Kinds

\* Where a worker runs an epoch its record is not reported paused or terminal.
LEMMA Underway ==
  ASSUME NEW r, RecordInv(r), r.pc \in Executing
  PROVE  /\ r.kind # "none" /\ r.pc \notin Inert
         /\ r.state \notin TerminalStates /\ r.state # "paused" /\ r \in Records
  BY NotTerminal DEF RecordInv, KindInv, PauseInv, Inert, Executing

\* SimulationCancelled leaves the wallet workload.
LEMMA WalletCancelledAdvances ==
  ASSUME NEW r, RecordInv(r), r.kind = "wallet", r.pc \in {"funding", "send", "submit"}
  PROVE  Advances(r, WalletCancelled(r))
<1>0. /\ r.kind # "none" /\ r.pc \notin Inert \cup BlockPositions /\ r.state # "paused"
      /\ r.state \notin TerminalStates
  BY Underway DEF Executing, BlockPositions
<1>1. \/ WalletCancelled(r) = [r EXCEPT !.pc = "top"]
      \/ WalletCancelled(r) = Ending(r, "stopped") /\ r.request = "settle"
      \/ \E s \in {"stopped", "cancelled", "failed"} : WalletCancelled(r) = Cancelling(r, s)
  BY DEF WalletCancelled
<1>2. Advances(r, [r EXCEPT !.pc = "top"])
  <2>1. "top" \in Positions \ ({"none", "done", "ending", "reporting", "complete"}
                                    \cup BlockPositions)
    BY DEF Positions, BlockPositions
  <2> QED
    BY <1>0, <2>1, Moved DEF WalletPositions, WaitPositions
<1>3. r.request = "settle" => Advances(r, Ending(r, "stopped"))
  BY <1>0, Ended
<1>4. \A s \in {"stopped", "cancelled", "failed"} : Advances(r, Cancelling(r, s))
  BY <1>0, Cancelled
<1> QED
  BY <1>1, <1>2, <1>3, <1>4

\* The outstanding attempt is settled however a block generation is cancelled.
LEMMA BlocksCancelledAdvances ==
  ASSUME NEW r, RecordInv(r), r.kind = "blocks", r.pc \in BlockPositions
  PROVE  Advances(r, BlocksCancelled(r))
<1>1. \E s \in {"stopped", "cancelled", "failed"} :
         BlocksCancelled(r) = Ending(Finalize(r), s)
  BY DEF BlocksCancelled
<1> QED
  BY <1>1, Finalized

\* The wait of an epoch is cancelled, or has passed its deadline.
LEMMA WaitCancelledAdvances ==
  ASSUME NEW r, RecordInv(r), r.kind \in Waits, r.pc = "await"
  PROVE  Advances(r, WaitCancelled(r))
<1>0. /\ r.kind # "none" /\ r.pc \notin Inert \cup BlockPositions /\ r.state # "paused"
      /\ r.state \notin TerminalStates /\ r \in Records
  BY Underway DEF Executing, BlockPositions
<1>1. \/ WaitCancelled(r) = Ending([r EXCEPT !.timedOut = TRUE], "failed")
      \/ WaitCancelled(r) = [r EXCEPT !.pc = "top"]
      \/ \E s \in {"stopped", "cancelled", "failed"} : WaitCancelled(r) = Ending(r, s)
  BY DEF WaitCancelled
<1>2. Advances(r, Ending([r EXCEPT !.timedOut = TRUE], "failed"))
  <2> DEFINE q == Ending([r EXCEPT !.timedOut = TRUE], "failed")
  <2>1. /\ q \in Records /\ q.kind = r.kind /\ q.claims = r.claims /\ q.state = r.state
        /\ q.pc = "ending" /\ q.end = "failed"
    BY <1>0 DEF Records, Ending, Positions, TerminalStates
  <2>2. SettleInv(q) /\ q.end \in TerminalStates /\ Counted(q)
    BY <2>1 DEF SettleInv, TerminalStates, Counted, Waits
  <2> HIDE DEF q
  <2>3. Advances(r, q)
    BY <1>0, <2>1, <2>2, ComingToEnd DEF Waits
  <2> QED
    BY <2>3 DEF q
<1>3. Advances(r, [r EXCEPT !.pc = "top"])
  <2>1. "top" \in Positions \ ({"none", "done", "ending", "reporting", "complete"}
                                    \cup BlockPositions)
    BY DEF Positions, BlockPositions
  <2> QED
    BY <1>0, <2>1, Moved DEF WalletPositions, WaitPositions
<1>4. \A s \in {"stopped", "cancelled", "failed"} : Advances(r, Ending(r, s))
  BY <1>0, Ended
<1> QED
  BY <1>1, <1>2, <1>3, <1>4

-----------------------------------------------------------------------------
(* The steps of a worker.                                                  *)

Step(w) == \E q : Save(w, q) /\ Advances(work[w], q)

\* The positions a worker may move to without further ado.
LEMMA StepTo ==
  ASSUME NEW w \in Workloads, RecordInv(work[w]), work[w].kind # "none",
         work[w].state \notin TerminalStates, work[w].pc \notin BlockPositions,
         NEW p \in {"top", "parked", "send", "yield", "submit", "returned"},
         p \in {"send", "yield", "submit", "returned"} => work[w].kind = "wallet",
         work[w].state = "paused" => \/ p = "parked" /\ work[w].request = "pause"
                                     \/ p = "top" /\ work[w].request # "none",
         Save(w, [work[w] EXCEPT !.pc = p])
  PROVE  Step(w)
<1>1. p \in Positions \ ({"none", "done", "ending", "reporting", "complete"}
                                    \cup BlockPositions)
  BY DEF Positions, BlockPositions
<1>2. p \in WalletPositions => work[w].kind = "wallet"
  BY DEF WalletPositions
<1>3. p \notin WaitPositions
  BY DEF WaitPositions
<1>4. Advances(work[w], [work[w] EXCEPT !.pc = p])
  BY <1>1, <1>2, <1>3, Moved
<1> QED
  BY <1>4 DEF Step

\* The top of a worker's loop: honour the request or begin an epoch.
LEMMA TopStep ==
  ASSUME NEW w \in Workloads, RecordInv(work[w]), NEW kind, Top(w, kind)
  PROVE  Step(w)
<1>1. CASE work[w].request = "none"
  <2>1. work[w].pc = "top" /\ work[w].state # "paused" /\ Save(w, Begin(work[w]))
    BY <1>1 DEF Top, RecordInv, PauseInv
  <2> QED
    BY <2>1, BeginAdvances DEF Step
<1>2. CASE work[w].request # "none"
  <2>1. work[w].pc = "top" /\ Save(w, Honoured(work[w]))
    BY <1>2 DEF Top
  <2> QED
    BY <1>2, <2>1, HonouredAdvances DEF Step
<1> QED
  BY <1>1, <1>2

\* The two publications and the parking between them.
LEMMA PublishStep ==
  ASSUME NEW w \in Workloads, RecordInv(work[w]),
         PublishPaused(w) \/ Parked(w) \/ PublishRestart(w)
  PROVE  Step(w)
<1> DEFINE r == work[w]
<1>0. /\ r.kind # "none" /\ r.pc \notin Inert \cup BlockPositions
      /\ r.state \notin TerminalStates /\ r \in Records
      /\ r.pc \in {"pausing", "parked", "restarting"}
      /\ r.pc = "restarting" => r.state # "paused"
  BY NotTerminal DEF RecordInv, KindInv, PauseInv, Inert, BlockPositions, PublishPaused,
                     Parked, PublishRestart
<1>1. CASE Save(w, Cancelling(r, "failed"))
  BY <1>0, <1>1, Cancelled DEF Step
<1>2. CASE PublishPaused(w) /\ Save(w, [r EXCEPT !.pc = "parked"])
  BY <1>0, <1>2, StepTo DEF PublishPaused, RecordInv, PauseInv
<1>3. CASE r.pc = "parked" /\ r.request # "pause" /\ Save(w, [r EXCEPT !.pc = "top"])
  BY <1>0, <1>3, StepTo DEF RecordInv, PauseInv
<1>4. CASE Save(w, [r EXCEPT !.pc = "top", !.request = "shutdown"])
  <2> DEFINE q == [r EXCEPT !.pc = "top", !.request = "shutdown"]
  <2>1. /\ q \in Records /\ q.kind = r.kind /\ q.claims = r.claims /\ q.state = r.state
        /\ q.pc = "top" /\ q.request = "shutdown"
    BY <1>0 DEF Records, Positions, Requests
  <2>2. /\ q.done = r.done /\ q.settled = r.settled
        /\ q.attempted = r.attempted /\ q.generated = r.generated
    BY <1>0 DEF Records
  <2>3. Placed(q) /\ PauseInv(q) /\ SettleInv(q)
    BY <2>1 DEF Placed, PauseInv, SettleInv, WalletPositions, BlockPositions, WaitPositions
  <2>4. Counted(q)
    BY <1>0, <2>1, <2>2 DEF RecordInv, Counted, BlockPositions
  <2> HIDE DEF q
  <2>5. Advances(r, q)
    BY <1>0, <2>1, <2>3, <2>4, GoingOn
  <2> QED
    BY <1>4, <2>5 DEF Step, q
<1>5. CASE r.pc = "restarting" /\ Save(w, [r EXCEPT !.pc = "top"])
  BY <1>0, <1>5, StepTo
<1>6. CASE r.pc = "restarting" /\ Save(w, Begin(r))
  BY <1>0, <1>6, BeginAdvances DEF Step
<1> QED
  BY <1>1, <1>2, <1>3, <1>4, <1>5, <1>6 DEF PublishPaused, Parked, PublishRestart

\* set_terminal.
LEMMA SetTerminalStep ==
  ASSUME NEW w \in Workloads, RecordInv(work[w]), SetTerminal(w)
  PROVE  Step(w)
<1> DEFINE r == work[w]
           p == IF r.kind = "wallet" /\ r.end = "completed" THEN "reporting" ELSE "done"
           q == [r EXCEPT !.state = r.end, !.completing = FALSE, !.pc = p]
<1>0. Save(w, q) /\ r.pc = "ending" /\ r.end \in TerminalStates /\ r \in Records
  BY DEF SetTerminal, RecordInv, EndInv
<1>1. /\ q \in Records /\ q.kind = r.kind /\ q.claims = r.claims /\ q.state = r.end
      /\ q.pc = p /\ q.request = r.request /\ q.tracked = r.tracked /\ q.config = r.config
  BY <1>0 DEF Records, States, Positions
<1>2. /\ q.done = r.done /\ q.settled = r.settled
      /\ q.attempted = r.attempted /\ q.generated = r.generated
  BY <1>0 DEF Records
<1> HIDE DEF q
<1>3. KindInv(q)
  BY <1>0, <1>1 DEF RecordInv, KindInv, Placed, WalletPositions, BlockPositions, WaitPositions
<1>4. PauseInv(q) /\ SettleInv(q) /\ EndInv(q)
  BY <1>0, <1>1 DEF PauseInv, SettleInv, EndInv, TerminalStates
<1>5. Counted(q)
  BY <1>0, <1>1, <1>2 DEF RecordInv, Counted, BlockPositions
<1>6. BlocksInv(q)
  BY <1>0, <1>1, <1>2 DEF RecordInv, BlocksInv
<1>7. WaitInv(q)
  BY <1>0, <1>1 DEF RecordInv, WaitInv, Waits
<1>8. WalletInv(q)
  BY <1>0, <1>1 DEF RecordInv, WalletInv
<1>9. Advances(r, q)
  BY <1>0, <1>1, <1>3, <1>4, <1>5, <1>6, <1>7, <1>8
  DEF RecordInv, EndInv, Advances, Follows, Inert
<1> QED
  BY <1>0, <1>9 DEF Step

\* The epochs of a wallet workload.
LEMMA WalletStep ==
  ASSUME NEW w \in Workloads, RecordInv(work[w]),
         \/ FundWallets(w) \/ NextTransfer(w) \/ YieldTransfer(w) \/ Submit(w)
         \/ RefreshBalances(w) \/ WalletReturned(w)
  PROVE  Step(w)
<1> DEFINE r == work[w]
<1>0. /\ r.kind = "wallet" /\ r.pc \in {"funding", "send", "yield", "submit", "returned"}
      /\ r.pc \notin Inert \cup BlockPositions
      /\ r.state # "paused" /\ r.state \notin TerminalStates /\ r \in Records
  BY Underway DEF FundWallets, NextTransfer, YieldTransfer, Submit, RefreshBalances,
                  WalletReturned, Executing, BlockPositions
<1>1. CASE Save(w, Cancelling(r, "failed"))
  BY <1>0, <1>1, Cancelled DEF Step
<1>2. CASE r.pc \in {"funding", "send", "submit"} /\ Save(w, WalletCancelled(r))
  BY <1>0, <1>2, WalletCancelledAdvances DEF Step
<1>3. ASSUME NEW p \in {"top", "send", "yield", "submit", "returned"},
             Save(w, [r EXCEPT !.pc = p])
      PROVE  Step(w)
  BY <1>0, <1>3, StepTo
<1>4. CASE Save(w, [r EXCEPT !.pc = "send",
                       !.state = IF r.request = "none" THEN "running" ELSE r.state])
  <2> DEFINE t == IF r.request = "none" THEN "running" ELSE r.state
             q == [r EXCEPT !.pc = "send", !.state = t]
  <2>1. /\ q \in Records /\ q.kind = r.kind /\ q.claims = r.claims /\ q.state = t
        /\ q.pc = "send" /\ q.request = r.request
    BY <1>0 DEF Records, Positions, States
  <2> HIDE DEF q
  <2>2. /\ Placed(q) /\ PauseInv(q) /\ SettleInv(q) /\ Counted(q)
        /\ q.state \notin TerminalStates
    BY <1>0, <2>1 DEF Placed, PauseInv, SettleInv, WalletPositions, BlockPositions,
                      WaitPositions, Counted, RecordInv, TerminalStates
  <2>3. Advances(r, q)
    BY <1>0, <2>1, <2>2, GoingOn
  <2> QED
    BY <1>4, <2>3 DEF Step, q
<1>5. CASE Save(w, [r EXCEPT !.pc = "send", !.done = r.done + 1, !.tracked = TRUE])
  <2> DEFINE n == r.done + 1
             q == [r EXCEPT !.pc = "send", !.done = n, !.tracked = TRUE]
  <2>0. n \in Nat
    BY <1>0 DEF Records
  <2> HIDE DEF n
  <2>1. /\ q \in Records /\ q.kind = r.kind /\ q.claims = r.claims /\ q.state = r.state
        /\ q.pc = "send" /\ q.request = r.request
    BY <1>0, <2>0 DEF Records, Positions
  <2> HIDE DEF q
  <2>2. Placed(q) /\ PauseInv(q) /\ SettleInv(q) /\ Counted(q)
    BY <1>0, <2>1 DEF Placed, PauseInv, SettleInv, WalletPositions, BlockPositions,
                      WaitPositions, Counted, RecordInv
  <2>3. Advances(r, q)
    BY <1>0, <2>1, <2>2, GoingOn
  <2> QED
    BY <1>5, <2>3 DEF Step, q, n
<1>6. CASE r.request = "settle" /\ Save(w, Ending(r, "stopped"))
  BY <1>0, <1>6, Ended DEF Step
<1>7. CASE r.request # "settle" /\ Save(w, Ending(r, "completed"))
  <2> DEFINE q == Ending(r, "completed")
  <2>1. /\ q \in Records /\ q.kind = "wallet" /\ q.claims = r.claims /\ q.state = r.state
        /\ q.pc = "ending" /\ q.end = "completed" /\ q.request = r.request
    BY <1>0 DEF Records, Ending, Positions, TerminalStates
  <2> HIDE DEF q
  <2>2. SettleInv(q) /\ Counted(q) /\ q.end \in TerminalStates /\ q.kind \notin Waits
    BY <1>7, <2>1 DEF SettleInv, Counted, TerminalStates, Waits
  <2>3. Advances(r, q)
    BY <1>0, <2>1, <2>2, ComingToEnd
  <2> QED
    BY <1>7, <2>3 DEF Step, q
<1>8. CASE FundWallets(w)
  BY <1>1, <1>2, <1>4, <1>8 DEF FundWallets
<1>9. CASE NextTransfer(w)
  BY <1>2, <1>3, <1>9 DEF NextTransfer
<1>10. CASE YieldTransfer(w)
  BY <1>3, <1>10 DEF YieldTransfer
<1>11. CASE Submit(w)
  BY <1>1, <1>2, <1>5, <1>11 DEF Submit
<1>12. CASE RefreshBalances(w)
  BY <1>3, <1>12 DEF RefreshBalances
<1>13. CASE WalletReturned(w)
  <2>1. CASE r.request = "settle"
    BY <1>6, <1>13, <2>1 DEF WalletReturned
  <2>2. CASE r.request \in {"pause", "reconfigure"}
    BY <1>3, <1>13, <2>2 DEF WalletReturned
  <2>3. CASE r.request \notin {"settle", "pause", "reconfigure"}
    BY <1>7, <1>13, <2>3 DEF WalletReturned
  <2> QED
    BY <2>1, <2>2, <2>3
<1> QED
  BY <1>8, <1>9, <1>10, <1>11, <1>12, <1>13

\* The completion event is written or fails.
LEMMA ReportStep ==
  ASSUME NEW w \in Workloads, RecordInv(work[w]), ReportCompletion(w)
  PROVE  Step(w)
<1> DEFINE r == work[w]
           q == [r EXCEPT !.pc = "done"]
<1>0. /\ r.pc = "reporting" /\ r.kind = "wallet" /\ r.state = "completed" /\ r \in Records
      /\ r.pc \notin Inert \cup BlockPositions
  BY DEF ReportCompletion, RecordInv, KindInv, Placed, WalletPositions, EndInv, Inert,
         BlockPositions
<1>1. CASE Save(w, Cancelling(r, "failed"))
  BY <1>0, <1>1, Cancelled DEF Step
<1>2. CASE Save(w, q)
  <2>1. /\ q \in Records /\ q.kind = "wallet" /\ q.claims = r.claims /\ q.state = "completed"
        /\ q.pc = "done" /\ q.tracked = r.tracked
    BY <1>0 DEF Records, Positions
  <2> HIDE DEF q
  <2>2. KindInv(q) /\ PauseInv(q) /\ EndInv(q) /\ SettleInv(q)
    BY <1>0, <2>1 DEF RecordInv, KindInv, Placed, WalletPositions, BlockPositions,
                      WaitPositions, PauseInv, EndInv, SettleInv, TerminalStates
  <2>3. Counted(q) /\ BlocksInv(q) /\ WaitInv(q) /\ WalletInv(q)
    BY <2>1 DEF Counted, BlocksInv, WaitInv, WalletInv, Waits
  <2>4. Advances(r, q)
    BY <1>0, <2>1, <2>2, <2>3 DEF Advances, Follows, RecordInv, Inert
  <2> QED
    BY <1>2, <2>4 DEF Step
<1> QED
  BY <1>1, <1>2 DEF ReportCompletion

\* The attempt of a block generation workload.
LEMMA BlocksStep ==
  ASSUME NEW w \in Workloads, RecordInv(work[w]),
         AuthorizeMutation(w) \/ GenerateBlock(w) \/ SynchronizeBoundary(w)
  PROVE  Step(w)
<1> DEFINE r == work[w]
<1>0. /\ r.kind = "blocks" /\ r.pc \in BlockPositions
      /\ r.state # "paused" /\ r.state \notin TerminalStates /\ r \in Records
  BY Underway DEF AuthorizeMutation, GenerateBlock, SynchronizeBoundary, Executing,
                  BlockPositions
<1>n. /\ r.done \in Nat /\ r.settled \in Nat /\ r.attempted \in Nat /\ r.generated \in Nat
      /\ r.done + 1 \in Nat /\ r.generated + 1 \in Nat
  BY <1>0 DEF Records
<1>1. CASE Save(w, Ending(Finalize(r), "failed"))
  BY <1>0, <1>1, Finalized DEF Step
<1>2. CASE Save(w, BlocksCancelled(r))
  BY <1>0, <1>2, BlocksCancelledAdvances DEF Step
<1>3. ASSUME NEW p \in {"top", "generating", "sync"}, NEW d \in Nat, NEW g \in Nat,
             NEW q, q = [r EXCEPT !.pc = p, !.done = d, !.generated = g],
             \/ p = "generating" /\ r.pc = "boundary" /\ d = r.done /\ g = r.generated
             \/ p = "sync" /\ r.pc = "generating" /\ d = r.done /\ g = r.generated + 1
             \/ p = "top" /\ r.pc = "sync" /\ d = r.done + 1 /\ g = r.generated,
             Save(w, q)
      PROVE  Step(w)
  <2>1. /\ q \in Records /\ q.kind = "blocks" /\ q.claims = r.claims /\ q.state = r.state
        /\ q.pc = p /\ q.done = d /\ q.generated = g
        /\ q.attempted = r.attempted /\ q.settled = r.settled
    BY <1>0, <1>3 DEF Records, Positions
  <2>2. Placed(q) /\ PauseInv(q) /\ SettleInv(q)
    BY <1>0, <2>1 DEF Placed, PauseInv, SettleInv, WalletPositions, BlockPositions,
                      WaitPositions
  <2>3. Counted(q)
    BY <1>0, <1>n, <1>3, <2>1 DEF RecordInv, Counted, BlockPositions
  <2>4. Advances(r, q)
    BY <1>0, <2>1, <2>2, <2>3, GoingOn
  <2> QED
    BY <1>3, <2>4 DEF Step
<1>4. CASE r.pc = "boundary" /\ Save(w, [r EXCEPT !.pc = "generating"])
  <2>1. [r EXCEPT !.pc = "generating"]
           = [r EXCEPT !.pc = "generating", !.done = r.done, !.generated = r.generated]
    BY <1>0 DEF Records
  <2> QED
    BY <1>3, <1>4, <1>n, <2>1
<1>5. CASE r.pc = "generating" /\ Save(w, [r EXCEPT !.pc = "sync", !.generated = r.generated + 1])
  <2> DEFINE g == r.generated + 1
  <2>0. g \in Nat /\ Save(w, [r EXCEPT !.pc = "sync", !.generated = g]) /\ g = r.generated + 1
    BY <1>5, <1>n
  <2> HIDE DEF g
  <2>1. [r EXCEPT !.pc = "sync", !.generated = g]
           = [r EXCEPT !.pc = "sync", !.done = r.done, !.generated = g]
    BY <1>0 DEF Records
  <2> QED
    BY <1>3, <1>5, <1>n, <2>0, <2>1
<1>6. CASE r.pc = "sync" /\ Save(w, [r EXCEPT !.pc = "top", !.done = r.done + 1])
  <2> DEFINE d == r.done + 1
  <2>0. d \in Nat /\ Save(w, [r EXCEPT !.pc = "top", !.done = d]) /\ d = r.done + 1
    BY <1>6, <1>n
  <2> HIDE DEF d
  <2>1. [r EXCEPT !.pc = "top", !.done = d]
           = [r EXCEPT !.pc = "top", !.done = d, !.generated = r.generated]
    BY <1>0 DEF Records
  <2> QED
    BY <1>3, <1>6, <1>n, <2>0, <2>1
<1> QED
  BY <1>1, <1>2, <1>4, <1>5, <1>6 DEF AuthorizeMutation, GenerateBlock, SynchronizeBoundary

\* The target is reached in time, or the wait is cancelled.
LEMMA AwaitStep ==
  ASSUME NEW w \in Workloads, RecordInv(work[w]), NEW kind \in Waits,
         Reached(w, kind) \/ Interrupted(w, kind)
  PROVE  Step(w)
<1> DEFINE r == work[w]
<1>0. /\ r.kind \in Waits /\ r.pc = "await" /\ r.pc \notin Inert \cup BlockPositions
      /\ r.state \notin TerminalStates /\ r \in Records
  BY Underway DEF Reached, Interrupted, Executing, BlockPositions
<1>1. CASE Save(w, WaitCancelled(r))
  BY <1>0, <1>1, WaitCancelledAdvances DEF Step
<1>2. CASE Save(w, Ending(r, "failed"))
  BY <1>0, <1>2, Ended DEF Step
<1>3. CASE /\ ~r.due /\ ~r.timedOut
           /\ Save(w, [r EXCEPT !.pc = "complete", !.completing = TRUE,
                                !.settling = r.request = "settle", !.state = "stopping"])
  <2> DEFINE b == r.request = "settle"
             q == [r EXCEPT !.pc = "complete", !.completing = TRUE, !.settling = b,
                            !.state = "stopping"]
  <2>0. b \in BOOLEAN
    OBVIOUS
  <2> HIDE DEF b
  <2>1. /\ q \in Records /\ q.kind = r.kind /\ q.claims = r.claims /\ q.state = "stopping"
        /\ q.pc = "complete" /\ q.completing = TRUE /\ q.due = r.due
        /\ q.timedOut = r.timedOut
    BY <1>0, <2>0 DEF Records, Positions, States
  <2> HIDE DEF q
  <2>2. /\ Placed(q) /\ PauseInv(q) /\ SettleInv(q) /\ Counted(q)
        /\ q.state \notin TerminalStates /\ q.kind # "none"
    BY <1>0, <2>1 DEF Placed, PauseInv, SettleInv, Counted, WalletPositions, BlockPositions,
                      WaitPositions, TerminalStates, Waits
  <2>3. Advances(r, q)
    BY <1>0, <1>3, <2>1, <2>2, GoingOn
  <2> QED
    BY <1>3, <2>3 DEF Step, q, b
<1> QED
  BY <1>1, <1>2, <1>3 DEF Reached, Interrupted

\* The result of a wait is stored.
LEMMA CompleteStep ==
  ASSUME NEW w \in Workloads, RecordInv(work[w]), CompleteWait(w)
  PROVE  Step(w)
<1> DEFINE r == work[w]
           t == IF r.settling THEN "stopped" ELSE "completed"
           q == [r EXCEPT !.pc = "done", !.completing = FALSE, !.done = 1, !.state = t]
<1>0. /\ r.pc = "complete" /\ r.kind \in Waits /\ r \in Records /\ ~r.due /\ ~r.timedOut
      /\ r.state \notin TerminalStates /\ r.pc \notin Inert \cup BlockPositions
  BY Underway DEF CompleteWait, RecordInv, KindInv, Placed, WaitPositions, WaitInv,
                  Executing, BlockPositions
<1>1. CASE Save(w, Ending(r, "failed"))
  BY <1>0, <1>1, Ended DEF Step
<1>2. CASE Save(w, q)
  <2>0. t \in {"stopped", "completed"}
    OBVIOUS
  <2>q. Save(w, q)
    BY <1>2
  <2> HIDE DEF t
  <2>1. /\ q \in Records /\ q.kind = r.kind /\ q.claims = r.claims /\ q.state = t
        /\ q.pc = "done" /\ q.done = 1 /\ q.due = r.due /\ q.timedOut = r.timedOut
    BY <1>0, <2>0 DEF Records, Positions, States, TerminalStates
  <2> HIDE DEF q
  <2>2. KindInv(q) /\ PauseInv(q) /\ EndInv(q) /\ SettleInv(q)
    BY <1>0, <2>0, <2>1 DEF RecordInv, KindInv, Placed, WalletPositions, BlockPositions,
                      WaitPositions, PauseInv, EndInv, SettleInv, TerminalStates, Waits
  <2>3. Counted(q) /\ BlocksInv(q) /\ WaitInv(q) /\ WalletInv(q)
    BY <1>0, <2>1 DEF Counted, BlocksInv, WaitInv, WalletInv, Waits
  <2>4. Advances(r, q)
    BY <1>0, <2>1, <2>2, <2>3 DEF Advances, Follows, RecordInv, Inert
  <2> QED
    BY <2>q, <2>4 DEF Step
<1> QED
  BY <1>1, <1>2 DEF CompleteWait

\* An epoch of a wait is marked.
LEMMA Marked ==
  ASSUME NEW r, RecordInv(r), r.pc = "await", NEW d \in BOOLEAN, NEW l \in BOOLEAN,
         NEW s \in {"no", "before", "after"}, NEW t \in BOOLEAN, NEW e \in BOOLEAN
  PROVE  Advances(r, [r EXCEPT !.due = d, !.late = l, !.runStop = s, !.timedOut = t,
                               !.estop = e])
<1> DEFINE q == [r EXCEPT !.due = d, !.late = l, !.runStop = s, !.timedOut = t, !.estop = e]
<1>0. /\ r.kind \in Waits /\ r.state # "paused" /\ r \in Records
      /\ r.state \notin TerminalStates /\ r.kind # "none"
  BY Underway DEF RecordInv, KindInv, Placed, WaitPositions, Executing
<1>1. q \in Records
  BY <1>0 DEF Records
<1>2. q.kind = r.kind /\ q.claims = r.claims /\ q.state = r.state /\ q.pc = "await"
  BY <1>0 DEF Records
<1> HIDE DEF q
<1>3. Placed(q) /\ PauseInv(q) /\ SettleInv(q) /\ Counted(q)
  BY <1>0, <1>2 DEF Placed, PauseInv, SettleInv, Counted, WalletPositions, BlockPositions,
                    WaitPositions, Waits
<1>4. Advances(r, q)
  BY <1>0, <1>1, <1>2, <1>3, GoingOn
<1> QED
  BY <1>4 DEF q

\* The deadline, its timer and the stop of the service mark an epoch.
LEMMA DeadlineStep ==
  ASSUME NEW w \in Workloads, RecordInv(work[w]),
         DeadlinePasses(w) \/ DeadlineTimer(w) \/ ServiceStopCallback(w),
         shutdown.tick \in BOOLEAN
  PROVE  Step(w)
<1> DEFINE r == work[w]
<1>0. r.pc = "await" /\ r \in Records
  BY DEF DeadlinePasses, DeadlineTimer, ServiceStopCallback, RecordInv
<1>1. PICK d \in BOOLEAN, l \in BOOLEAN, s \in {"no", "before", "after"},
           t \in BOOLEAN, e \in BOOLEAN :
        Save(w, [r EXCEPT !.due = d, !.late = l, !.runStop = s, !.timedOut = t, !.estop = e])
  <2>1. /\ r.due \in BOOLEAN /\ r.late \in BOOLEAN /\ r.runStop \in {"no", "before", "after"}
        /\ r.timedOut \in BOOLEAN /\ r.estop \in BOOLEAN
    BY <1>0 DEF Records
  <2>2. CASE DeadlinePasses(w)
    <3> DEFINE l == ~shutdown.tick
    <3>0. l \in BOOLEAN /\ Save(w, [r EXCEPT !.due = TRUE, !.late = l])
      BY <2>2 DEF DeadlinePasses
    <3> HIDE DEF l
    <3>1. [r EXCEPT !.due = TRUE, !.late = l]
             = [r EXCEPT !.due = TRUE, !.late = l, !.runStop = r.runStop,
                         !.timedOut = r.timedOut, !.estop = r.estop]
      BY <1>0 DEF Records
    <3> QED
      BY <3>0, <3>1, <2>1
  <2>3. CASE DeadlineTimer(w)
    <3>1. [r EXCEPT !.timedOut = TRUE, !.estop = TRUE]
             = [r EXCEPT !.due = r.due, !.late = r.late, !.runStop = r.runStop,
                         !.timedOut = TRUE, !.estop = TRUE]
      BY <1>0 DEF Records
    <3> QED
      BY <3>1, <2>1, <2>3 DEF DeadlineTimer
  <2>4. CASE ServiceStopCallback(w)
    <3> DEFINE s == IF r.due /\ r.late THEN "after" ELSE "before"
    <3>0. /\ s \in {"no", "before", "after"}
          /\ Save(w, [r EXCEPT !.runStop = s, !.estop = TRUE])
      BY <2>4 DEF ServiceStopCallback
    <3> HIDE DEF s
    <3>1. [r EXCEPT !.runStop = s, !.estop = TRUE]
             = [r EXCEPT !.due = r.due, !.late = r.late, !.runStop = s,
                         !.timedOut = r.timedOut, !.estop = TRUE]
      BY <1>0 DEF Records
    <3> QED
      BY <3>0, <3>1, <2>1
  <2> QED
    BY <2>2, <2>3, <2>4
<1>2. Advances(r, [r EXCEPT !.due = d, !.late = l, !.runStop = s, !.timedOut = t,
                            !.estop = e])
  BY <1>0, <1>1, Marked, ZenonT(90)
<1> QED
  BY <1>1, <1>2, Zenon DEF Step

-----------------------------------------------------------------------------
(* The operations.                                                         *)

\* Nothing of what the worker does to a record changes.
Kept(r, q) ==
    /\ q.kind = r.kind /\ q.pc = r.pc /\ q.end = r.end
    /\ q.done = r.done /\ q.attempted = r.attempted /\ q.settled = r.settled
    /\ q.generated = r.generated /\ q.tracked = r.tracked
    /\ q.due = r.due /\ q.timedOut = r.timedOut /\ q.completing = r.completing

\* A record is asked for something, and may be given a configuration for later.
LEMMA AskedFollows ==
  ASSUME NEW r, RecordInv(r), r.state \notin TerminalStates, r.kind # "none",
         NEW q \in Records, Kept(r, q), q.config = r.config,
         q.state \in {"starting", "stopping"}, q.claims = r.claims \/ r.kind = "wallet",
         q.request = "settle" => q.state = "stopping",
         r.kind = "wallet" /\ r.state = "stopping" =>
            q.state = "stopping" /\ q.request # "cancel"
  PROVE  Follows(r, q)
<1>1. q.state \notin TerminalStates /\ q.state # "paused"
  BY DEF TerminalStates
<1>2. PauseInv(q) /\ SettleInv(q)
  BY <1>1 DEF PauseInv, SettleInv
<1> QED
  BY <1>1, <1>2, Operated DEF Kept

\* The step of an operation that only asks.
LEMMA AskStep ==
  ASSUME NEW w \in Workloads, RecordInv(work[w]), work[w].state \notin TerminalStates,
         work[w].kind # "none", NEW q \in Records, Save(w, q),
         Kept(work[w], q), q.config = work[w].config, q.claims = work[w].claims,
         q.state \in {"starting", "stopping"},
         q.request = "settle" => q.state = "stopping",
         work[w].kind = "wallet" /\ work[w].state = "stopping" =>
            q.state = "stopping" /\ q.request # "cancel"
  PROVE  Step(w)
<1>1. Follows(work[w], q)
  BY AskedFollows
<1> QED
  BY <1>1 DEF Step, Advances

\* A paused record is given its configuration at once.
LEMMA ConfiguredFollows ==
  ASSUME NEW r, RecordInv(r), r.state = "paused", r.kind # "none",
         NEW q \in Records, Kept(r, q), q.state = r.state, q.request = r.request,
         q.claims = r.claims \/ r.kind = "wallet"
  PROVE  Follows(r, q)
<1>1. PauseInv(q) /\ SettleInv(q)
  BY DEF RecordInv, PauseInv, SettleInv, Kept
<1>2. q.state \notin TerminalStates /\ r.state \notin TerminalStates
  BY DEF TerminalStates
<1> QED
  BY <1>1, <1>2, Operated DEF Kept

\* A request with a new stop flag and, for a reconfiguration, what is to come.
LEMMA RequestStep ==
  ASSUME NEW w \in Workloads, RecordInv(work[w]), Stoppable(work[w]),
         work[w].kind # "none", NEW a \in Requests, NEW q,
         \/ q = Asked(work[w], a)
         \/ \E e \in BOOLEAN : q = [Asked(work[w], a) EXCEPT !.estop = e]
         \/ \E c \in ConfigSet : q = [Asked(work[w], a) EXCEPT !.pending = c]
         \/ \E c \in ConfigSet, e \in BOOLEAN :
               q = [Asked(work[w], a) EXCEPT !.pending = c, !.estop = e],
         Save(w, q)
  PROVE  Step(w)
<1> DEFINE r == work[w]
<1>0. r \in Records /\ r.state \notin TerminalStates /\ r.state # "stopping"
  BY DEF RecordInv, Stoppable, IsTerminalLiveWorkloadState
<1>1. PICK c \in ConfigSet, e \in BOOLEAN :
         q = [r EXCEPT !.request = a, !.state = "stopping", !.pending = c, !.estop = e]
  <2>1. r.pending \in ConfigSet /\ r.estop \in BOOLEAN
    BY <1>0 DEF Records
  <2>2. CASE q = Asked(r, a)
    <3>1. q = [r EXCEPT !.request = a, !.state = "stopping", !.pending = r.pending,
                        !.estop = r.estop]
      BY <1>0, <2>2 DEF Records, Asked
    <3> QED
      BY <2>1, <3>1
  <2>3. ASSUME NEW e \in BOOLEAN, q = [Asked(r, a) EXCEPT !.estop = e]
        PROVE  q = [r EXCEPT !.request = a, !.state = "stopping", !.pending = r.pending,
                             !.estop = e]
    BY <1>0, <2>3 DEF Records, Asked
  <2>4. ASSUME NEW c \in ConfigSet, q = [Asked(r, a) EXCEPT !.pending = c]
        PROVE  q = [r EXCEPT !.request = a, !.state = "stopping", !.pending = c,
                             !.estop = r.estop]
    BY <1>0, <2>4 DEF Records, Asked
  <2>5. ASSUME NEW c \in ConfigSet, NEW e \in BOOLEAN,
               q = [Asked(r, a) EXCEPT !.pending = c, !.estop = e]
        PROVE  q = [r EXCEPT !.request = a, !.state = "stopping", !.pending = c,
                             !.estop = e]
    BY <2>5 DEF Asked
  <2> QED
    BY <2>1, <2>2, <2>3, <2>4, <2>5, ZenonT(30)
<1>2. q \in Records
  BY <1>0, <1>1 DEF Records, States
<1>3. Kept(r, q) /\ q.config = r.config /\ q.claims = r.claims /\ q.state = "stopping"
  BY <1>0, <1>1 DEF Records, Kept
<1> QED
  BY <1>0, <1>2, <1>3, AskStep

\* What may be asked for is a configuration.
LEMMA ConfigsInSet ==
  ASSUME NEW kind \in Kinds, NEW c \in Configs(kind)
  PROVE  c \in ConfigSet /\ c.wallets \in SUBSET Wallets /\ (kind # "wallet" => c.wallets = {})
  BY DEF Configs, ConfigSet

\* The operations on the workload of a wallet or a block generation.
LEMMA StopStep ==
  ASSUME NEW w \in Workloads, RecordInv(work[w]),
         \/ PauseWallet(w) \/ PauseBlocks(w)
         \/ \E policy \in {"cancel", "settle"} : StopWallet(w, policy) \/ StopBlocks(w, policy)
         \/ \E c \in Configs("blocks") : ReconfigureBlocks(w, c)
  PROVE  Step(w)
<1> DEFINE r == work[w]
<1>0. /\ r \in Records /\ Stoppable(r) /\ r.kind # "none" /\ r.estop \in BOOLEAN
  BY DEF RecordInv, Records, PauseWallet, PauseBlocks, StopWallet, StopBlocks,
         ReconfigureBlocks, Control
<1>1. \A p \in {"pause", "cancel", "settle", "reconfigure"} : p \in Requests
  BY DEF Requests
<1>2. CASE PauseWallet(w)
  <2> DEFINE e == r.estop \/ r.state # "starting"
  <2>1. e \in BOOLEAN /\ Save(w, [Asked(r, "pause") EXCEPT !.estop = e])
    BY <1>0, <1>2 DEF PauseWallet, Asked, Records
  <2> HIDE DEF e
  <2> QED
    BY <1>0, <1>1, <2>1, RequestStep
<1>3. CASE PauseBlocks(w)
  BY <1>0, <1>1, <1>3, RequestStep DEF PauseBlocks
<1>4. ASSUME NEW policy \in {"cancel", "settle"}, StopWallet(w, policy)
      PROVE  Step(w)
  <2> DEFINE e == r.estop \/ policy = "cancel" \/ r.state = "starting"
  <2>1. e \in BOOLEAN /\ Save(w, [Asked(r, policy) EXCEPT !.estop = e])
    BY <1>0, <1>4 DEF StopWallet, Asked, Records
  <2> HIDE DEF e
  <2> QED
    BY <1>0, <1>1, <2>1, RequestStep
<1>5. ASSUME NEW policy \in {"cancel", "settle"}, StopBlocks(w, policy)
      PROVE  Step(w)
  <2> DEFINE e == r.estop \/ policy = "cancel"
  <2>1. e \in BOOLEAN /\ Save(w, [Asked(r, policy) EXCEPT !.estop = e])
    BY <1>0, <1>5 DEF StopBlocks, Asked, Records
  <2> HIDE DEF e
  <2> QED
    BY <1>0, <1>1, <2>1, RequestStep
<1>6. ASSUME NEW c \in Configs("blocks"), ReconfigureBlocks(w, c)
      PROVE  Step(w)
  <2>0. c \in ConfigSet
    BY ConfigsInSet DEF Kinds
  <2>1. CASE r.state = "paused"
    <3> DEFINE q == [r EXCEPT !.config = c]
    <3>1. Save(w, q)
      BY <1>6, <2>1 DEF ReconfigureBlocks
    <3>2. q \in Records /\ Kept(r, q) /\ q.state = r.state /\ q.request = r.request
          /\ q.claims = r.claims
      BY <1>0, <2>0 DEF Records, Kept
    <3> HIDE DEF q
    <3>3. Advances(r, q)
      BY <1>0, <2>1, <3>2, ConfiguredFollows DEF Advances
    <3> QED
      BY <3>1, <3>3 DEF Step
  <2>2. CASE r.state # "paused"
    <3>1. Save(w, [Asked(r, "reconfigure") EXCEPT !.pending = c])
      BY <1>6, <2>2 DEF ReconfigureBlocks
    <3> QED
      BY <1>0, <1>1, <2>0, <3>1, RequestStep
  <2> QED
    BY <2>1, <2>2
<1> QED
  BY <1>2, <1>3, <1>4, <1>5, <1>6

\* The operations on a wait.
LEMMA WaitControlStep ==
  ASSUME NEW w \in Workloads, RecordInv(work[w]), ControlHeight(w) \/ ControlPeers(w)
  PROVE  Step(w)
<1> DEFINE r == work[w]
<1>0. r \in Records /\ r.estop \in BOOLEAN
  BY DEF RecordInv, Records
<1>1. \A p \in {"pause", "cancel", "settle", "reconfigure"} : p \in Requests
  BY DEF Requests
<1>2. ASSUME NEW kind \in Waits, PauseWait(w, kind)
      PROVE  Step(w)
  <2>1. /\ Stoppable(r) /\ r.kind # "none"
        /\ Save(w, [Asked(r, "pause") EXCEPT !.estop = TRUE])
    BY <1>2 DEF PauseWait, Steerable, Control, Waits
  <2> QED
    BY <1>1, <2>1, RequestStep
<1>3. ASSUME NEW kind \in Waits, NEW policy \in {"cancel", "settle"},
             StopWait(w, kind, policy)
      PROVE  Step(w)
  <2> DEFINE e == r.estop \/ policy = "cancel"
             q == [Asked(r, policy) EXCEPT !.estop = e]
  <2>0. e \in BOOLEAN
    BY <1>0
  <2>1. Save(w, q) /\ r.kind \in Waits
    BY <1>0, <1>3 DEF StopWait, Asked, Records, Control
  <2>2. r.kind # "none" /\ r.kind # "wallet"
    BY <2>1 DEF Waits
  <2>3. r.state \notin TerminalStates
    BY <1>3 DEF StopWait, Steerable, Stoppable, IsTerminalLiveWorkloadState, TerminalStates
  <2> HIDE DEF e
  <2>4. q = [r EXCEPT !.request = policy, !.state = "stopping", !.estop = e]
    BY DEF Asked
  <2> HIDE DEF q
  <2>5. policy \in Requests
    BY <1>1
  <2>6. q \in Records
    BY <1>0, <2>0, <2>4, <2>5 DEF Records, States
  <2>7. Kept(r, q) /\ q.config = r.config /\ q.claims = r.claims /\ q.state = "stopping"
    BY <1>0, <2>4 DEF Records, Kept
  <2> QED
    BY <2>1, <2>2, <2>3, <2>6, <2>7, AskStep
<1>4. ASSUME NEW kind \in Waits, NEW c \in Configs(kind), ReconfigureWait(w, kind, c)
      PROVE  Step(w)
  <2>0. c \in ConfigSet /\ r.kind # "none"
    BY <1>4, ConfigsInSet DEF Kinds, Waits, ReconfigureWait, Control
  <2>1. CASE r.state = "paused"
    <3> DEFINE q == [r EXCEPT !.config = c]
    <3>1. Save(w, q)
      BY <1>4, <2>1 DEF ReconfigureWait
    <3>2. q \in Records /\ Kept(r, q) /\ q.state = r.state /\ q.request = r.request
          /\ q.claims = r.claims
      BY <1>0, <2>0 DEF Records, Kept
    <3> HIDE DEF q
    <3>3. Advances(r, q)
      BY <2>0, <2>1, <3>2, ConfiguredFollows DEF Advances
    <3> QED
      BY <3>1, <3>3 DEF Step
  <2>2. CASE r.state # "paused"
    <3>1. Save(w, [Asked(r, "reconfigure") EXCEPT !.pending = c, !.estop = TRUE])
          /\ Stoppable(r)
      BY <1>4, <2>2 DEF ReconfigureWait, Steerable
    <3> QED
      BY <1>1, <2>0, <3>1, RequestStep
  <2> QED
    BY <2>1, <2>2
<1> QED
  BY <1>2, <1>3, <1>4 DEF ControlHeight, ControlPeers, Waits

\* A cancelled start, an epoch found expired, and a resumption.
LEMMA OtherControlStep ==
  ASSUME NEW w \in Workloads, RecordInv(work[w]),
         CancelStart(w) \/ ExpireEpoch(w) \/ Resume(w)
  PROVE  Step(w)
<1> DEFINE r == work[w]
<1>0. r \in Records /\ r.kind \in Kinds /\ r.kind # "none" /\ r.state \notin TerminalStates
  BY DEF RecordInv, CancelStart, ExpireEpoch, Resume, Control, Kinds, Waits,
         IsTerminalLiveWorkloadState, TerminalStates
<1>1. CASE CancelStart(w)
  <2> DEFINE q == [r EXCEPT !.request = "cancel", !.estop = TRUE]
  <2>1. Save(w, q) /\ r.state = "starting"
    BY <1>1 DEF CancelStart
  <2>2. /\ q \in Records /\ Kept(r, q) /\ q.config = r.config /\ q.claims = r.claims
        /\ q.state = "starting" /\ q.request = "cancel"
    BY <1>0, <2>1 DEF Records, Kept, Requests
  <2> HIDE DEF q
  <2> QED
    BY <1>0, <2>1, <2>2, AskStep
<1>2. CASE Resume(w)
  <2> DEFINE q == [r EXCEPT !.request = "none", !.state = "starting"]
  <2>1. Save(w, q) /\ r.state = "paused"
    BY <1>2 DEF Resume
  <2>2. /\ q \in Records /\ Kept(r, q) /\ q.config = r.config /\ q.claims = r.claims
        /\ q.state = "starting" /\ q.request = "none"
    BY <1>0 DEF Records, Kept, Requests, States
  <2> HIDE DEF q
  <2> QED
    BY <1>0, <2>1, <2>2, AskStep
<1>3. CASE ExpireEpoch(w)
  <2> DEFINE q == [r EXCEPT !.timedOut = TRUE, !.estop = TRUE]
  <2>1. Save(w, q) /\ r.kind \in Waits /\ Expired(r)
    BY <1>3 DEF ExpireEpoch, Control
  <2>2. /\ q \in Records /\ q.kind = r.kind /\ q.pc = r.pc /\ q.end = r.end
        /\ q.claims = r.claims /\ q.state = r.state /\ q.request = r.request
        /\ q.config = r.config /\ q.timedOut = TRUE
    BY <1>0 DEF Records
  <2>3. /\ q.done = r.done /\ q.attempted = r.attempted /\ q.settled = r.settled
        /\ q.generated = r.generated /\ q.tracked = r.tracked /\ q.due = r.due
        /\ q.completing = r.completing
    BY <1>0 DEF Records
  <2> HIDE DEF q
  <2>4. r.pc # "complete"
    BY <2>1 DEF RecordInv, WaitInv, Expired
  <2>5. PauseInv(q) /\ SettleInv(q)
    BY <2>2 DEF RecordInv, PauseInv, SettleInv
  <2>6. Follows(r, q)
    BY <1>0, <2>1, <2>2, <2>3, <2>4, <2>5, Operated DEF Waits
  <2> QED
    BY <2>1, <2>2, <2>6 DEF Step, Advances
<1> QED
  BY <1>1, <1>2, <1>3

\* RequestLiveWorkloadShutdown asks one record, or finds it expired.
LEMMA ShutdownRecordStep ==
  ASSUME NEW w \in Workloads, RecordInv(work[w]), ShutdownRecord(w)
  PROVE  Step(w)
<1> DEFINE r == work[w]
<1>0. r \in Records
  BY DEF RecordInv
<1>1. CASE (~Active(w) \/ r.completing) /\ Save(w, r)
  <2>1. Advances(r, r)
    BY DEF Advances, Follows
  <2> QED
    BY <1>1, <2>1 DEF Step
<1>a. Active(w) => r.kind # "none" /\ r.state \notin TerminalStates
  BY DEF Active, Retained, IsTerminalLiveWorkloadState
<1>2. CASE Active(w) /\ ~r.completing /\ r.kind \in Waits /\ Save(w, [r EXCEPT !.timedOut = TRUE])
  <2> DEFINE q == [r EXCEPT !.timedOut = TRUE]
  <2>2. /\ q \in Records /\ q.kind = r.kind /\ q.pc = r.pc /\ q.end = r.end
        /\ q.claims = r.claims /\ q.state = r.state /\ q.request = r.request
        /\ q.config = r.config /\ q.timedOut = TRUE
    BY <1>0 DEF Records
  <2>3. /\ q.done = r.done /\ q.attempted = r.attempted /\ q.settled = r.settled
        /\ q.generated = r.generated /\ q.tracked = r.tracked /\ q.due = r.due
        /\ q.completing = r.completing
    BY <1>0 DEF Records
  <2>1. Save(w, q)
    BY <1>2
  <2> HIDE DEF q
  <2>4. r.pc # "complete"
    BY <1>2 DEF RecordInv, WaitInv
  <2>5. PauseInv(q) /\ SettleInv(q)
    BY <2>2 DEF RecordInv, PauseInv, SettleInv
  <2>6. Follows(r, q)
    BY <1>a, <1>2, <2>2, <2>3, <2>4, <2>5, Operated DEF Waits
  <2> QED
    BY <2>1, <2>2, <2>6 DEF Step, Advances
<1>3. ASSUME NEW a \in {"runFailure", "shutdown"}, Active(w), Save(w, Asked(r, a))
      PROVE  Step(w)
  <2> DEFINE q == Asked(r, a)
  <2>1. /\ q \in Records /\ Kept(r, q) /\ q.config = r.config /\ q.claims = r.claims
        /\ q.state = "stopping" /\ q.request = a
    BY <1>0, <1>3 DEF Asked, Records, Kept, Requests, States
  <2>2. Save(w, q)
    BY <1>3
  <2> HIDE DEF q
  <2> QED
    BY <1>a, <1>3, <2>1, <2>2, AskStep
<1>4. CASE shutdown.failed
  BY <1>1, <1>2, <1>3, <1>4 DEF ShutdownRecord
<1>5. CASE ~shutdown.failed
  BY <1>1, <1>2, <1>3, <1>5 DEF ShutdownRecord
<1> QED
  BY <1>4, <1>5

-----------------------------------------------------------------------------
(* From one record to all of them.                                         *)

FinalStep ==
    \A w \in Workloads : IsTerminalLiveWorkloadState(work[w].state) =>
          \/ work'[w].state = work[w].state
          \/ work[w].kind = "wallet" /\ work[w].pc = "ending" /\ work'[w].state = "failed"

\* The claims are as they were, or free of those of every other active record.
Apart(w, q) ==
    q.claims = work[w].claims
    \/ \A v \in Workloads \ {w} : Active(v) => q.claims \cap work[v].claims = {}

\* The service and the shutdown keep their types, and the shutdown its place.
Calm ==
    /\ service' \in {"open", "closed", "cancelled"} /\ mutating' = mutating
    /\ ShutdownType' /\ shutdown'.pc = shutdown.pc

\* A record that is not active is not in use or in a terminal state.
LEMMA Inactive ==
  ASSUME NEW w \in Workloads, ~Active(w)
  PROVE  work[w].kind = "none" \/ work[w].state \in TerminalStates
  BY DEF Active, Retained, IsTerminalLiveWorkloadState

\* A step that changes one record keeps the invariant when it keeps the record's.
LEMMA OneRecord ==
  ASSUME WorkInv, NEW w \in Workloads, NEW q, Save(w, q), Follows(work[w], q),
         Apart(w, q), Calm
  PROVE  WorkInv' /\ FinalStep
<1>0. /\ work' = [work EXCEPT ![w] = q] /\ work'[w] = q
      /\ \A v \in Workloads \ {w} : work'[v] = work[v]
  BY DEF WorkInv, Save
<1>1. /\ work' \in [Workloads -> Records]
      /\ \A v \in Workloads : RecordInv(work'[v])
  <2>1. q \in Records /\ RecordInv(q)
    BY DEF Follows, RecordInv
  <2> QED
    BY <1>0, <2>1 DEF WorkInv
<1>2. \A v \in Workloads : Active(v)' => Active(v)
  <2>1. \A v \in Workloads \ {w} : Active(v)' => Active(v)
    BY <1>0 DEF Active, Retained
  <2>2. Active(w)' => Active(w)
    BY <1>0 DEF Active, Retained, Follows, IsTerminalLiveWorkloadState, TerminalStates
  <2> QED
    BY <2>1, <2>2
<1>3. \A v \in Workloads \ {w} : Active(v)' /\ Active(w)' => q.claims \cap work[v].claims = {}
  BY <1>2 DEF Apart, WorkInv, ClaimsAreDisjoint
<1>4. ClaimsAreDisjoint'
  <2> SUFFICES ASSUME NEW u \in Workloads, NEW v \in Workloads, u # v, Active(u)', Active(v)'
               PROVE  work'[u].claims \cap work'[v].claims = {}
    BY DEF ClaimsAreDisjoint
  <2>1. CASE u = w
    BY <1>0, <1>3, <2>1
  <2>2. CASE v = w
    BY <1>0, <1>3, <2>2
  <2>3. CASE u # w /\ v # w
    BY <1>0, <1>2, <2>3 DEF WorkInv, ClaimsAreDisjoint
  <2> QED
    BY <2>1, <2>2, <2>3
<1>5. RetirementExcludesWorkloads'
  <2>1. \A v \in Workloads : ~Active(v) /\ ~work[v].tracked => ~work'[v].tracked
    <3>1. ~Active(w) /\ ~work[w].tracked => ~q.tracked
      <4>1. NoWork.tracked = FALSE
        BY DEF NoWork
      <4> QED
        BY <4>1, Inactive DEF Follows, RecordInv, KindInv
    <3> QED
      BY <1>0, <3>1
  <2> QED
    BY <1>2, <2>1 DEF WorkInv, RetirementExcludesWorkloads, Calm
<1>6. DrainInv'
  BY <1>0 DEF WorkInv, DrainInv, Calm, Follows, Inert
<1>7. FinalStep
  BY <1>0 DEF FinalStep, Follows, IsTerminalLiveWorkloadState
<1> QED
  BY <1>1, <1>4, <1>5, <1>6, <1>7 DEF WorkInv, Calm

\* A step that advances one record.
LEMMA StepKeeps ==
  ASSUME WorkInv, NEW w \in Workloads, Step(w), Calm
  PROVE  WorkInv' /\ FinalStep
  BY OneRecord DEF Step, Advances, Apart

\* A record that is not in use.
LEMMA NoWorkFits ==
  RecordInv(NoWork) /\ NoWork \in Records
<1> DEFINE r == NoWork
<1>0. NoConfig \in ConfigSet
  BY DEF NoConfig, ConfigSet
<1>1. r \in Records
  BY <1>0 DEF NoWork, Records, Kinds, Waits, Positions, States, Requests, TerminalStates
<1>2. KindInv(r) /\ PauseInv(r) /\ EndInv(r)
  BY DEF NoWork, KindInv, PauseInv, EndInv, Placed, WalletPositions, BlockPositions,
         WaitPositions, TerminalStates
<1>3. Counted(r) /\ BlocksInv(r) /\ WaitInv(r) /\ SettleInv(r) /\ WalletInv(r)
  BY DEF NoWork, Counted, BlocksInv, WaitInv, SettleInv, WalletInv, Waits
<1> QED
  BY <1>1, <1>2, <1>3 DEF RecordInv

\* A launch that fails takes the record out again.
LEMMA StartKeeps ==
  ASSUME WorkInv, NEW w \in Workloads, StartWorker(w)
  PROVE  WorkInv' /\ FinalStep
<1> DEFINE r == work[w]
<1>0. /\ RecordInv(r) /\ r.pc = "launched" /\ r.kind # "none"
      /\ r.pc \notin BlockPositions \cup Inert /\ r.state \notin TerminalStates
      /\ r.state # "paused"
  BY NotTerminal DEF WorkInv, StartWorker, RecordInv, KindInv, PauseInv, BlockPositions, Inert
<1>c. Calm /\ service' = service /\ shutdown' = shutdown
  BY DEF StartWorker, Elsewhere, WorkInv, Calm, ShutdownType
<1>1. CASE Save(w, [r EXCEPT !.pc = "top"])
  BY <1>0, <1>1, <1>c, StepTo, StepKeeps
<1>2. CASE Save(w, NoWork)
  <2>0. /\ work' = [work EXCEPT ![w] = NoWork] /\ work'[w] = NoWork
        /\ \A v \in Workloads \ {w} : work'[v] = work[v]
    BY <1>2 DEF WorkInv, Save
  <2>1. /\ work' \in [Workloads -> Records]
        /\ \A v \in Workloads : RecordInv(work'[v])
    BY <2>0, NoWorkFits DEF WorkInv
  <2>n. NoWork.kind = "none" /\ NoWork.pc = "none" /\ NoWork.tracked = FALSE
    BY DEF NoWork
  <2>2. ~Active(w)' /\ \A v \in Workloads \ {w} : Active(v)' <=> Active(v)
    BY <2>0, <2>n DEF Active, Retained
  <2>3. ClaimsAreDisjoint'
    BY <2>0, <2>2 DEF WorkInv, ClaimsAreDisjoint
  <2>4. RetirementExcludesWorkloads'
    BY <1>c, <2>0, <2>n, <2>2 DEF WorkInv, RetirementExcludesWorkloads, Calm
  <2>5. DrainInv'
    BY <1>c, <2>0, <2>n DEF WorkInv, DrainInv, Calm
  <2>6. FinalStep
    BY <1>0, <2>0 DEF FinalStep, IsTerminalLiveWorkloadState
  <2> QED
    BY <1>c, <2>1, <2>3, <2>4, <2>5, <2>6 DEF WorkInv, Calm
<1> QED
  BY <1>1, <1>2 DEF StartWorker

\* A record that is registered is active: its claims are new, and no mutation
\* runs that excludes its kind.
LEMMA RegisterKeeps ==
  ASSUME WorkInv, NEW w \in Workloads, NEW kind \in Kinds, NEW c \in ConfigSet,
         NEW claimed \in SUBSET Wallets, Admits(w, kind), Register(w, kind, c, claimed),
         kind # "wallet" => claimed = {}, mutating = "none",
         \A v \in Workloads \ {w} : Active(v) => claimed \cap work[v].claims = {}
  PROVE  WorkInv' /\ FinalStep
<1> DEFINE q == [NoWork EXCEPT !.kind = kind, !.pc = "launched", !.config = c,
                               !.claims = claimed]
<1>r. work[w] = NoWork /\ NoWork.state \notin TerminalStates
  BY DEF WorkInv, RecordInv, KindInv, Admits, Retained, NoWork, TerminalStates
<1>0. /\ work' = [work EXCEPT ![w] = q] /\ work'[w] = q
      /\ \A v \in Workloads \ {w} : work'[v] = work[v]
  BY DEF WorkInv, Save, Register
<1>c. /\ mutating' = mutating /\ service' = service /\ shutdown' = shutdown
      /\ shutdown.pc \notin {"drained", "complete"}
  BY DEF Register, Admits
<1>1. /\ q \in Records
      /\ q.kind = kind /\ q.pc = "launched" /\ q.claims = claimed /\ q.state = "starting"
      /\ q.request = "none" /\ q.done = 0 /\ q.attempted = 0 /\ q.settled = 0
      /\ q.generated = 0
  BY NoWorkFits DEF NoWork, Records, Positions
<1> HIDE DEF q
<1>2. KindInv(q) /\ PauseInv(q) /\ EndInv(q)
  BY <1>1 DEF KindInv, PauseInv, EndInv, Placed, WalletPositions, BlockPositions,
         WaitPositions, TerminalStates, Kinds, Waits
<1>3. Counted(q) /\ BlocksInv(q) /\ WaitInv(q) /\ SettleInv(q) /\ WalletInv(q)
  BY <1>1 DEF Counted, BlocksInv, WaitInv, SettleInv, WalletInv, BlockPositions
<1>4. RecordInv(q)
  BY <1>1, <1>2, <1>3 DEF RecordInv
<1>5. /\ work' \in [Workloads -> Records]
      /\ \A v \in Workloads : RecordInv(work'[v])
  BY <1>0, <1>1, <1>4 DEF WorkInv
<1>6. \A v \in Workloads \ {w} : Active(v)' <=> Active(v)
  BY <1>0 DEF Active, Retained
<1>7. ClaimsAreDisjoint'
  <2> SUFFICES ASSUME NEW u \in Workloads, NEW v \in Workloads, u # v, Active(u)', Active(v)'
               PROVE  work'[u].claims \cap work'[v].claims = {}
    BY DEF ClaimsAreDisjoint
  <2>1. CASE u = w
    BY <1>0, <1>1, <1>6, <2>1
  <2>2. CASE v = w
    BY <1>0, <1>1, <1>6, <2>2
  <2>3. CASE u # w /\ v # w
    BY <1>0, <1>6, <2>3 DEF WorkInv, ClaimsAreDisjoint
  <2> QED
    BY <2>1, <2>2, <2>3
<1>8. RetirementExcludesWorkloads'
  BY <1>0, <1>1, <1>6, <1>c DEF WorkInv, RetirementExcludesWorkloads
<1>9. DrainInv' /\ ShutdownType'
  BY <1>c DEF WorkInv, DrainInv, ShutdownType
<1>10. FinalStep
  BY <1>0, <1>r DEF FinalStep, IsTerminalLiveWorkloadState
<1> QED
  BY <1>5, <1>7, <1>8, <1>9, <1>10, <1>c DEF WorkInv

\* The launches of the four kinds.
LEMMA LaunchKeeps ==
  ASSUME WorkInv, NEW w \in Workloads,
         \/ \E c \in Configs("wallet") : LaunchWallet(w, c)
         \/ \E c \in Configs("blocks") :
               LaunchBlocks(w, c) \/ LaunchHeight(w, c) \/ LaunchPeers(w, c)
  PROVE  WorkInv' /\ FinalStep
<1>1. ASSUME NEW c \in Configs("wallet"), LaunchWallet(w, c)
      PROVE  WorkInv' /\ FinalStep
  <2>1. "wallet" \in Kinds /\ c \in ConfigSet /\ c.wallets \in SUBSET Wallets
    BY ConfigsInSet DEF Kinds
  <2>2. \A v \in Workloads \ {w} : Active(v) => c.wallets \cap work[v].claims = {}
    BY <1>1 DEF LaunchWallet, Claimable, ClaimedWalletsForWorkload, WalletClaimsOverlap
  <2>3. Admits(w, "wallet") /\ Register(w, "wallet", c, c.wallets) /\ mutating = "none"
    BY <1>1 DEF LaunchWallet, ClaimedWalletsForWorkload, MutexFree
  <2> QED
    BY <2>1, <2>2, <2>3, RegisterKeeps
<1>2. ASSUME NEW kind \in {"blocks", "height", "peers"}, NEW c \in Configs(kind),
             Admits(w, kind), Register(w, kind, c, {}), mutating = "none"
      PROVE  WorkInv' /\ FinalStep
  <2>1. kind \in Kinds /\ c \in ConfigSet /\ {} \in SUBSET Wallets
    BY ConfigsInSet DEF Kinds, Waits
  <2> QED
    BY <1>2, <2>1, RegisterKeeps
<1> QED
  BY <1>1, <1>2 DEF LaunchBlocks, LaunchHeight, LaunchPeers, MutexFree

\* The claims of a reconfiguration are taken at once, the configuration only
\* when the workload is paused.
LEMMA ReconfigureWalletKeeps ==
  ASSUME WorkInv, NEW w \in Workloads, NEW c \in Configs("wallet"), ReconfigureWallet(w, c)
  PROVE  WorkInv' /\ FinalStep
<1> DEFINE r == work[w]
           e == r.estop \/ r.state # "starting"
<1>0. /\ RecordInv(r) /\ r \in Records /\ r.kind = "wallet" /\ r.state \notin TerminalStates
      /\ r.state # "stopping" /\ e \in BOOLEAN
  BY DEF WorkInv, RecordInv, Records, ReconfigureWallet, Control, Stoppable,
         IsTerminalLiveWorkloadState
<1>c. Calm
  BY DEF ReconfigureWallet, Control, Calm, WorkInv, ShutdownType
<1>s. c \in ConfigSet /\ c.wallets \in SUBSET Wallets
  BY ConfigsInSet DEF Kinds
<1>d. \A v \in Workloads \ {w} : Active(v) => c.wallets \cap work[v].claims = {}
  BY DEF ReconfigureWallet, Claimable, ClaimedWalletsForWorkload, WalletClaimsOverlap
<1>1. CASE r.state = "paused"
  <2> DEFINE q == [r EXCEPT !.claims = c.wallets, !.config = c]
  <2>1. Save(w, q)
    BY <1>1 DEF ReconfigureWallet, ClaimedWalletsForWorkload
  <2>2. /\ q \in Records /\ Kept(r, q) /\ q.state = r.state /\ q.request = r.request
        /\ q.claims = c.wallets
    BY <1>0, <1>s DEF Records, Kept
  <2> HIDE DEF q
  <2>3. Follows(r, q)
    BY <1>0, <1>1, <2>2, ConfiguredFollows
  <2> QED
    BY <1>c, <1>d, <2>1, <2>2, <2>3, OneRecord DEF Apart
<1>2. CASE r.state # "paused"
  <2> DEFINE q == [r EXCEPT !.claims = c.wallets, !.request = "reconfigure",
                            !.state = "stopping", !.pending = c, !.estop = e]
  <2>1. Save(w, q)
    BY <1>0, <1>2 DEF ReconfigureWallet, ClaimedWalletsForWorkload, Asked, Records
  <2> HIDE DEF e
  <2>2. q \in Records
    BY <1>0, <1>s DEF Records, States, Requests
  <2>3. /\ Kept(r, q) /\ q.state = "stopping" /\ q.request = "reconfigure"
        /\ q.claims = c.wallets /\ q.config = r.config
    BY <1>0 DEF Records, Kept
  <2> HIDE DEF q
  <2>4. Follows(r, q)
    BY <1>0, <2>2, <2>3, AskedFollows
  <2> QED
    BY <1>c, <1>d, <2>1, <2>3, <2>4, OneRecord DEF Apart
<1> QED
  BY <1>1, <1>2

\* A node mutation begins and ends.
LEMMA MutationKeeps ==
  ASSUME WorkInv, BeginNodeAddition \/ BeginNodeRetirement \/ EndNodeMutation
  PROVE  WorkInv' /\ FinalStep
<1>1. work' = work /\ service' = service /\ shutdown' = shutdown /\ mutating' \in Mutations
  BY DEF BeginNodeAddition, BeginNodeRetirement, BeginNodeMutation, EndNodeMutation, Mutations
<1>2. RetirementExcludesWorkloads'
  BY DEF BeginNodeAddition, BeginNodeRetirement, BeginNodeMutation, EndNodeMutation,
         RetirementExcludesWorkloads, Active, Retained
<1>3. ClaimsAreDisjoint' /\ DrainInv' /\ ShutdownType'
  BY <1>1 DEF WorkInv, ClaimsAreDisjoint, DrainInv, ShutdownType, Active, Retained
<1> QED
  BY <1>1, <1>2, <1>3 DEF WorkInv, FinalStep

\* The shutdown.  A record that is still active once the workers are joined
\* would be closed; there is none, for a worker ends in a terminal state.
LEMMA ShutdownKeeps ==
  ASSUME WorkInv,
         \/ \E failed \in BOOLEAN : CloseAdmission(failed)
         \/ RequestShutdown \/ RequestCancellation \/ Drain \/ CompleteShutdown
  PROVE  WorkInv' /\ FinalStep
<1>0. Retained \subseteq Workloads
  BY DEF Retained
<1>1. ShutdownType'
  BY <1>0 DEF WorkInv, ShutdownType, CloseAdmission, RequestShutdown, RequestCancellation,
              Drain, CompleteShutdown
<1>2. work' = work
  <2>1. CASE CompleteShutdown
    <3>1. \A w \in Workloads : ~Active(w)
      BY <2>1 DEF CompleteShutdown, WorkInv, DrainInv, RecordInv, KindInv, EndInv, Active,
                  Retained, IsTerminalLiveWorkloadState
    <3>2. work' = [w \in Workloads |-> work[w]]
      BY <2>1, <3>1 DEF CompleteShutdown
    <3> QED
      BY <3>2 DEF WorkInv
  <2> QED
    BY <2>1 DEF CloseAdmission, RequestShutdown, RequestCancellation, Drain
<1>3. service' \in {"open", "closed", "cancelled"} /\ mutating' = mutating
  BY DEF WorkInv, CloseAdmission, RequestShutdown, RequestCancellation, Drain,
         CompleteShutdown, Quiet
<1>4. DrainInv'
  BY <1>2 DEF WorkInv, ShutdownType, DrainInv, CloseAdmission, RequestShutdown,
              RequestCancellation, Drain, CompleteShutdown
<1>5. ClaimsAreDisjoint' /\ RetirementExcludesWorkloads'
  BY <1>2, <1>3 DEF WorkInv, ClaimsAreDisjoint, RetirementExcludesWorkloads, Active, Retained
<1> QED
  BY <1>1, <1>2, <1>3, <1>4, <1>5 DEF WorkInv, FinalStep

\* Every step of a worker.
LEMMA WorkerKeeps ==
  ASSUME WorkInv, NEW w \in Workloads, WorkerStep(w)
  PROVE  WorkInv' /\ FinalStep
<1>0. RecordInv(work[w])
  BY DEF WorkInv
<1>1. CASE StartWorker(w)
  BY <1>1, StartKeeps
<1>2. ASSUME NEW kind, Top(w, kind)
      PROVE  WorkInv' /\ FinalStep
  <2>1. Calm
    BY <1>2 DEF Top, Elsewhere, Calm, WorkInv, ShutdownType
  <2> QED
    BY <1>0, <1>2, <2>1, TopStep, StepKeeps
<1>3. CASE PublishPaused(w) \/ Parked(w) \/ PublishRestart(w)
  <2>1. Calm
    BY <1>3 DEF PublishPaused, Parked, PublishRestart, Elsewhere, Calm, WorkInv, ShutdownType
  <2> QED
    BY <1>0, <1>3, <2>1, PublishStep, StepKeeps
<1>4. CASE SetTerminal(w) \/ ReportCompletion(w) \/ CompleteWait(w)
  <2>1. Calm
    BY <1>4 DEF SetTerminal, ReportCompletion, CompleteWait, Elsewhere, Calm, WorkInv,
                ShutdownType
  <2> QED
    BY <1>0, <1>4, <2>1, SetTerminalStep, ReportStep, CompleteStep, StepKeeps
<1>5. CASE FundWallets(w) \/ NextTransfer(w) \/ YieldTransfer(w) \/ Submit(w)
             \/ WalletReturned(w)
  <2>1. Calm
    BY <1>5 DEF FundWallets, NextTransfer, YieldTransfer, Submit, WalletReturned, Elsewhere,
                Calm, WorkInv, ShutdownType
  <2> QED
    BY <1>0, <1>5, <2>1, WalletStep, StepKeeps
<1>6. CASE AuthorizeMutation(w) \/ GenerateBlock(w) \/ SynchronizeBoundary(w)
  <2>1. Calm
    BY <1>6 DEF AuthorizeMutation, GenerateBlock, SynchronizeBoundary, Elsewhere, Calm,
                WorkInv, ShutdownType
  <2> QED
    BY <1>0, <1>6, <2>1, BlocksStep, StepKeeps
<1>7. ASSUME NEW kind \in Waits, Interrupted(w, kind)
      PROVE  WorkInv' /\ FinalStep
  <2>1. Calm
    BY <1>7 DEF Interrupted, Elsewhere, Calm, WorkInv, ShutdownType
  <2> QED
    BY <1>0, <1>7, <2>1, AwaitStep, StepKeeps
<1> QED
  BY <1>1, <1>2, <1>3, <1>4, <1>5, <1>6, <1>7
  DEF WorkerStep, WalletTop, BlocksTop, HeightTop, PeersTop, HeightInterrupted,
      PeersInterrupted, Waits

\* Time, the stop of the service, and the operations on one workload.
LEMMA ControlKeeps ==
  ASSUME WorkInv, NEW w \in Workloads,
         \/ RefreshBalances(w) \/ ObserveAll(w) \/ HeightReached(w) \/ PeersReached(w)
         \/ DeadlinePasses(w) \/ DeadlineTimer(w) \/ ServiceStopCallback(w)
         \/ CancelStart(w) \/ PauseWallet(w) \/ PauseBlocks(w) \/ ExpireEpoch(w)
         \/ ControlHeight(w) \/ ControlPeers(w) \/ Resume(w)
         \/ \E policy \in {"cancel", "settle"} : StopWallet(w, policy) \/ StopBlocks(w, policy)
         \/ \E c \in Configs("blocks") : ReconfigureBlocks(w, c)
         \/ ShutdownRecord(w)
  PROVE  WorkInv' /\ FinalStep
<1>0. RecordInv(work[w]) /\ shutdown.tick \in BOOLEAN
  BY DEF WorkInv, ShutdownType
<1>1. CASE RefreshBalances(w)
  <2>1. Calm
    BY <1>1 DEF RefreshBalances, Elsewhere, Calm, WorkInv, ShutdownType
  <2> QED
    BY <1>0, <1>1, <2>1, WalletStep, StepKeeps
<1>2. ASSUME NEW kind \in Waits, Reached(w, kind)
      PROVE  WorkInv' /\ FinalStep
  <2>1. Calm
    BY <1>2 DEF Reached, Elsewhere, Calm, WorkInv, ShutdownType
  <2> QED
    BY <1>0, <1>2, <2>1, AwaitStep, StepKeeps
<1>3. CASE DeadlinePasses(w) \/ DeadlineTimer(w) \/ ServiceStopCallback(w)
  <2>1. Calm
    BY <1>3 DEF DeadlinePasses, DeadlineTimer, ServiceStopCallback, Elsewhere, Calm, WorkInv,
                ShutdownType
  <2> QED
    BY <1>0, <1>3, <2>1, DeadlineStep, StepKeeps
<1>4. CASE CancelStart(w) \/ ExpireEpoch(w) \/ Resume(w)
  <2>1. Calm
    BY <1>4 DEF CancelStart, ExpireEpoch, Resume, Control, Calm, WorkInv, ShutdownType
  <2> QED
    BY <1>0, <1>4, <2>1, OtherControlStep, StepKeeps
<1>5. CASE \/ PauseWallet(w) \/ PauseBlocks(w)
           \/ \E policy \in {"cancel", "settle"} : StopWallet(w, policy) \/ StopBlocks(w, policy)
           \/ \E c \in Configs("blocks") : ReconfigureBlocks(w, c)
  <2>1. Calm
    BY <1>5 DEF PauseWallet, PauseBlocks, StopWallet, StopBlocks, ReconfigureBlocks, Control,
                Calm, WorkInv, ShutdownType
  <2> QED
    BY <1>0, <1>5, <2>1, StopStep, StepKeeps
<1>6. CASE ControlHeight(w) \/ ControlPeers(w)
  <2>1. Calm
    BY <1>6 DEF ControlHeight, ControlPeers, PauseWait, StopWait, ReconfigureWait, Control,
                Calm, WorkInv, ShutdownType
  <2> QED
    BY <1>0, <1>6, <2>1, WaitControlStep, StepKeeps
<1>7. CASE ShutdownRecord(w)
  <2>1. Calm
    BY <1>7 DEF ShutdownRecord, Quiet, Calm, WorkInv, ShutdownType
  <2> QED
    BY <1>0, <1>7, <2>1, ShutdownRecordStep, StepKeeps
<1>8. CASE ObserveAll(w)
  <2>1. Calm
    BY <1>8 DEF ObserveAll, Elsewhere, Calm, WorkInv, ShutdownType
  <2> QED
    BY <1>0, <1>8, <2>1, Observed, StepKeeps DEF Step, ObserveAll
<1> QED
  BY <1>1, <1>2, <1>3, <1>4, <1>5, <1>6, <1>7, <1>8 DEF HeightReached, PeersReached, Waits

-----------------------------------------------------------------------------
(* The theorems.                                                           *)

\* Every step keeps the invariant, and ended work ended.
LEMMA NextKeeps ==
  ASSUME WorkInv, [WorkNext]_workVars
  PROVE  WorkInv' /\ (FinalStep \/ UNCHANGED workVars)
<1>1. ASSUME NEW w \in Workloads,
             \/ WorkerStep(w) \/ RefreshBalances(w) \/ ObserveAll(w)
             \/ HeightReached(w) \/ PeersReached(w)
             \/ DeadlinePasses(w) \/ DeadlineTimer(w) \/ ServiceStopCallback(w)
             \/ CancelStart(w) \/ PauseWallet(w) \/ PauseBlocks(w) \/ ExpireEpoch(w)
             \/ ControlHeight(w) \/ ControlPeers(w) \/ Resume(w)
             \/ \E policy \in {"cancel", "settle"} :
                   StopWallet(w, policy) \/ StopBlocks(w, policy)
             \/ \E c \in Configs("wallet") : LaunchWallet(w, c) \/ ReconfigureWallet(w, c)
             \/ \E c \in Configs("blocks") :
                   \/ LaunchBlocks(w, c) \/ ReconfigureBlocks(w, c)
                   \/ LaunchHeight(w, c) \/ LaunchPeers(w, c)
      PROVE  WorkInv' /\ FinalStep
  BY <1>1, WorkerKeeps, ControlKeeps, LaunchKeeps, ReconfigureWalletKeeps
<1>2. ASSUME ShutdownStep PROVE WorkInv' /\ FinalStep
  BY <1>2, ShutdownKeeps, ControlKeeps DEF ShutdownStep
<1>3. CASE UNCHANGED workVars
  BY <1>3 DEF workVars, WorkInv, ShutdownType, ClaimsAreDisjoint, RetirementExcludesWorkloads,
              DrainInv, Active, Retained
<1> QED
  BY <1>1, <1>2, <1>3, MutationKeeps, ShutdownKeeps DEF WorkNext

\* It holds when the run starts.
LEMMA InitHolds == WorkInit => WorkInv
<1> SUFFICES ASSUME WorkInit PROVE WorkInv
  OBVIOUS
<1>1. /\ work \in [Workloads -> Records]
      /\ \A w \in Workloads : RecordInv(work[w]) /\ work[w] = NoWork
  BY NoWorkFits DEF WorkInit
<1>2. \A w \in Workloads : ~Active(w)
  BY <1>1 DEF Active, Retained, NoWork
<1>3. ShutdownType /\ DrainInv /\ service \in {"open", "closed", "cancelled"}
      /\ mutating \in Mutations /\ mutating # "retiring"
  BY DEF WorkInit, ShutdownType, DrainInv, Mutations
<1> QED
  BY <1>1, <1>2, <1>3 DEF WorkInv, ClaimsAreDisjoint, RetirementExcludesWorkloads

\* The invariant contains what the run checks of the workloads.
LEMMA InvSuffices == WorkInv => WorkloadsCorrect
<1> SUFFICES ASSUME WorkInv PROVE WorkloadsCorrect
  OBVIOUS
<1>1. WorkTypeOK
  BY DEF WorkInv, ShutdownType, Records, States, WorkTypeOK, Mutations
<1>2. PausedWorkIsIdle
  BY DEF WorkInv, RecordInv, PauseInv, PausedWorkIsIdle, Executing
<1>3. AttemptsAreAccounted
  <2> SUFFICES ASSUME NEW w \in Workloads, work[w].kind = "blocks"
               PROVE  /\ work[w].attempted - (work[w].done + work[w].settled) \in {0, 1}
                      /\ work[w].pc = "done" =>
                            work[w].attempted = work[w].done + work[w].settled
                      /\ work[w].done <= work[w].generated
                      /\ work[w].generated <= work[w].attempted
    BY DEF AttemptsAreAccounted
  <2>1. /\ work[w].done \in Nat /\ work[w].settled \in Nat /\ work[w].attempted \in Nat
        /\ work[w].generated \in Nat /\ Counted(work[w])
    BY DEF WorkInv, RecordInv, Records
  <2> QED
    BY <2>1 DEF Counted, BlockPositions
<1>4. CompletionIsReal
  BY DEF WorkInv, RecordInv, BlocksInv, WaitInv, CompletionIsReal
<1>5. CancelledIsUntracked
  BY DEF WorkInv, RecordInv, WalletInv, CancelledIsUntracked
<1>6. ShutdownLeavesNothing
  BY DEF WorkInv, DrainInv, RecordInv, KindInv, EndInv, ShutdownLeavesNothing, Active,
         Retained, IsTerminalLiveWorkloadState
<1> QED
  BY <1>1, <1>2, <1>3, <1>4, <1>5, <1>6 DEF WorkInv, WorkloadsCorrect

\* The records, their claims, the mutation mutex and the shutdown keep the
\* invariant in every state of the workload service.
THEOREM WorkInvariant == WorkSpec => []WorkInv
<1>1. WorkInv /\ [WorkNext]_workVars => WorkInv'
  BY NextKeeps
<1> QED
  BY <1>1, InitHolds, PTL DEF WorkSpec

\* Whatever launches, operations, deadlines, failures and the shutdown of a run
\* interleave with the workers: active wallet workloads claim disjoint wallets,
\* paused work is idle, block attempts are accounted for, what is reported
\* completed was completed, cancelled wallet work is observed no more, the
\* removal or replacement of a node excludes every workload and observation to
\* its end, and shutdown leaves nothing.
THEOREM WorkloadsAreCorrect == WorkSpec => []WorkloadsCorrect
  BY WorkInvariant, InvSuffices, PTL

\* A terminal state of a workload is final, but for a wallet workload whose
\* completion event cannot be written.
THEOREM EndedWorkStaysEnded == WorkSpec => TerminalIsFinal
<1>1. WorkInv /\ [WorkNext]_workVars =>
        [\A w \in Workloads : IsTerminalLiveWorkloadState(work[w].state) =>
          \/ work'[w].state = work[w].state
          \/ work[w].kind = "wallet" /\ work[w].pc = "ending" /\ work'[w].state = "failed"]_workVars
  BY NextKeeps DEF FinalStep
<1> QED
  BY <1>1, WorkInvariant, PTL DEF WorkSpec, TerminalIsFinal
=============================================================================
