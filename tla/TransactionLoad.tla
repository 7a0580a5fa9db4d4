--------------------------- MODULE TransactionLoad ---------------------------
(***************************************************************************)
(* The load strategies of a wallet workload: one producer plans transfers  *)
(* against a ledger of available balances, a bounded queue hands them to   *)
(* the submitting threads, and every submitted transaction is followed     *)
(* until the observed nodes have confirmed it.                             *)
(*   - src/transaction_load.cpp: queue, ledger, accounting, confirmation;  *)
(*   - src/simulator_wallet_transaction_workload_execution.cpp: producer,  *)
(*     submitting threads and the end of an epoch;                         *)
(*   - src/transaction_observation_store.cpp and                           *)
(*     src/simulator_transaction_observation_tracking.cpp;                 *)
(*   - src/wallet_transaction_plan.cpp: WalletTransactionLoadPlanner.      *)
(*                                                                         *)
(* A step is one critical section or one call to a node.  Every transfer   *)
(* reserves one unit, its amount with its fee reserve.  A transfer whose   *)
(* submission timed out either took effect by then or never does.          *)
(***************************************************************************)
EXTENDS Naturals, FiniteSets, Sequences, SequencesExt

CONSTANTS
    Senders,        \* wallets that send, an interval from 1
    Threads,        \* the submitting threads, an interval from 1
    Setups          \* configurations: strategy, limit, capacity, batch, timed,
                    \* threads, nodes observed, slots of the observation store,
                    \* the balances, in units, and a bound on the calls that
                    \* fail and on stops, pauses, settles and resumes

VARIABLES
    setup,       \* the configuration
    funds,       \* what each wallet really can spend
    ledger,      \* available_balances_ and reservations_
    queue,       \* the tasks, and whether it is open, closed or cancelled
    producer, submitter,
    seen,        \* each transaction in the observation store
    outcome,     \* what the accounting was told of each attempt
    control,     \* stop requests and errors shared by the threads
    loadFaults

loadVars == <<setup, funds, ledger, queue, producer, submitter, seen, outcome,
              control, loadFaults>>

Attempts == 1 .. setup.limit
Submitters == 1 .. setup.threads
Observed == 1 .. setup.nodes
Unheard == [at |-> "none", visible |-> {}, confirmed |-> {},
            propagation |-> FALSE, confirmation |-> FALSE]
Idle == [pc |-> "pop", tx |-> 0, lock |-> FALSE, slot |-> FALSE,
         started |-> FALSE, out |-> "failed", release |-> TRUE, cancel |-> FALSE,
         actual |-> {}, drops |-> {}]

Fresh(balance) ==
    /\ ledger' = [available |-> balance, held |-> {}]
    /\ queue' = [tasks |-> <<>>, gate |-> "open"]
    /\ submitter' = [w \in Submitters |-> Idle]

LoadInit ==
    /\ setup \in Setups
    /\ funds = setup.balances
    /\ ledger = [available |-> funds, held |-> {}]
    /\ queue = [tasks |-> <<>>, gate |-> "open"]
    /\ submitter = [w \in Submitters |-> Idle]
    /\ producer = [pc |-> "top", index |-> 0, news |-> FALSE, drops |-> {},
                   refused |-> <<>>, yielded |-> FALSE, refresh |-> FALSE,
                   error |-> "none", end |-> "none"]
    /\ seen = [t \in Attempts |-> Unheard] /\ outcome = [t \in Attempts |-> "none"]
    /\ control = [stop |-> FALSE, request |-> "none", cancelled |-> FALSE,
                  infra |-> FALSE, requests |-> 0]
    /\ loadFaults = 0

Disturbable == loadFaults + control.requests < setup.disturbances
Faulty == Disturbable /\ loadFaults' = loadFaults + 1
Sound == UNCHANGED loadFaults

----------------------------------------------------------------------------
(* The ledger, the accounting and the queue *)

HeldBy(s) == {h \in ledger.held : h.sender = s}
SenderOf(t) == (CHOOSE h \in ledger.held : h.tx = t).sender

Held(t) == \E h \in ledger.held : h.tx = t

\* Settle: the balance the wallet reported, if it could be read, less what is
\* still reserved; the reserved unit back; or nothing back.  A second
\* settlement throws, and so does a balance below what is reserved: an
\* infrastructure error.
Settled(t, actual, release) ==
    LET s == SenderOf(t)
        rest == Cardinality(HeldBy(s)) - 1
        left == ledger.available[s]
    IN IF ~Held(t) THEN ledger ELSE
       [available |-> [ledger.available EXCEPT ![s] =
            IF actual # {}
            THEN IF Max(actual) < rest THEN 0 ELSE Max(actual) - rest
            ELSE left + IF release THEN 1 ELSE 0],
        held |-> {h \in ledger.held : h.tx # t}]
Irreconcilable(t, actual) ==
    \/ ~Held(t)
    \/ actual # {} /\ Max(actual) < Cardinality(HeldBy(SenderOf(t))) - 1

\* RecordOutcome counts; what is counted twice is lost to the accounting.
Told(t, o) == [outcome EXCEPT ![t] = IF @ = "none" THEN o ELSE "twice"]
Count(o) == Cardinality({t \in Attempts : outcome[t] = o})

Tasks == ToSet(queue.tasks)

\* Close keeps what is queued, DropPendingAndClose and Cancel hand it back.
Close == [queue EXCEPT !.gate = IF @ = "open" THEN "closed" ELSE @]
DropPendingAndClose == [Close EXCEPT !.tasks = <<>>]
Cancel == [queue EXCEPT !.gate = "cancelled", !.tasks = <<>>]

\* record_dropped_tasks, one task: settled with its unit released, then told.
Drop(t) ==
    /\ ledger' = Settled(t, {}, TRUE)
    /\ control' = [control EXCEPT !.infra = @ \/ Irreconcilable(t, {})]
    /\ outcome' = Told(t, "dropped")

----------------------------------------------------------------------------
(* The producer *)

\* A settlement moves the balance revision; only WaitForResolution looks.
Waiting == producer.pc = "wait"
Go(pc) == [producer EXCEPT !.pc = pc]
LeaveLoop(error) == [producer EXCEPT !.pc = "ending", !.error = error]

\* Top of the loop, with the wait for the rate's next slot.
Due ==
    /\ producer.pc = "top"
    /\ \/ /\ producer.index >= setup.limit
          /\ producer' = LeaveLoop("none") /\ UNCHANGED queue
       \/ /\ producer.index < setup.limit /\ control.stop
          /\ producer' = LeaveLoop("cancelled") /\ UNCHANGED queue
       \/ /\ producer.index < setup.limit /\ ~control.stop /\ setup.timed
          /\ producer' = LeaveLoop("none") /\ UNCHANGED queue
       \/ /\ producer.index < setup.limit /\ ~control.stop
          /\ control.request # "none"
          /\ LET dropped == IF control.request = "settle" THEN Tasks ELSE {} IN
             /\ producer' = [LeaveLoop("none") EXCEPT !.yielded = TRUE,
                                                   !.drops = @ \cup dropped]
             /\ queue' = IF control.request = "settle"
                         THEN DropPendingAndClose ELSE queue
       \/ /\ producer.index < setup.limit /\ ~control.stop
          /\ control.request = "none"
          /\ producer' = Go("plan") /\ UNCHANGED queue
    /\ UNCHANGED <<setup, funds, ledger, submitter, seen, outcome, control, loadFaults>>

\* NextBatch: random_bruteforce plans one transfer of every idle wallet that
\* can pay, equal_fanout one of a paying wallet to each receiver.  A sender
\* with work outstanding is planned with nothing to spend.
Spendable(s) == IF HeldBy(s) = {} THEN ledger.available[s] ELSE 0
Paying == {s \in Senders : Spendable(s) >= setup.batch}
NextBatch ==
    IF setup.strategy = "bruteforce"
    THEN LET all == SetToSortSeq(Paying, LAMBDA a, b : a < b)
             room == setup.limit - producer.index
         IN {SubSeq(all, 1, IF Len(all) < room THEN Len(all) ELSE room)}
    ELSE {[k \in 1 .. setup.batch |-> s] : s \in Paying}

Reserving(batch) ==
    {[tx |-> producer.index + k, sender |-> batch[k]] : k \in DOMAIN batch}
Reserved(batch) ==
    [available |-> [s \in Senders |-> ledger.available[s]
                        - Cardinality({k \in DOMAIN batch : batch[k] = s})],
     held |-> ledger.held \cup Reserving(batch)]

\* PlanAndReserve with TryPushBatch inside: the batch is published as a whole,
\* or its reservations are rolled back, also when the queue is closed.
PlanAndReserve ==
    /\ producer.pc = "plan"
    /\ \/ /\ Paying = {}
          /\ producer' = [Go("wait") EXCEPT !.news = FALSE]
          /\ UNCHANGED <<ledger, queue>>
       \/ \E batch \in NextBatch :
            /\ batch # <<>>
            /\ \/ /\ queue.gate # "open"
                  /\ producer' = LeaveLoop("failed")
                  /\ UNCHANGED <<ledger, queue>>
               \/ /\ queue.gate = "open"
                  /\ Len(queue.tasks) + Len(batch) > setup.capacity
                  /\ producer' = [Go("refuse") EXCEPT !.refused = batch]
                  /\ UNCHANGED <<ledger, queue>>
               \/ /\ queue.gate = "open"
                  /\ Len(queue.tasks) + Len(batch) <= setup.capacity
                  /\ ledger' = Reserved(batch)
                  /\ queue' = [queue EXCEPT !.tasks =
                        @ \o [k \in DOMAIN batch |-> producer.index + k]]
                  /\ producer' = [Go("top") EXCEPT !.index = @ + Len(batch)]
    /\ UNCHANGED <<setup, funds, submitter, seen, outcome, control, loadFaults>>

\* A batch the queue had no room for: each of its attempts is backpressured.
\* The event that says so may fail, and the batch is then left half told.
Refuse ==
    /\ producer.pc = "refuse"
    /\ LET told == [t \in Attempts |-> IF t \in producer.index + 1 ..
                        producer.index + Len(producer.refused)
                    THEN "backpressured" ELSE outcome[t]]
       IN \/ /\ outcome' = told
             /\ producer' = [Go("top") EXCEPT !.refused = <<>>,
                                !.index = @ + Len(producer.refused)]
             /\ Sound
          \/ /\ Faulty
             /\ outcome' = Told(producer.index + 1, "backpressured")
             /\ producer' = [LeaveLoop("failed") EXCEPT !.refused = <<>>]
    /\ UNCHANGED <<setup, funds, ledger, queue, submitter, seen, control>>

\* Nothing can be planned: WaitForResolution until a settlement or the stop.
\* With nothing outstanding, random_bruteforce reads the balances again and
\* equal_fanout leaves the epoch for a refresh.
WaitForResolution ==
    /\ producer.pc = "wait"
    /\ \/ /\ producer.news
          /\ producer' = [Go("top") EXCEPT !.news = FALSE] /\ UNCHANGED ledger
       \/ /\ ~producer.news /\ control.stop
          /\ producer' = LeaveLoop("cancelled") /\ UNCHANGED ledger
       \/ /\ ~producer.news /\ ~control.stop /\ ledger.held = {}
          /\ setup.strategy = "bruteforce"
          /\ producer' = Go("top")
          /\ ledger' = [ledger EXCEPT !.available = funds]
       \/ /\ ~producer.news /\ ~control.stop /\ ledger.held = {}
          /\ setup.strategy # "bruteforce"
          /\ producer' = [LeaveLoop("none") EXCEPT !.refresh = TRUE]
          /\ UNCHANGED ledger
    /\ UNCHANGED <<setup, funds, queue, submitter, seen, outcome, control, loadFaults>>

\* The balances could not be read.
RefreshFails ==
    /\ producer.pc = "wait" /\ ~producer.news /\ ledger.held = {}
    /\ setup.strategy = "bruteforce" /\ Faulty
    /\ producer' = LeaveLoop("failed")
    /\ UNCHANGED <<setup, funds, ledger, queue, submitter, seen, outcome, control>>

\* After the loop: cancel what is queued, or let it run out.
EndProducing ==
    /\ producer.pc = "ending" /\ producer.drops = {}
    /\ \/ /\ producer.error # "none" \/ control.stop \/ control.cancelled
          /\ control' = [control EXCEPT !.stop = TRUE]
          /\ producer' = [Go("join") EXCEPT !.drops = Tasks]
          /\ queue' = Cancel
       \/ /\ producer.error = "none" /\ ~control.stop /\ ~control.cancelled
          /\ queue' = Close /\ producer' = Go("join") /\ UNCHANGED control
    /\ UNCHANGED <<setup, funds, ledger, submitter, seen, outcome, loadFaults>>

ProducerDrops ==
    /\ producer.drops # {}
    /\ \E t \in producer.drops :
        /\ Drop(t)
        /\ producer' = [producer EXCEPT !.drops = @ \ {t}, !.news = Waiting]
    /\ UNCHANGED <<setup, funds, queue, submitter, seen, loadFaults>>

\* All submitters joined; what a late stop left behind is dropped.
Join ==
    /\ producer.pc = "join" /\ producer.drops = {}
    /\ \A w \in Submitters : submitter[w].pc = "gone"
    /\ IF control.stop \/ control.cancelled
       THEN queue' = Cancel /\ producer' = [Go("result") EXCEPT !.drops = Tasks]
       ELSE producer' = Go("result") /\ UNCHANGED queue
    /\ UNCHANGED <<setup, funds, ledger, submitter, seen, outcome, control, loadFaults>>

\* The result: the producer's error, an infrastructure error, the
\* cancellation, else how the loop was left.
Result ==
    CASE producer.error = "failed" -> "failed"
      [] producer.error = "none" /\ control.infra -> "failed"
      [] producer.error = "cancelled" -> "cancelled"
      [] queue.gate = "cancelled" \/ control.cancelled \/ control.stop -> "cancelled"
      [] producer.yielded -> "yielded"
      [] producer.refresh /\ producer.index < setup.limit -> "refresh"
      [] OTHER -> "completed"

\* What the workload's thread makes of the result: a failure or a stop ends the
\* workload with cancel_outstanding_tracking, a settle ends it without, and an
\* epoch that was paused is followed by another whatever its result was.
Untracked == [t \in Attempts |->
    IF seen[t].at = "tracked" THEN [seen[t] EXCEPT !.at = "cancelled"] ELSE seen[t]]
EpochEnd ==
    CASE Result = "failed" -> "failed"
      [] control.request = "pause" -> "paused"
      [] control.request = "settle" -> "settled"
      [] OTHER -> Result
EndEpoch ==
    /\ producer.pc = "result" /\ producer.drops = {}
    /\ producer' = [Go("over") EXCEPT !.end = EpochEnd]
    /\ seen' = IF EpochEnd \in {"failed", "cancelled"} THEN Untracked ELSE seen
    /\ UNCHANGED <<setup, funds, ledger, queue, submitter, outcome, control, loadFaults>>

\* The top of the workload's loop, after a refresh or a pause: the next epoch,
\* with threads, queue and stop source of its own, once nothing is requested
\* any more, or the end of a workload that was stopped or settled meanwhile.
Between == producer.pc = "over" /\ producer.end \in {"refresh", "paused"}
NextEpoch ==
    /\ Between
    /\ \/ /\ control.request = "none"
          /\ Fresh(funds)
          /\ producer' = [Go("top") EXCEPT !.end = "none", !.news = FALSE,
                            !.yielded = FALSE, !.refresh = FALSE, !.error = "none"]
          /\ control' = [control EXCEPT !.stop = FALSE, !.cancelled = FALSE]
          /\ UNCHANGED seen
       \/ /\ control.request \in {"stop", "settle"}
          /\ producer' = [producer EXCEPT !.end =
                IF control.request = "stop" THEN "cancelled" ELSE "settled"]
          /\ seen' = IF control.request = "stop" THEN Untracked ELSE seen
          /\ UNCHANGED <<ledger, queue, submitter, control>>
    /\ UNCHANGED <<setup, funds, outcome, loadFaults>>

ProducerStep ==
    \/ Due \/ PlanAndReserve \/ Refuse \/ WaitForResolution \/ RefreshFails
    \/ EndProducing \/ ProducerDrops \/ Join \/ EndEpoch \/ NextEpoch

----------------------------------------------------------------------------
(* A submitting thread *)

Keep(w, r) == submitter' = [submitter EXCEPT ![w] = r]
Owner(s) == {w \in Submitters : submitter[w].lock /\ SenderOf(submitter[w].tx) = s}
Finish(r, out, release) == [r EXCEPT !.pc = "settle", !.out = out, !.release = release]
\* SimulationCancelled: the load stops and the queue is cancelled after the
\* settlement.
Quit(r) == [Finish(r, "cancelled", ~r.started) EXCEPT !.cancel = TRUE]

Pop(w) ==
    /\ submitter[w].pc = "pop"
    /\ \/ /\ \/ control.stop \/ queue.gate = "cancelled"
             \/ queue.gate = "closed" /\ queue.tasks = <<>>
          /\ Keep(w, [Idle EXCEPT !.pc = "gone"]) /\ UNCHANGED queue
       \/ /\ ~control.stop /\ queue.gate # "cancelled" /\ queue.tasks # <<>>
          /\ Keep(w, [Idle EXCEPT !.pc = "schedule", !.tx = Head(queue.tasks)])
          /\ queue' = [queue EXCEPT !.tasks = Tail(@)]
    /\ UNCHANGED <<setup, funds, ledger, producer, seen, outcome, control, loadFaults>>

\* Waiting for the task's slot; a settle drops it, a stop cancels it.
AwaitSlot(w) ==
    /\ submitter[w].pc = "schedule"
    /\ LET r == submitter[w] IN
       \/ /\ queue.gate = "cancelled" \/ control.request = "settle"
          /\ Keep(w, Finish(r, "dropped", TRUE)) /\ UNCHANGED control
       \/ /\ control.stop /\ queue.gate # "cancelled"
          /\ Keep(w, Quit(r))
          /\ control' = [control EXCEPT !.cancelled = TRUE]
       \/ /\ queue.gate # "cancelled" /\ ~control.stop /\ control.request # "settle"
          /\ Keep(w, [r EXCEPT !.pc = "enter"]) /\ UNCHANGED control
    /\ UNCHANGED <<setup, funds, ledger, queue, producer, seen, outcome, loadFaults>>

\* Slots of the observation store: transactions in it and slots reserved.
Slots == Cardinality({t \in Attempts : seen[t].at = "tracked"})
         + Cardinality({w \in Submitters : submitter[w].slot})
Room == Slots < setup.store

\* The sender's mutex is taken, then TryReserve; the node may not be running.
Enter(w) ==
    /\ submitter[w].pc = "enter" /\ Owner(SenderOf(submitter[w].tx)) = {}
    /\ LET r == [submitter[w] EXCEPT !.lock = TRUE] IN
       \/ /\ control.request = "settle"
          /\ Keep(w, Finish(r, "dropped", TRUE)) /\ UNCHANGED control /\ Sound
       \/ /\ control.request # "settle" /\ (queue.gate = "cancelled" \/ control.stop)
          /\ Keep(w, Quit(r))
          /\ control' = [control EXCEPT !.cancelled = TRUE, !.stop = TRUE] /\ Sound
       \/ /\ control.request # "settle" /\ queue.gate # "cancelled" /\ ~control.stop
          /\ UNCHANGED control
          /\ \/ Faulty /\ Keep(w, Finish(r, "failed", TRUE))
             \/ ~Room /\ Sound /\ Keep(w, Finish(r, "backpressured", TRUE))
             \/ /\ Room /\ Sound
                /\ Keep(w, [r EXCEPT !.pc = "submit", !.slot = TRUE,
                                     !.started = TRUE, !.release = FALSE])
    /\ UNCHANGED <<setup, funds, ledger, queue, producer, seen, outcome>>

\* SubmitWalletTransaction, and TrackSet, which takes the reserved slot over,
\* when it returns a transaction id; else the slot is kept to the end of the
\* iteration.
SubmitTransfer(w) ==
    /\ submitter[w].pc = "submit"
    /\ LET r == submitter[w]
           s == SenderOf(r.tx)
           spent == [funds EXCEPT ![s] = IF @ > 0 THEN @ - 1 ELSE 0]
       IN \/ /\ funds[s] > 0 /\ funds' = spent /\ Sound /\ UNCHANGED control
             /\ seen' = [seen EXCEPT ![r.tx].at = "tracked"]
             /\ Keep(w, [Finish(r, "submitted", FALSE) EXCEPT !.slot = FALSE])
          \/ /\ UNCHANGED <<funds, seen, control>> /\ Faulty
             /\ Keep(w, [Finish(r, "rejected", TRUE) EXCEPT !.pc = "read"])
          \/ /\ Faulty /\ UNCHANGED <<seen, control>> /\ funds' \in {funds, spent}
             /\ \E out \in {"timed_out", "failed"} :
                    Keep(w, [Finish(r, out, FALSE) EXCEPT !.pc = "read"])
          \/ /\ control.stop /\ Sound /\ UNCHANGED seen /\ funds' \in {funds, spent}
             /\ control' = [control EXCEPT !.cancelled = TRUE]
             /\ Keep(w, Quit(r))
    /\ UNCHANGED <<setup, ledger, queue, producer, outcome>>

\* ReadWalletSnapshot after a submission that failed: the confirmed balance is
\* no more than the wallet can spend, and may not be readable.
ReadBalance(w) ==
    /\ submitter[w].pc = "read"
    /\ LET r == [submitter[w] EXCEPT !.pc = "settle"] IN
       \/ /\ \E b \in 0 .. funds[SenderOf(r.tx)] :
                Keep(w, [r EXCEPT !.actual = {b}])
          /\ UNCHANGED control
       \/ Keep(w, r) /\ UNCHANGED control
       \/ /\ control.stop
          /\ control' = [control EXCEPT !.cancelled = TRUE]
          /\ Keep(w, [r EXCEPT !.cancel = TRUE])
    /\ UNCHANGED <<setup, funds, ledger, queue, producer, seen, outcome, loadFaults>>

\* Mutant: what was submitted is released as well.
AlwaysReleaseSettle(w) ==
    /\ submitter[w].pc = "settle"
    /\ ledger' = Settled(submitter[w].tx, submitter[w].actual, TRUE)
    /\ producer' = [producer EXCEPT !.news = Waiting]
    /\ Keep(w, [submitter[w] EXCEPT !.lock = FALSE,
                    !.pc = IF submitter[w].cancel THEN "cancel" ELSE "tell"])
    /\ UNCHANGED <<setup, funds, queue, seen, outcome, control, loadFaults>>

\* The settlement under the sender's mutex, which is released after it.
Settle(w) ==
    /\ submitter[w].pc = "settle"
    /\ submitter[w].lock \/ Owner(SenderOf(submitter[w].tx)) = {}
    /\ LET r == submitter[w] IN
       /\ ledger' = Settled(r.tx, r.actual, r.out # "submitted" /\ r.release)
       /\ control' = [control EXCEPT !.infra = @ \/ Irreconcilable(r.tx, r.actual),
                                     !.stop = @ \/ r.cancel]
       /\ producer' = [producer EXCEPT !.news = Waiting]
       /\ Keep(w, [r EXCEPT !.lock = FALSE,
                            !.actual = {}, !.release = FALSE, !.started = FALSE,
                            !.pc = IF r.cancel THEN "cancel" ELSE "tell"])
    /\ UNCHANGED <<setup, funds, queue, seen, outcome, loadFaults>>

\* queue.Cancel of a cancelled thread, and the tasks it dropped.
CancelQueue(w) ==
    /\ submitter[w].pc = "cancel"
    /\ queue' = Cancel
    /\ Keep(w, [submitter[w] EXCEPT !.drops = Tasks, !.cancel = FALSE,
                !.pc = IF submitter[w].out = "observing" THEN "pop" ELSE "tell"])
    /\ UNCHANGED <<setup, funds, ledger, producer, seen, outcome, control, loadFaults>>
SubmitterDrops(w) ==
    /\ submitter[w].drops # {}
    /\ \E t \in submitter[w].drops :
        /\ Drop(t)
        /\ Keep(w, [submitter[w] EXCEPT !.drops = @ \ {t}])
        /\ producer' = [producer EXCEPT !.news = Waiting]
    /\ UNCHANGED <<setup, funds, queue, seen, loadFaults>>

\* RecordOutcome, then the events, of which one may fail.
Tell(w) ==
    /\ submitter[w].pc = "tell" /\ submitter[w].drops = {}
    /\ LET r == submitter[w] IN
       /\ outcome' = Told(r.tx, r.out)
       /\ Keep(w, [Idle EXCEPT !.pc = IF r.out = "submitted" /\ setup.strategy # "bruteforce"
                                      THEN "observe" ELSE "pop"])
    /\ \/ UNCHANGED control /\ Sound
       \/ control' = [control EXCEPT !.infra = TRUE] /\ Faulty
    /\ UNCHANGED <<setup, funds, ledger, queue, producer, seen>>

\* ObserveTrackedSetsUntilVisible: until all nodes show the transaction, the
\* deadline, or the stop, which cancels the queue.
AwaitVisible(w) ==
    /\ submitter[w].pc = "observe"
    /\ \/ Keep(w, [submitter[w] EXCEPT !.pc = "pop"]) /\ UNCHANGED control
       \/ /\ control.stop
          /\ control' = [control EXCEPT !.cancelled = TRUE]
          /\ Keep(w, [submitter[w] EXCEPT !.pc = "cancel", !.out = "observing"])
    /\ UNCHANGED <<setup, funds, ledger, queue, producer, seen, outcome, loadFaults>>

SubmitterStep(w) ==
    \/ Pop(w) /\ submitter[w].drops = {}
    \/ AwaitSlot(w) \/ Enter(w) \/ SubmitTransfer(w) \/ ReadBalance(w)
    \/ Settle(w) \/ CancelQueue(w) \/ SubmitterDrops(w) \/ Tell(w) \/ AwaitVisible(w)

----------------------------------------------------------------------------
(* The observers and the requests *)

Propagated == Cardinality({t \in Attempts : seen[t].propagation})

\* TransactionLoadConfirmation::RecordObservation on what the store now has of
\* a transaction.  RecordPropagated throws while no submission is uncounted,
\* and then leaves no mark.
Confirmation(e) ==
    IF ~e.propagation /\ e.visible = Observed
    THEN IF Propagated < Count("submitted")
         THEN [e EXCEPT !.propagation = TRUE, !.confirmation = e.confirmed = Observed]
         ELSE e
    ELSE [e EXCEPT !.confirmation = @ \/ (e.propagation /\ e.confirmed = Observed)]

\* Record, for the observer thread and the submitting thread alike: the entry
\* is retired when every node has confirmed it, then the load is told.
Record(t, n, confirmed) ==
    /\ seen[t].at = "tracked" /\ n \notin seen[t].confirmed
    /\ confirmed \/ n \notin seen[t].visible
    /\ LET e == [seen[t] EXCEPT !.visible = @ \cup {n},
                                !.confirmed = IF confirmed THEN @ \cup {n} ELSE @]
           kept == [e EXCEPT !.at = IF e.confirmed = Observed THEN "retired" ELSE @]
       IN seen' = [seen EXCEPT ![t] = Confirmation(kept)]
    /\ UNCHANGED <<setup, funds, ledger, queue, producer, submitter, outcome, control,
                   loadFaults>>

\* The workload is cancelled, or its run stops: the stop source of the epoch.
StopLoad ==
    /\ control.request # "stop" /\ (producer.end = "none" \/ Between) /\ Disturbable
    /\ control' = [control EXCEPT !.stop = TRUE, !.request = "stop",
                                  !.requests = @ + 1]
    /\ UNCHANGED <<setup, funds, ledger, queue, producer, submitter, seen, outcome,
                   loadFaults>>

\* The workload is asked to pause or to settle, or the pause is lifted; a
\* reconfiguration is a pause lifted at once.  A pause stops the epoch, unless
\* it has yet to start and yields; a settle lets it run out.
RequestLoad(request) ==
    /\ Disturbable
    /\ \/ /\ request = "none" /\ control.request = "pause" /\ producer.end = "paused"
          /\ control' = [control EXCEPT !.request = request, !.requests = @ + 1]
       \/ /\ request = "pause" /\ control.request = "none" /\ producer.end = "none"
          /\ \E stop \in IF producer.pc = "top" THEN BOOLEAN ELSE {TRUE} :
               control' = [control EXCEPT !.request = request, !.requests = @ + 1,
                                          !.stop = @ \/ stop]
       \/ /\ request = "settle"
          /\ \/ control.request = "none" /\ producer.end = "none"
             \/ control.request = "pause" /\ producer.end = "paused"
          /\ control' = [control EXCEPT !.request = request, !.requests = @ + 1]
    /\ UNCHANGED <<setup, funds, ledger, queue, producer, submitter, seen, outcome,
                   loadFaults>>

LoadNext ==
    \/ ProducerStep
    \/ \E w \in Submitters : SubmitterStep(w)
    \/ \E t \in Attempts, n \in Observed, c \in BOOLEAN : Record(t, n, c)
    \/ StopLoad
    \/ \E r \in {"none", "pause", "settle"} : RequestLoad(r)

----------------------------------------------------------------------------
(* Properties *)

Outcomes == {"submitted", "rejected", "timed_out", "backpressured", "dropped",
             "cancelled", "failed"}

\* The shapes of the state; available balances stay natural numbers.
LoadTypeOK ==
    /\ ledger.available \in [Senders -> Nat]
    /\ ledger.held \subseteq [tx: Attempts, sender: Senders]
    /\ queue.gate \in {"open", "closed", "cancelled"}
    /\ Tasks \subseteq Attempts
    /\ outcome \in [Attempts -> Outcomes \cup {"none"}]
    /\ producer.index \in 0 .. setup.limit

\* The ledger never believes more than the wallet holds: what it offers the
\* planner and what is reserved for transfers not yet submitted is covered by
\* the wallet, whatever settles, fails or is dropped in between
\* (TransactionLoadBalanceReservations::Settle).
Unsent(s) == {h \in HeldBy(s) :
    \A w \in Submitters : submitter[w].tx = h.tx /\ submitter[w].pc # "pop"
        => submitter[w].pc \in {"schedule", "enter", "submit"}}
NoOverdraft ==
    \A s \in Senders : ledger.available[s] + Cardinality(Unsent(s)) <= funds[s]

\* When an epoch is over nothing is reserved, queued or locked, and every
\* attempt it planned was told to the accounting exactly once: the sum that
\* TransactionLoadSnapshot::InvariantsHold demands.
EpochIsAccounted ==
    producer.pc = "over" =>
        /\ ledger.held = {} /\ queue.tasks = <<>>
        /\ \A w \in Submitters : ~submitter[w].slot /\ submitter[w].drops = {}
        /\ \A t \in 1 .. producer.index : outcome[t] # "none"
        /\ loadFaults = 0 =>
                \A t \in Attempts : t > producer.index => outcome[t] = "none"

\* One wallet never has two submissions in flight (sender_submission_mutexes).
SenderIsSerial ==
    \A v, w \in Submitters :
        v # w /\ submitter[v].pc \in {"submit", "read"} /\ submitter[w].pc \in {"submit", "read"}
            => SenderOf(submitter[v].tx) # SenderOf(submitter[w].tx)

\* The observation store holds no more than its capacity, the slots reserved
\* for submissions in flight included.
StoreWithinCapacity == Slots <= setup.store

\* A transaction counted as propagated was seen by every observed node, and
\* one counted as confirmed was confirmed by every one.
MilestonesAreReal ==
    \A t \in Attempts :
        /\ seen[t].propagation => seen[t].visible = Observed
        /\ seen[t].confirmation => seen[t].confirmed = Observed

\* A load that nobody stopped and no call failed does not fail, and one that
\* completed planned all it was asked for.
EndIsExplained ==
    producer.pc = "over" =>
        /\ producer.end = "failed" => loadFaults > 0 \/ control.stop
        /\ producer.end = "completed" => producer.index = setup.limit \/ setup.timed
        /\ producer.end = "cancelled" => control.request = "stop"

\* A stop, a pause or a settle ends the epoch: no thread waits for another
\* that is gone.
RequestIsHonoured == (control.stop \/ control.request # "none") ~> producer.pc = "over"

\* A transaction load spends no balance twice, accounts for each epoch, runs
\* each sender one at a time, keeps within the observation store, marks only
\* milestones that were met and explains its end.
LoadCorrect ==
    /\ LoadTypeOK
    /\ NoOverdraft
    /\ EpochIsAccounted
    /\ SenderIsSerial
    /\ StoreWithinCapacity
    /\ MilestonesAreReal
    /\ EndIsExplained

=============================================================================
