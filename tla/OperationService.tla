-------------------------- MODULE OperationService --------------------------
(***************************************************************************)
(* McpOperationService: the operations that MCP sessions submit, one       *)
(* worker thread each; the bounded history they are retained in; the       *)
(* notification queue that any thread may drain, one thread at a time,     *)
(* calling the handler outside the lock; removal of a session and shutdown *)
(* of the service, which cancel, wait and join.                            *)
(*                                                                         *)
(* Every critical section of Impl::mutex is one step. The calls made after *)
(* unlocking (request_stop, the notification handler, join) are steps of   *)
(* their own. Requests enter as McpDispatcher makes them: inside           *)
(* ExecuteSessionRequest, one call of the service each.                    *)
(***************************************************************************)
EXTENDS Integers, Sequences, FiniteSets

CONSTANTS
    Ops,            \* operation identifiers, never reused
    Sessions,       \* session identifiers; s also names the thread removing s
    Requests,       \* the threads of tool calls
    SessionOf,      \* [Requests -> Sessions]
    MaxRetained,    \* maximum_retained_operations
    MaxTasks,       \* maximum_tasks_per_session
    MaxSessions,    \* maximum_sessions
    ServiceBudgets, \* bounds, one of which a behaviour starts with: the
                    \*   requests that are made, the progress reports of an
                    \*   operation, handler calls that throw, evidence records
                    \*   published, calls of RemoveSession
    Nobody

ASSUME ServiceAssumption ==
    /\ SessionOf \in [Requests -> Sessions]
    /\ IsFiniteSet(Ops)
    /\ MaxRetained \in Nat \ {0} /\ MaxTasks \in Nat \ {0}
    /\ MaxSessions \in Nat \ {0}
    /\ \A b \in ServiceBudgets :
         b \in [callers : SUBSET Requests, progress : Nat, failures : Nat,
               published : Nat, removals : Nat]
    /\ Ops \cap Sessions = {} /\ Ops \cap Requests = {}
    /\ Sessions \cap Requests = {}
    /\ {"shutdown", "publisher"} \cap (Ops \cup Sessions \cup Requests) = {}
    /\ Nobody \notin Ops \cup Sessions \cup Requests \cup {"shutdown", "publisher"}

Threads == Ops \cup Requests \cup Sessions \cup {"shutdown", "publisher"}
Keys == Ops \cup Sessions
Live == {"kQueued", "kRunning", "kCancelling"}
Terminal == {"kSucceeded", "kFailed", "kCancelled"}

VARIABLES
    state,         \* snapshot.state; "none" before Submit, "evicted" after
    owner,         \* snapshot.session_id
    cancelled,     \* snapshot.cancel_requested
    sequence,      \* snapshot.sequence
    admission,     \* admission_sequence
    delivered,     \* last_delivered_notification_sequence
    progress,      \* snapshot.progress.completed, below its total
    handle,        \* whether the record still holds its std::jthread
    stop,          \* stop requested of a worker, or of a session's requests
    registered,    \* the keys of sessions
    closing,       \* SessionRecord::closing
    active,        \* SessionRecord::active_operations
    waiters,       \* SessionRecord::waiters
    subscription,  \* the subscription of a session: none, active, inactive
    phase,         \* shutdown_phase; stats.accepting holds while kRunning
    nextState,     \* next_state_sequence
    nextAdmission, \* next_admission_sequence
    slot,          \* sequence of the pending notification of a key, or 0
    order,         \* pending_notifications, as keys
    drainer,       \* the thread that set notification_delivery_active
    inflight,      \* what a thread is handing to the handler
    heard,         \* ghost: the last sequence the handler took, per key
    failures, published, removals,  \* counted against the bounds
    serviceBudget, \* the bounds of this behaviour
    pc,            \* where each thread is
    target         \* the workers (and session) a thread stops or joins

opVars == <<state, owner, cancelled, sequence, admission, delivered, progress,
            handle>>
sessionVars == <<registered, closing, active, waiters, subscription>>
clockVars == <<phase, nextState, nextAdmission>>
noticeVars == <<slot, order, drainer, inflight, heard>>
boundVars == <<failures, published, removals, serviceBudget>>
serviceVars == <<opVars, stop, sessionVars, clockVars, noticeVars, boundVars, pc,
          target>>

Idle == [key |-> Nobody, sequence |-> 0]
Retained == {o \in Ops : state[o] \in Live \cup Terminal}
OpsOf(s) == {o \in Retained : owner[o] = s}

\* The entries of a queue that are in a set, in the order they have in it.
Keep(q, S) ==
    LET kept == {i \in DOMAIN q : q[i] \in S}
        Rank(i) == Cardinality({j \in kept : j <= i})
    IN  [n \in 1 .. Cardinality(kept) |-> q[CHOOSE i \in kept : Rank(i) = n]]

Without(k) == Keep(order, Keys \ {k})
Go(t, where) == pc' = [pc EXCEPT ![t] = where]

ServiceInit ==
    /\ state = [o \in Ops |-> "none"]
    /\ owner = [o \in Ops |-> Nobody]
    /\ cancelled = [o \in Ops |-> FALSE]
    /\ sequence = [o \in Ops |-> 0]
    /\ admission = [o \in Ops |-> 0]
    /\ delivered = [o \in Ops |-> 0]
    /\ progress = [o \in Ops |-> 0]
    /\ handle = [o \in Ops |-> FALSE]
    /\ stop = [k \in Keys |-> FALSE]
    /\ registered = {}
    /\ closing = [s \in Sessions |-> FALSE]
    /\ active = [s \in Sessions |-> 0]
    /\ waiters = [s \in Sessions |-> 0]
    /\ subscription = [s \in Sessions |-> "none"]
    /\ phase = "kRunning"
    /\ nextState = 1 /\ nextAdmission = 1
    /\ slot = [k \in Keys |-> 0]
    /\ order = <<>>
    /\ drainer = Nobody
    /\ inflight = [t \in Threads |-> Idle]
    /\ heard = [k \in Keys |-> 0]
    /\ failures = 0 /\ published = 0 /\ removals = 0
    /\ serviceBudget \in ServiceBudgets
    /\ pc = [t \in Threads |-> "idle"]
    /\ target = [t \in Threads |-> {}]

-----------------------------------------------------------------------------
(* Helpers that run under the lock.                                        *)

Orderings(S) ==
    {q \in [1 .. Cardinality(S) -> S] : \A x \in S : \E i \in DOMAIN q : q[i] = x}
Position(q, o) == CHOOSE i \in DOMAIN q : q[i] = o

\* QueueNotificationLocked for operations given consecutive state sequences:
\* a pending notification is replaced and moves to the back of the queue.
QueueNotification(q, first) ==
    LET listed == {q[i] : i \in DOMAIN q} IN
    /\ slot' = [k \in Keys |-> IF k \in listed THEN first + Position(q, k) - 1
                                               ELSE slot[k]]
    /\ order' = Keep(order, Keys \ listed) \o q

\* IncrementSequenceLocked and QueueOperationNotificationLocked.
Advance(q) ==
    /\ sequence' = [o \in Ops |-> IF \E i \in DOMAIN q : q[i] = o
                                  THEN nextState + Position(q, o) - 1
                                  ELSE sequence[o]]
    /\ nextState' = nextState + Len(q)
    /\ QueueNotification(q, nextState)

\* The live operations of a set not cancelled before become kCancelling; the
\* loop meets them in the order of their random identifiers.
RequestCancel(S) ==
    LET fresh == {o \in S : state[o] \in Live /\ ~cancelled[o]} IN
    \E q \in Orderings(fresh) :
        /\ cancelled' = [o \in Ops |-> o \in fresh \/ cancelled[o]]
        /\ state' = [o \in Ops |-> IF o \in fresh THEN "kCancelling"
                                                  ELSE state[o]]
        /\ Advance(q)

CompleteLocked(o, how) ==
    /\ state' = [state EXCEPT ![o] = how]
    /\ cancelled' = [cancelled EXCEPT ![o] = @ \/ how = "kCancelled"]
    /\ active' = [active EXCEPT ![owner[o]] = @ - 1]
    /\ Advance(<<o>>)

-----------------------------------------------------------------------------
(* Sessions and their requests.                                            *)

RegisterSession(s) ==
    /\ phase = "kRunning"
    /\ s \notin registered /\ pc[s] = "idle"
    /\ Cardinality(registered) < MaxSessions
    /\ registered' = registered \cup {s}
    /\ UNCHANGED <<opVars, stop, closing, active, waiters, subscription,
                   clockVars, noticeVars, boundVars, pc, target>>

\* ExecuteSessionRequest up to its handler.
BeginRequest(r) ==
    LET s == SessionOf[r] IN
    /\ r \in serviceBudget.callers
    /\ pc[r] = "idle"
    /\ phase = "kRunning" /\ s \in registered /\ ~closing[s]
    /\ waiters' = [waiters EXCEPT ![s] = @ + 1]
    /\ Go(r, "inside")
    /\ UNCHANGED <<opVars, stop, registered, closing, active, subscription,
                   clockVars, noticeVars, boundVars, target>>

\* A call that changes nothing (GetOperation, PollSubscription, a rejected
\* one) or a handler that gives up because its token was stopped.
HandlerEnds(r) ==
    /\ pc[r] = "inside"
    /\ Go(r, "leave")
    /\ UNCHANGED <<opVars, stop, sessionVars, clockVars, noticeVars, boundVars,
                   target>>

\* release_request.
EndRequest(r) ==
    /\ pc[r] = "leave"
    /\ waiters' = [waiters EXCEPT ![SessionOf[r]] = @ - 1]
    /\ Go(r, "gone")
    /\ UNCHANGED <<opVars, stop, registered, closing, active, subscription,
                   clockVars, noticeVars, boundVars, target>>

\* A session holds at most one subscription here: an inactive one makes room,
\* and its pending notification goes with it.
CreateSubscription(r) ==
    LET s == SessionOf[r] IN
    /\ pc[r] = "inside"
    /\ phase = "kRunning" /\ s \in registered /\ ~closing[s]
    /\ subscription[s] # "active"
    /\ subscription' = [subscription EXCEPT ![s] = "active"]
    /\ slot' = [slot EXCEPT ![s] = 0]
    /\ order' = Without(s)
    /\ nextAdmission' = nextAdmission + 1
    /\ Go(r, "leave")
    /\ UNCHANGED <<opVars, stop, registered, closing, active, waiters, phase,
                   nextState, drainer, inflight, heard, boundVars, target>>

CancelSubscription(r) ==
    LET s == SessionOf[r] IN
    /\ pc[r] = "inside"
    /\ s \in registered /\ subscription[s] # "none"
    /\ subscription' = [subscription EXCEPT ![s] = "inactive"]
    /\ Go(r, "leave")
    /\ UNCHANGED <<opVars, stop, registered, closing, active, waiters,
                   clockVars, noticeVars, boundVars, target>>

-----------------------------------------------------------------------------
(* Submit and CancelOperation.                                             *)

\* CollectFinishedWorkersLocked.
Finished == {o \in Retained : state[o] \in Terminal /\ pc[o] = "exited"
                                                     /\ handle[o]}

\* Mutant: an operation may be evicted as soon as it is terminal.
EvictableUndelivered == {o \in Ops : state[o] \in Terminal}

Evictable == {o \in Ops : state[o] \in Terminal /\ delivered[o] >= sequence[o]}

\* EvictTerminalOperationLocked takes the oldest evictable operation.
Evictions ==
    IF Cardinality(Retained) < MaxRetained THEN {{}}
    ELSE {{x} : x \in {o \in Evictable :
                         \A y \in Evictable : admission[o] <= admission[y]}}

\* The threads of the workers in a set leave their records for the caller.
Take(t, S) ==
    /\ handle' = [o \in Ops |-> handle[o] /\ o \notin S]
    /\ target' = [target EXCEPT ![t] = {o \in S : handle[o]}]

SubmitAllowed(r) ==
    /\ pc[r] = "inside"
    /\ phase = "kRunning"
    /\ SessionOf[r] \in registered /\ ~closing[SessionOf[r]]
    /\ active[SessionOf[r]] < MaxTasks

Submit(r, o) ==
    LET s == SessionOf[r] IN
    /\ SubmitAllowed(r)
    /\ state[o] = "none"
    /\ \E gone \in Evictions :
         /\ state' = [x \in Ops |-> IF x \in gone THEN "evicted"
                                    ELSE IF x = o THEN "kQueued" ELSE state[x]]
         /\ handle' = [x \in Ops |-> x = o \/ (handle[x] /\
                                              x \notin Finished \cup gone)]
         /\ target' = [target EXCEPT ![r] = {x \in Finished \cup gone :
                                               handle[x]}]
    /\ owner' = [owner EXCEPT ![o] = s]
    /\ sequence' = [sequence EXCEPT ![o] = nextState]
    /\ admission' = [admission EXCEPT ![o] = nextAdmission]
    /\ active' = [active EXCEPT ![s] = @ + 1]
    /\ pc' = [pc EXCEPT ![r] = "join", ![o] = "start"]
    /\ nextState' = nextState + 1
    /\ nextAdmission' = nextAdmission + 1
    /\ UNCHANGED <<cancelled, delivered, progress, stop, registered, closing,
                   waiters, subscription, phase, noticeVars, boundVars>>

\* The thread of the new operation does not start: the admission is undone,
\* the eviction that made room is not.
SubmitWithoutThread(r) ==
    /\ SubmitAllowed(r)
    /\ \E gone \in Evictions :
         /\ state' = [x \in Ops |-> IF x \in gone THEN "evicted" ELSE state[x]]
         /\ Take(r, Finished \cup gone)
    /\ nextState' = nextState + 1
    /\ nextAdmission' = nextAdmission + 1
    /\ Go(r, "join")
    /\ UNCHANGED <<owner, cancelled, sequence, admission, delivered, progress,
                   stop, sessionVars, phase, noticeVars, boundVars>>

\* "MCP retained operation capacity contains only active work": the workers
\* already collected are joined as the exception leaves Submit.
SubmitFull(r) ==
    /\ SubmitAllowed(r)
    /\ Evictions = {}
    /\ Take(r, Finished)
    /\ Go(r, "join")
    /\ UNCHANGED <<state, owner, cancelled, sequence, admission, delivered,
                   progress, stop, sessionVars, clockVars, noticeVars,
                   boundVars>>

CancelOperation(r, o) ==
    /\ pc[r] = "inside"
    /\ SessionOf[r] \in registered
    /\ o \in OpsOf(SessionOf[r])
    /\ state[o] \in Live /\ ~cancelled[o]
    /\ RequestCancel({o})
    /\ target' = [target EXCEPT ![r] = {x \in {o} : handle[x]}]
    /\ Go(r, "stop")
    /\ UNCHANGED <<owner, admission, delivered, progress, handle, stop,
                   sessionVars, phase, nextAdmission, drainer, inflight, heard,
                   boundVars>>

\* request_stop on the collected sources, after the lock was released.
RequestStop(t) ==
    /\ pc[t] = "stop"
    /\ stop' = [k \in Keys |-> stop[k] \/ k \in target[t]]
    /\ target' = [target EXCEPT ![t] = IF t = "shutdown" THEN @ ELSE {}]
    /\ Go(t, "drain")
    /\ UNCHANGED <<opVars, sessionVars, clockVars, noticeVars, boundVars>>

-----------------------------------------------------------------------------
(* The worker of an operation: WorkerMain.                                 *)

\* RunOperation up to its first DrainNotifications.
StartOperation(o) ==
    /\ pc[o] = "start"
    /\ IF cancelled[o] \/ stop[o]
       THEN CompleteLocked(o, "kCancelled")
       ELSE /\ state' = [state EXCEPT ![o] = "kRunning"]
            /\ Advance(<<o>>)
            /\ UNCHANGED <<cancelled, active>>
    /\ Go(o, "drain")
    /\ UNCHANGED <<owner, admission, delivered, progress, handle, stop,
                   registered, closing, waiters, subscription, phase,
                   nextAdmission, drainer, inflight, heard, boundVars, target>>

ReportProgress(o) ==
    /\ pc[o] = "execute"
    /\ progress[o] < serviceBudget.progress
    /\ progress' = [progress EXCEPT ![o] = @ + 1]
    /\ Advance(<<o>>)
    /\ Go(o, "drain")
    /\ UNCHANGED <<state, owner, cancelled, admission, delivered, handle, stop,
                   sessionVars, phase, nextAdmission, drainer, inflight, heard,
                   boundVars, target>>

\* The executor returns, fails, or throws McpOperationCancelled: because its
\* token is stopped, or because the run it works on is.
FinishOperation(o) ==
    /\ pc[o] = "execute"
    /\ \E how \in Terminal : CompleteLocked(o, how)
    /\ Go(o, "drain")
    /\ UNCHANGED <<owner, admission, delivered, progress, handle, stop,
                   registered, closing, waiters, subscription, phase,
                   nextAdmission, drainer, inflight, heard, boundVars, target>>

WorkerExited(o) ==
    /\ pc[o] = "exit"
    /\ Go(o, "exited")
    /\ UNCHANGED <<opVars, stop, sessionVars, clockVars, noticeVars, boundVars,
                   target>>

-----------------------------------------------------------------------------
(* DrainNotifications, by a thread at "drain".                             *)

\* Where a thread goes on when DrainNotifications returns.
After(t) ==
    CASE t \in Ops -> IF state[t] \in Live THEN "execute" ELSE "exit"
      [] t \in Requests -> "leave"
      [] t \in Sessions -> "wait"
      [] t = "shutdown" -> IF phase = "kStopping" THEN "join" ELSE "destroyed"
      [] t = "publisher" -> "idle"

\* Mutant: delivery is not exclusive.
DrainShared(t) ==
    /\ pc[t] = "drain"
    /\ IF order = <<>>
       THEN Go(t, After(t)) /\ UNCHANGED drainer
       ELSE drainer' = t /\ Go(t, "deliver")
    /\ UNCHANGED <<opVars, stop, sessionVars, clockVars, slot, order, inflight,
                   heard, boundVars, target>>

Drain(t) ==
    /\ pc[t] = "drain"
    /\ IF drainer # Nobody \/ order = <<>>
       THEN Go(t, After(t)) /\ UNCHANGED drainer
       ELSE drainer' = t /\ Go(t, "deliver")
    /\ UNCHANGED <<opVars, stop, sessionVars, clockVars, slot, order, inflight,
                   heard, boundVars, target>>

\* The notification of an operation keeps its place while the handler has it;
\* that of a subscription is popped.
TakeOut(k) ==
    IF k \in Ops THEN UNCHANGED <<slot, order>>
    ELSE slot' = [slot EXCEPT ![k] = 0] /\ order' = Tail(order)

PickNotification(t) ==
    /\ pc[t] = "deliver"
    /\ \/ /\ order = <<>>
          /\ drainer' = Nobody
          /\ Go(t, After(t))
          /\ UNCHANGED <<slot, order, inflight>>
       \/ /\ order # <<>>
          /\ LET k == Head(order) IN
             /\ inflight' = [inflight EXCEPT ![t] =
                               [key |-> k, sequence |-> slot[k]]]
             /\ TakeOut(k)
          /\ Go(t, "handler")
          /\ UNCHANGED drainer
    /\ UNCHANGED <<opVars, stop, sessionVars, clockVars, heard, boundVars,
                   target>>

\* The slot of a delivered update goes unless a newer update has taken it.
RetireSlot(k, n) ==
    IF slot[k] <= n
    THEN slot' = [slot EXCEPT ![k] = 0] /\ order' = Without(k)
    ELSE UNCHANGED <<slot, order>>

\* Mutant: a thread delivers one notification and leaves the others.
DeliverMoreNot(t) == drainer' = Nobody /\ Go(t, After(t))

\* The loop of DrainNotifications goes on until it finds the queue empty.
DeliverMore(t) == UNCHANGED drainer /\ Go(t, "deliver")

\* The handler returned.
HandlerTakes(t) ==
    LET k == inflight[t].key
        n == inflight[t].sequence
    IN  /\ pc[t] = "handler"
        /\ heard' = [heard EXCEPT ![k] = n]
        /\ IF k \in Ops
           THEN /\ delivered' = IF k \in Retained /\ delivered[k] < n
                                THEN [delivered EXCEPT ![k] = n] ELSE delivered
                /\ RetireSlot(k, n)
           ELSE UNCHANGED <<delivered, slot, order>>
        /\ inflight' = [inflight EXCEPT ![t] = Idle]
        /\ DeliverMore(t)
        /\ UNCHANGED <<state, owner, cancelled, sequence, admission, progress,
                       handle, stop, sessionVars, clockVars, boundVars, target>>

\* The handler threw. An operation's notification goes to the back and this
\* drain ends; a subscription's is lost and the drain goes on.
HandlerThrows(t) ==
    LET k == inflight[t].key IN
    /\ pc[t] = "handler"
    /\ failures < serviceBudget.failures
    /\ failures' = failures + 1
    /\ inflight' = [inflight EXCEPT ![t] = Idle]
    /\ \/ /\ k \in Ops
          /\ order' = Append(Without(k), k)
          /\ drainer' = Nobody
          /\ Go(t, After(t))
       \/ /\ k \in Sessions
          /\ DeliverMore(t)
          /\ UNCHANGED order
    /\ UNCHANGED <<opVars, stop, sessionVars, clockVars, slot, heard,
                   published, removals, serviceBudget, target>>

-----------------------------------------------------------------------------
(* Evidence published by the run.                                          *)

\* Publish: the record matches some of the active subscriptions. A pending
\* notification of a subscription is replaced where it stands.
Publish ==
    /\ pc["publisher"] = "idle"
    /\ phase = "kRunning"
    /\ published < serviceBudget.published
    /\ published' = published + 1
    /\ \E hits \in SUBSET {s \in registered : subscription[s] = "active"} :
       \E q \in Orderings({s \in hits : slot[s] = 0}) :
         /\ slot' = [k \in Keys |-> IF k \in hits THEN published + 1 ELSE slot[k]]
         /\ order' = order \o q
    /\ Go("publisher", "drain")
    /\ UNCHANGED <<opVars, stop, sessionVars, clockVars, drainer, inflight,
                   heard, failures, removals, serviceBudget, target>>

\* CloseRunSubscriptions, for the one run there is.
CloseRunSubscriptions ==
    /\ \E s \in registered : subscription[s] = "active"
    /\ subscription' = [s \in Sessions |->
                          IF s \in registered /\ subscription[s] = "active"
                          THEN "inactive" ELSE subscription[s]]
    /\ UNCHANGED <<opVars, stop, registered, closing, active, waiters,
                   clockVars, noticeVars, boundVars, pc, target>>

-----------------------------------------------------------------------------
(* RemoveSession, by the thread named after the session.                   *)

RemoveSession(s) ==
    /\ pc[s] = "idle"
    /\ s \in registered
    /\ removals < serviceBudget.removals
    /\ removals' = removals + 1
    /\ closing' = [closing EXCEPT ![s] = TRUE]
    /\ RequestCancel(OpsOf(s))
    /\ target' = [target EXCEPT ![s] =
                    {s} \cup {o \in OpsOf(s) : state[o] \in Live /\ handle[o]}]
    /\ subscription' = [subscription EXCEPT ![s] =
                          IF @ = "active" THEN "inactive" ELSE @]
    /\ Go(s, "stop")
    /\ UNCHANGED <<owner, admission, delivered, progress, handle, stop,
                   registered, active, waiters, phase, nextAdmission, drainer,
                   inflight, heard, failures, published, serviceBudget>>

SessionStopped(s) == s \in registered /\ active[s] = 0 /\ waiters[s] = 0

\* ErasePendingNotificationLocked for each subscription, then the session.
EraseSession(s) ==
    /\ registered' = registered \ {s}
    /\ subscription' = [subscription EXCEPT ![s] = "none"]
    /\ slot' = [slot EXCEPT ![s] = 0]
    /\ order' = Without(s)

SessionRemoved(s) ==
    /\ pc[s] = "wait"
    /\ SessionStopped(s)
    /\ Take(s, OpsOf(s))
    /\ EraseSession(s)
    /\ Go(s, "join")
    /\ UNCHANGED <<state, owner, cancelled, sequence, admission, delivered,
                   progress, stop, closing, active, waiters, clockVars,
                   drainer, inflight, heard, boundVars>>

\* wait_until also ends when shutdown cleared the sessions meanwhile; the
\* subscriptions are then walked through a reference to the destroyed record,
\* and a pending notification may or may not be erased.
SessionLost(s) ==
    /\ pc[s] = "wait"
    /\ s \notin registered
    /\ Take(s, OpsOf(s))
    /\ \E k \in {s, Nobody} :
         /\ slot' = [x \in Keys |-> IF x = k THEN 0 ELSE slot[x]]
         /\ order' = Without(k)
    /\ Go(s, "join")
    /\ UNCHANGED <<state, owner, cancelled, sequence, admission, delivered,
                   progress, stop, sessionVars, clockVars, drainer, inflight,
                   heard, boundVars>>

\* RemoveSession returns false; the protocol layer may try again.
RemoveTimedOut(s) ==
    /\ pc[s] = "wait"
    /\ s \in registered /\ ~(active[s] = 0 /\ waiters[s] = 0)
    /\ Go(s, "idle")
    /\ UNCHANGED <<opVars, stop, sessionVars, clockVars, noticeVars, boundVars,
                   target>>

-----------------------------------------------------------------------------
(* Shutdown, by a thread that is neither a worker nor a request.           *)

Shutdown ==
    /\ pc["shutdown"] = "idle"
    /\ phase' = "kStopping"
    /\ RequestCancel(Retained)
    /\ handle' = [o \in Ops |-> FALSE]
    /\ target' = [target EXCEPT !["shutdown"] =
                    {o \in Retained : handle[o]} \cup registered]
    /\ subscription' = [s \in Sessions |->
                          IF subscription[s] = "active" THEN "inactive"
                                                        ELSE subscription[s]]
    /\ Go("shutdown", "stop")
    /\ UNCHANGED <<owner, admission, delivered, progress, stop, registered,
                   closing, active, waiters, nextAdmission, drainer, inflight,
                   heard, boundVars>>

\* join of the workers a thread took.
JoinWorkers(t) ==
    /\ pc[t] = "join"
    /\ \A o \in target[t] \cap Ops : pc[o] = "exited"
    /\ Go(t, CASE t \in Requests -> "leave"
               [] t \in Sessions -> "removed"
               [] t = "shutdown" -> "wait")
    /\ target' = [target EXCEPT ![t] = {}]
    /\ UNCHANGED <<opVars, stop, sessionVars, clockVars, noticeVars, boundVars>>

\* SessionWaitersDrainedLocked.
SessionWaitersDrained == \A s \in registered : waiters[s] = 0

FinalizeShutdown ==
    /\ pc["shutdown"] = "wait"
    /\ SessionWaitersDrained
    /\ registered' = {}
    /\ subscription' = [s \in Sessions |-> "none"]
    /\ phase' = "kComplete"
    /\ Go("shutdown", "complete")
    /\ UNCHANGED <<opVars, stop, closing, active, waiters, nextState,
                   nextAdmission, noticeVars, boundVars, target>>

\* ~Impl calls Shutdown again; its owner makes sure that no other call is
\* under way. Every worker is collected, so what is left is to drain.
Destroy ==
    /\ pc["shutdown"] = "complete"
    /\ \A t \in Threads \ {"shutdown"} :
         pc[t] \in {"idle", "gone", "removed", "exited"}
    /\ Go("shutdown", "drain")
    /\ UNCHANGED <<opVars, stop, sessionVars, clockVars, noticeVars, boundVars,
                   target>>

Destroyed == pc["shutdown"] = "destroyed" /\ UNCHANGED serviceVars

-----------------------------------------------------------------------------
SessionStep(s) ==
    \/ RegisterSession(s) \/ RemoveSession(s)
    \/ SessionRemoved(s) \/ SessionLost(s) \/ RemoveTimedOut(s)

RequestStep(r) ==
    \/ BeginRequest(r) \/ HandlerEnds(r) \/ EndRequest(r)
    \/ CreateSubscription(r) \/ CancelSubscription(r)
    \/ SubmitWithoutThread(r) \/ SubmitFull(r)
    \/ \E o \in Ops : Submit(r, o) \/ CancelOperation(r, o)

WorkerStep(o) ==
    \/ StartOperation(o) \/ ReportProgress(o)
    \/ FinishOperation(o) \/ WorkerExited(o)

ThreadStep(t) ==
    \/ RequestStop(t) \/ Drain(t) \/ PickNotification(t)
    \/ HandlerTakes(t) \/ HandlerThrows(t) \/ JoinWorkers(t)

ServiceNext ==
    \/ \E s \in Sessions : SessionStep(s)
    \/ \E r \in Requests : RequestStep(r)
    \/ \E o \in Ops : WorkerStep(o)
    \/ \E t \in Threads : ThreadStep(t)
    \/ Publish \/ CloseRunSubscriptions
    \/ Shutdown \/ FinalizeShutdown \/ Destroy \/ Destroyed

ServiceSpec == ServiceInit /\ [][ServiceNext]_serviceVars

\* The scheduler runs every thread that can move; the handler returns; an
\* executor or a tool call that was asked to stop ends. Nothing says that one
\* that was not asked ever does, that a session is removed, or that the
\* service is shut down.
ServiceFairness ==
    /\ \A t \in Threads :
         WF_serviceVars(\/ RequestStop(t) \/ Drain(t) \/ PickNotification(t)
                        \/ HandlerTakes(t) \/ JoinWorkers(t))
    /\ \A o \in Ops :
         /\ WF_serviceVars(StartOperation(o) \/ WorkerExited(o))
         /\ WF_serviceVars(stop[o] /\ FinishOperation(o))
    /\ \A r \in Requests :
         /\ WF_serviceVars(EndRequest(r))
         /\ WF_serviceVars(stop[SessionOf[r]] /\ HandlerEnds(r))
    /\ \A s \in Sessions : WF_serviceVars(SessionRemoved(s) \/ SessionLost(s))
    /\ WF_serviceVars(FinalizeShutdown)
    /\ WF_serviceVars(Destroy)

ServiceFairSpec == ServiceSpec /\ ServiceFairness

-----------------------------------------------------------------------------
(* What the service promises.                                              *)

TypeOK ==
    /\ state \in [Ops -> Live \cup Terminal \cup {"none", "evicted"}]
    /\ owner \in [Ops -> Sessions \cup {Nobody}]
    /\ cancelled \in [Ops -> BOOLEAN]
    /\ sequence \in [Ops -> Nat] /\ admission \in [Ops -> Nat]
    /\ delivered \in [Ops -> Nat] /\ progress \in [Ops -> Nat]
    /\ handle \in [Ops -> BOOLEAN] /\ stop \in [Keys -> BOOLEAN]
    /\ registered \subseteq Sessions
    /\ closing \in [Sessions -> BOOLEAN]
    /\ active \in [Sessions -> Nat] /\ waiters \in [Sessions -> Nat]
    /\ subscription \in [Sessions -> {"none", "active", "inactive"}]
    /\ phase \in {"kRunning", "kStopping", "kComplete"}
    /\ nextState \in Nat /\ nextAdmission \in Nat
    /\ slot \in [Keys -> Nat]
    /\ order \in Seq(Keys)
    /\ drainer \in Threads \cup {Nobody}
    /\ inflight \in [Threads -> [key : Keys \cup {Nobody}, sequence : Nat]]
    /\ heard \in [Keys -> Nat]
    /\ serviceBudget \in ServiceBudgets
    /\ failures \in 0 .. serviceBudget.failures
    /\ published \in 0 .. serviceBudget.published
    /\ removals \in 0 .. serviceBudget.removals
    /\ pc \in [Threads ->
                 {"idle", "inside", "leave", "gone", "stop", "drain", "deliver",
                  "handler", "join", "wait", "start", "execute", "exit",
                  "exited", "removed", "complete", "destroyed"}]
    /\ target \in [Threads -> SUBSET Keys]

\* The queue knows exactly what the client does not: once an operation has
\* started, either its latest update is pending and newer than anything
\* delivered, or the latest update has been delivered and nothing is pending.
\* Neither coalescing, a failed handler nor an update that arrives while an
\* older one is in the handler's hands may lose or resurrect one.
QueueHoldsWhatIsUnheard ==
    \A o \in Ops :
        IF state[o] \in {"none", "kQueued", "evicted"} THEN slot[o] = 0
        ELSE \/ slot[o] = sequence[o] /\ delivered[o] < sequence[o]
             \/ slot[o] = 0 /\ delivered[o] = sequence[o]

\* "MCP in-flight operation notification lost its queue slot" cannot happen:
\* whatever runs while the handler has an operation's notification (updates,
\* removals, evictions), its slot is still there when the handler returns.
InFlightKeepsItsSlot ==
    \A t \in Threads :
        inflight[t].key \in Ops => slot[inflight[t].key] >= inflight[t].sequence

\* The client never sees an operation or a subscription go back: what the
\* handler is given only gets newer, so nothing follows a terminal update.
HandlerHearsInOrder == [][\A k \in Keys : heard'[k] >= heard[k]]_serviceVars

\* An operation that is no longer retained was reported to the end: its
\* terminal update was taken by the handler before the record was evicted.
EvictedWasHeard ==
    \A o \in Ops : state[o] = "evicted" => heard[o] = sequence[o]

\* A session's books are right, so CompleteLocked and release_request find the
\* session and never underflow: its active operations and its waiters are the
\* operations and the requests under way, and none outlives the session.
Accounting ==
    /\ \A s \in registered :
         /\ active[s] = Cardinality({o \in OpsOf(s) : state[o] \in Live})
         /\ waiters[s] = Cardinality({r \in Requests :
                SessionOf[r] = s /\ pc[r] \notin {"idle", "gone"}})
    /\ \A o \in Ops : state[o] \in Live => owner[o] \in registered
    /\ \A r \in Requests : pc[r] \notin {"idle", "gone"} =>
                               SessionOf[r] \in registered

\* A thread that finds delivery taken may leave its notification behind: while
\* any is pending and no handler has failed, some thread is delivering or is
\* on its way to.
NoStrandedNotification ==
    order # <<>> /\ failures = 0 =>
        \/ drainer # Nobody
        \/ \E t \in Threads : pc[t] \in {"stop", "drain"}

\* QueueNotificationLocked never finds the queue at the bound where it throws
\* "MCP service notification queue exceeded its bound": there is one entry per
\* retained operation or per subscription of a session that still exists.
QueueWithinBound ==
    /\ \A i, j \in DOMAIN order : order[i] = order[j] => i = j
    /\ \A i \in DOMAIN order : order[i] \in Retained \cup Sessions
    /\ phase # "kComplete" =>
         \A i \in DOMAIN order : order[i] \in Retained \cup registered

\* Once RemoveSession has returned, nothing of the session runs: its requests
\* have left, its operations are terminal, and no notification of its
\* subscription is queued.
RemovedSessionIsQuiet ==
    \A s \in Sessions : pc[s] \in {"join", "removed"} =>
        /\ s \notin registered
        /\ \A o \in OpsOf(s) : state[o] \in Terminal
        /\ \A r \in Requests : SessionOf[r] = s => pc[r] \in {"idle", "gone"}
        /\ phase = "kRunning" => slot[s] = 0

\* When shutdown is complete every worker has exited, apart from those a
\* removal still under way has taken to join.
ShutdownLeavesNoWorker ==
    phase = "kComplete" =>
        /\ \A o \in Ops :
             \/ pc[o] \in {"idle", "exited"}
             \/ \E s \in Sessions : pc[s] = "join" /\ o \in target[s]
        /\ \A r \in Requests : pc[r] \in {"idle", "gone"}

\* A cancelled operation reaches a terminal state.
CancellationTerminates ==
    \A o \in Ops : (state[o] = "kCancelling") ~> (state[o] \in Terminal)

\* Shutdown returns: no thread waits for another in a circle.
ShutdownCompletes == (phase = "kStopping") ~> (phase = "kComplete")

\* Every update is delivered unless the handler throws, which ends the thread
\* that delivers and leaves the rest to the next one with an update of its own.
PendingIsDelivered ==
    \A o \in Ops :
        (slot[o] # 0) ~> (failures > 0 \/ (slot[o] = 0 /\ heard[o] = sequence[o]))

\* The history and the books of the operation service: an operation in flight
\* keeps its place, only what its session has heard of is evicted, the counts
\* add up, and shutdown leaves no worker behind.
ServiceHistoryCorrect ==
    /\ TypeOK
    /\ InFlightKeepsItsSlot
    /\ EvictedWasHeard
    /\ Accounting
    /\ ShutdownLeavesNoWorker

\* The notifications of the operation service: the queue holds what is not yet
\* heard, within its bound, with somebody to drain it, and a removed session
\* hears no more.
ServiceDeliveryCorrect ==
    /\ QueueHoldsWhatIsUnheard
    /\ NoStrandedNotification
    /\ QueueWithinBound
    /\ RemovedSessionIsQuiet

\* A handler hears of an operation in order; a cancelled operation ends,
\* shutdown completes and what is pending is delivered.
ServiceProgress ==
    /\ HandlerHearsInOrder
    /\ CancellationTerminates
    /\ ShutdownCompletes
    /\ PendingIsDelivered

=============================================================================
