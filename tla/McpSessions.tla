---------------------------- MODULE McpSessions ----------------------------
(***************************************************************************)
(* The sessions of the MCP protocol and the application sessions behind    *)
(* them.  McpProtocol keeps a map of sessions, a list of sessions whose    *)
(* application side is still to be closed and a list of those it has given *)
(* up on; McpOperationService keeps a record per application session,      *)
(* which holds one of its slots until RemoveSession succeeds.              *)
(*                                                                         *)
(* Threads: the HTTP workers (one per initialize, request or DELETE), the  *)
(* deadline worker, the cleanup worker, and the thread that stops the      *)
(* endpoint.  RemoveSession waits outside the protocol's mutex, for at     *)
(* most session_removal_timeout, until the session's operations and        *)
(* requests have ended.  Session identifiers are random and never reused.  *)
(***************************************************************************)
EXTENDS Naturals, Sequences, FiniteSets

CONSTANTS
    Ids,             \* the session identifiers of one behaviour
    Keys,            \* JSON-RPC request identifiers
    MaxSessions,     \* kMcpMaximumSessions, and maximum_sessions of the service
    MaxCalls,        \* bound: requests of one behaviour
    NoId             \* no session

ASSUME SessionBounds ==
    /\ MaxSessions \in Nat \ {0} /\ MaxCalls \in Nat /\ NoId \notin Ids

MaximumPending     == 2 * MaxSessions   \* kMaximumPendingSessionCleanups
MaximumAttempts    == 2                 \* kMaximumRuntimeAttempts

VARIABLES
    sess,      \* sessions: the state of each, "none" when not in the map
    due,       \* the awaiting sessions whose initialization deadline passed
    active,    \* active_requests: what each request of a session is doing
    app,       \* the application session: none, open, closing or gone
    working,   \* sessions with an application operation under way
    closer,    \* where the DELETE handler of a session is
    pend,      \* pending_cleanup: [id, tries, busy], in order
    failed,    \* failed_cleanup
    cleaner,   \* [at, id]: the cleanup worker
    dropped,   \* sessions the protocol forgot without closing
    halt,      \* how far the endpoint's stop has come
    calls

sessionVars == <<sess, due, active, app, working, closer, pend, failed,
                 cleaner, dropped, halt, calls>>

SessionsInit ==
    /\ sess = [i \in Ids |-> "none"] /\ due = {}
    /\ active = [i \in Ids |-> [k \in Keys |-> "none"]]
    /\ app = [i \in Ids |-> "none"] /\ working = {}
    /\ closer = [i \in Ids |-> "none"]
    /\ pend = <<>> /\ failed = <<>> /\ dropped = {}
    /\ cleaner = [at |-> "idle", id |-> NoId]
    /\ halt = "up" /\ calls = 0

Count(f, kinds) == Cardinality({i \in Ids : f[i] \in kinds})
Pending(i)      == \E n \in DOMAIN pend : pend[n].id = i
Place(i)        == CHOOSE n \in DOMAIN pend : pend[n].id = i
Live            == {"opening", "awaiting", "initialized", "closing"}

-----------------------------------------------------------------------------
(* initialize.                                                             *)

\* HandleInitialize up to the session handler, refused at capacity.
CreateSession(i) ==
    /\ halt = "up" /\ sess[i] = "none" /\ app[i] = "none"
    /\ Count(sess, Live) < MaxSessions /\ Len(pend) <= MaxSessions
    /\ sess' = [sess EXCEPT ![i] = "opening"]
    /\ UNCHANGED <<due, active, app, working, closer, pend, failed, cleaner,
                   dropped, halt, calls>>

\* The session handler: RegisterSession, or an exception that erases the
\* protocol's session again.
RegisterSession(i) ==
    /\ sess[i] = "opening" /\ app[i] = "none"
    /\ IF halt = "up" /\ Count(app, {"open", "closing"}) < MaxSessions
       THEN app' = [app EXCEPT ![i] = "open"] /\ UNCHANGED sess
       ELSE /\ app' = [app EXCEPT ![i] = "gone"]
            /\ sess' = [sess EXCEPT ![i] = "none"]
    /\ UNCHANGED <<due, active, working, closer, pend, failed, cleaner,
                   dropped, halt, calls>>

\* ArmInitializationDeadline.
ArmDeadline(i) ==
    /\ sess[i] = "opening" /\ app[i] # "none"
    /\ sess' = [sess EXCEPT ![i] = "awaiting"]
    /\ UNCHANGED <<due, active, app, working, closer, pend, failed, cleaner,
                   dropped, halt, calls>>

\* The deadline of a session that awaits notifications/initialized passes.
DeadlinePasses(i) ==
    /\ sess[i] = "awaiting" /\ i \notin due /\ due' = due \cup {i}
    /\ UNCHANGED <<sess, active, app, working, closer, pend, failed, cleaner,
                   dropped, halt, calls>>

\* MarkInitialized, before the deadline.
MarkInitialized(i) ==
    /\ halt = "up" /\ sess[i] = "awaiting" /\ i \notin due
    /\ sess' = [sess EXCEPT ![i] = "initialized"]
    /\ UNCHANGED <<due, active, app, working, closer, pend, failed, cleaner,
                   dropped, halt, calls>>

\* A session leaves the map with its application side to be closed: put on
\* the pending list, else on the failed list, which forgets its oldest
\* entry when it is full.
HandOver(i, tries) ==
    IF Len(pend) < MaximumPending
    THEN /\ pend' = Append(pend, [id |-> i, tries |-> tries, busy |-> FALSE])
         /\ UNCHANGED <<failed, dropped>>
    ELSE /\ failed' = Append(IF Len(failed) = MaxSessions THEN Tail(failed)
                             ELSE failed, i)
         /\ dropped' = dropped \cup (IF Len(failed) = MaxSessions
                                     THEN {Head(failed)} ELSE {})
         /\ UNCHANGED pend

\* ExpireSessionLocked: by the deadline worker, or by the next request or
\* DELETE that names the session.
ExpireSession(i) ==
    /\ sess[i] = "awaiting" /\ i \in due
    /\ sess' = [sess EXCEPT ![i] = "none"] /\ due' = due \ {i}
    /\ HandOver(i, 0)
    /\ UNCHANGED <<active, app, working, closer, cleaner, halt, calls>>

-----------------------------------------------------------------------------
(* Requests.                                                               *)

Running == {"active", "stopped"}

\* RegisterRequest, then ExecuteSessionRequest.  A key that is active in the
\* session is refused.
BeginRequest(i, k) ==
    /\ halt = "up" /\ calls < MaxCalls /\ calls' = calls + 1
    /\ sess[i] = "initialized" /\ active[i][k] \notin Running
    /\ active' = [active EXCEPT ![i][k] = "active"]
    /\ UNCHANGED <<sess, due, app, working, closer, pend, failed, cleaner,
                   dropped, halt>>

\* A tool call submits an operation that outlives the request; the service
\* refuses it once the session is closing.
StartOperation(i, k) ==
    /\ active[i][k] = "active" /\ app[i] = "open" /\ i \notin working
    /\ working' = working \cup {i}
    /\ UNCHANGED <<sess, due, active, app, closer, pend, failed, cleaner,
                   dropped, halt, calls>>

OperationEnds(i) ==
    /\ i \in working /\ working' = working \ {i}
    /\ UNCHANGED <<sess, due, active, app, closer, pend, failed, cleaner,
                   dropped, halt, calls>>

\* notifications/cancelled, or the transport going away.
StopRequest(i, k) ==
    /\ active[i][k] = "active"
    /\ sess[i] = "initialized" \/ halt # "up"
    /\ active' = [active EXCEPT ![i][k] = "stopped"]
    /\ UNCHANGED <<sess, due, app, working, closer, pend, failed, cleaner,
                   dropped, halt, calls>>

\* Dispatch returns: a request that was told to stop is answered with 202
\* and no result.  FinishRequest then forgets it.
FinishCall(i, k) ==
    /\ active[i][k] \in Running
    /\ active' = [active EXCEPT ![i][k] = "none"]
    /\ UNCHANGED <<sess, due, app, working, closer, pend, failed, cleaner,
                   dropped, halt, calls>>

-----------------------------------------------------------------------------
(* DELETE.                                                                 *)

\* The session is closing before the requests to stop are collected, so that
\* no later request is missed.
BeginDelete(i) ==
    /\ halt = "up" /\ closer[i] = "none"
    /\ sess[i] = "initialized" \/ (sess[i] = "awaiting" /\ i \notin due)
    /\ sess' = [sess EXCEPT ![i] = "closing"]
    /\ closer' = [closer EXCEPT ![i] = "stopping"]
    /\ UNCHANGED <<due, active, app, working, pend, failed, cleaner, dropped,
                   halt, calls>>

\* Mutant: the requests of the session are not told to stop.
SilentStops(i) ==
    /\ closer[i] = "stopping"
    /\ closer' = [closer EXCEPT ![i] = "removing"]
    /\ app' = [app EXCEPT ![i] = IF @ = "open" THEN "closing" ELSE @]
    /\ UNCHANGED <<sess, due, active, working, pend, failed, cleaner, dropped,
                   halt, calls>>

\* Every request is told to stop, and RemoveSession marks the application
\* session and its operations.
StopRequests(i) ==
    /\ closer[i] = "stopping"
    /\ active' = [active EXCEPT ![i] = [k \in Keys |->
                    IF @[k] = "active" THEN "stopped" ELSE @[k]]]
    /\ closer' = [closer EXCEPT ![i] = "removing"]
    /\ app' = [app EXCEPT ![i] = IF @ = "open" THEN "closing" ELSE @]
    /\ UNCHANGED <<sess, due, working, pend, failed, cleaner, dropped, halt,
                   calls>>

\* RemoveSession may return true: nothing of the session is under way.
Quiet(i) == i \notin working /\ \A k \in Keys : active[i][k] \notin Running

\* The application session's record is gone (shut down meanwhile), so that
\* RequireSessionLocked throws, or its work did not end in time.
MayFail(i) == ~Quiet(i) \/ app[i] = "gone"

\* FinishExplicitSessionClose: the session is gone, or handed to the cleanup
\* worker with one failed attempt.
FinishDelete(i) ==
    /\ closer[i] = "removing"
    /\ closer' = [closer EXCEPT ![i] = "none"]
    /\ sess' = [sess EXCEPT ![i] = "none"]
    /\ \/ /\ app[i] = "closing" /\ Quiet(i)
          /\ app' = [app EXCEPT ![i] = "gone"]
          /\ UNCHANGED <<pend, failed, dropped>>
       \/ MayFail(i) /\ HandOver(i, 1) /\ UNCHANGED app
    /\ UNCHANGED <<due, active, working, cleaner, halt, calls>>

-----------------------------------------------------------------------------
(* The cleanup worker.                                                     *)

\* The earliest entry that is not in progress, once it is due.
BeginCleanup(i) ==
    /\ cleaner.at = "idle" /\ halt \notin {"leaving", "destroyed"}
    /\ \E n \in DOMAIN pend :
         /\ pend[n].id = i /\ ~pend[n].busy
         /\ pend' = [pend EXCEPT ![n].busy = TRUE]
    /\ cleaner' = [at |-> "removing", id |-> i]
    /\ app' = [app EXCEPT ![i] = IF @ = "open" THEN "closing" ELSE @]
    /\ UNCHANGED <<sess, due, active, working, closer, failed, dropped, halt,
                   calls>>

\* The entry is erased, and those behind it move up.
Settled(i) ==
    pend' = [n \in 1 .. (Len(pend) - 1) |->
               IF n < Place(i) THEN pend[n] ELSE pend[n + 1]]

\* Mutant: a removal that fails is tried again without end.
PatientCleanup ==
    /\ cleaner.at = "removing"
    /\ LET i == cleaner.id IN
       \/ /\ app[i] = "closing" /\ Quiet(i)
          /\ app' = [app EXCEPT ![i] = "gone"] /\ Settled(i)
       \/ /\ MayFail(i) /\ UNCHANGED app
          /\ pend' = [n \in DOMAIN pend |->
                        IF pend[n].id = i THEN [pend[n] EXCEPT !.busy = FALSE]
                        ELSE pend[n]]
    /\ cleaner' = [at |-> "idle", id |-> NoId]
    /\ UNCHANGED <<sess, due, active, working, closer, failed, dropped, halt,
                   calls>>

Exhausted(tries) == tries >= MaximumAttempts

\* One attempt more, or the entry moves to the failed list; the entry that
\* list loses when it is full gets a last attempt that nobody looks at.
FinishCleanup ==
    /\ cleaner.at = "removing"
    /\ LET i == cleaner.id
           tries == 1 + pend[Place(i)].tries
           full == Len(failed) = MaxSessions
       IN
       \/ /\ app[i] = "closing" /\ Quiet(i)
          /\ app' = [app EXCEPT ![i] = "gone"] /\ Settled(i)
          /\ UNCHANGED <<failed, dropped>>
       \/ /\ MayFail(i) /\ (~Exhausted(tries) \/ halt = "leaving")
          /\ pend' = [n \in DOMAIN pend |->
                        IF pend[n].id = i
                        THEN [id |-> i, tries |-> tries, busy |-> FALSE]
                        ELSE pend[n]]
          /\ UNCHANGED <<app, failed, dropped>>
       \/ /\ MayFail(i) /\ Exhausted(tries) /\ halt # "leaving"
          /\ Settled(i)
          /\ failed' = Append(IF full THEN Tail(failed) ELSE failed, i)
          /\ dropped' = dropped \cup (IF full THEN {Head(failed)} ELSE {})
          /\ UNCHANGED app
    /\ cleaner' = [at |-> "idle", id |-> NoId]
    /\ UNCHANGED <<sess, due, active, working, closer, halt, calls>>

-----------------------------------------------------------------------------
(* Stopping the endpoint: the workers are joined, the operation service is *)
(* shut down, and the protocol is destroyed with the server.               *)

WorkersIdle ==
    /\ \A i \in Ids : closer[i] = "none" /\ sess[i] # "opening"
    /\ \A i \in Ids, k \in Keys : active[i][k] \notin Running

StopServer ==
    /\ halt = "up" /\ halt' = "stopping"
    /\ UNCHANGED <<sess, due, active, app, working, closer, pend, failed,
                   cleaner, dropped, calls>>

\* Shutdown stops and joins every operation and clears the records.
ShutdownService ==
    /\ halt = "stopping" /\ WorkersIdle
    /\ halt' = "shut" /\ working' = {}
    /\ app' = [i \in Ids |-> IF app[i] \in {"open", "closing"}
                             THEN "gone" ELSE app[i]]
    /\ UNCHANGED <<sess, due, active, closer, pend, failed, cleaner, dropped,
                   calls>>

\* ~Impl: the two threads are told to stop,
LeaveProtocol ==
    /\ halt = "shut" /\ halt' = "leaving"
    /\ UNCHANGED <<sess, due, active, app, working, closer, pend, failed,
                   cleaner, dropped, calls>>

\* and joined; every session that is left is closed once more.
DestroyProtocol ==
    /\ halt = "leaving" /\ cleaner.at = "idle"
    /\ halt' = "destroyed"
    /\ sess' = [i \in Ids |-> "none"] /\ due' = {}
    /\ pend' = <<>> /\ failed' = <<>>
    /\ UNCHANGED <<active, app, working, closer, cleaner, dropped, calls>>

Handlers(i) ==
    \/ RegisterSession(i) \/ ArmDeadline(i) \/ StopRequests(i)
    \/ FinishDelete(i) \/ \E k \in Keys : FinishCall(i, k)

Threads == (\E i \in Ids : BeginCleanup(i)) \/ FinishCleanup

SessionsNext ==
    \/ \E i \in Ids :
         \/ CreateSession(i) \/ DeadlinePasses(i) \/ MarkInitialized(i)
         \/ ExpireSession(i) \/ BeginDelete(i) \/ OperationEnds(i) \/ Handlers(i)
         \/ \E k \in Keys : BeginRequest(i, k) \/ StartOperation(i, k)
                            \/ StopRequest(i, k)
    \/ Threads
    \/ StopServer \/ ShutdownService \/ LeaveProtocol \/ DestroyProtocol

SessionsSpec == SessionsInit /\ [][SessionsNext]_sessionVars

-----------------------------------------------------------------------------
(* Properties.                                                             *)

\* Sessions, application sessions and cleanup lists are well formed.
SessTypeOK ==
    /\ sess \in [Ids -> Live \cup {"none"}] /\ due \subseteq Ids
    /\ active \in [Ids -> [Keys -> {"none", "active", "stopped"}]]
    /\ app \in [Ids -> {"none", "open", "closing", "gone"}]
    /\ closer \in [Ids -> {"none", "stopping", "removing"}]
    /\ working \subseteq Ids /\ dropped \subseteq Ids /\ calls \in Nat
    /\ pend \in Seq([id : Ids, tries : Nat, busy : BOOLEAN])
    /\ failed \in Seq(Ids)
    /\ cleaner \in [at : {"idle", "removing"}, id : Ids \cup {NoId}]
    /\ halt \in {"up", "stopping", "shut", "leaving", "destroyed"}
    /\ \A n \in DOMAIN pend : pend[n].tries < MaximumAttempts \/ halt = "leaving"
    /\ \A m, n \in DOMAIN pend : pend[m].id = pend[n].id => m = n

\* An application session holds a slot of the operation service: as long as
\* it does, the protocol still knows the session and will try to close it.
NoSessionIsLost ==
    halt # "destroyed" =>
      \A i \in Ids : app[i] \in {"open", "closing"} =>
        \/ sess[i] # "none" \/ Pending(i)
        \/ \E n \in DOMAIN failed : failed[n] = i

\* The lists never overflow, so that the protocol never forgets a session it
\* has not closed: every entry holds one of the service's slots, of which
\* there are no more than the shortest list has entries.
NothingIsDropped == dropped = {}

\* Once DELETE has told a session's requests to stop, none is running that
\* was not told, nor is one registered later.
DeleteStopsEverything ==
    \A i \in Ids : closer[i] = "removing" =>
        \A k \in Keys : active[i][k] # "active"

\* RemoveSession keeps a reference to the session's record while it waits:
\* no two threads are ever in it for the same session.
OneRemoverAtATime ==
    \A i \in Ids : ~(closer[i] = "removing" /\ cleaner.at = "removing"
                     /\ cleaner.id = i)

\* Only a session that is still to be initialized expires, so that an
\* expired session never has a request under way.
ExpiredSessionIsQuiet ==
    \A i \in Ids : i \in due =>
        sess[i] # "awaiting" \/ \A k \in Keys : active[i][k] = "none"

\* A session on the pending list is closed, or given up after its second
\* failed attempt.
PendingIsSettled == \A i \in Ids : Pending(i) ~> ~Pending(i)

\* A session the client never initialized does not keep its slot.
UninitializedExpires ==
    \A i \in Ids : (sess[i] = "awaiting" /\ i \in due) ~> sess[i] # "awaiting"

\* DELETE is answered, also when the session's operation does not end.
DeleteIsAnswered == \A i \in Ids : closer[i] # "none" ~> closer[i] = "none"

\* No session is lost or dropped, a deletion stops everything the session runs,
\* one remover works at a time, and an expired session is quiet.
SessionsCorrect ==
    /\ SessTypeOK
    /\ NoSessionIsLost
    /\ NothingIsDropped
    /\ DeleteStopsEverything
    /\ OneRemoverAtATime
    /\ ExpiredSessionIsQuiet

=============================================================================
