---------------------------- MODULE McpEndpoint ----------------------------
(***************************************************************************)
(* The MCP endpoint and its HTTP server: the credential files a client     *)
(* finds it by, the accept thread, the bounded queue of connections, the   *)
(* workers, and the order in which the application starts and stops them.  *)
(*                                                                         *)
(* McpEndpoint::Start listens, writes the token and then the client        *)
(* configuration; every failure runs StopUnlockedNoThrow.  The application *)
(* drains the endpoint first, shuts its own parts down only if that        *)
(* succeeded, removes the credentials, and the destructor tries once more. *)
(* The process may be killed anywhere and started again.                   *)
(***************************************************************************)
EXTENDS Naturals, Sequences, FiniteSets

CONSTANTS
    Connections,     \* the connections clients open
    Workers,         \* the worker threads
    QueueCapacity,   \* pending_connection_capacity
    MaxEndpointFaults,
    MaxLaunches,     \* processes that run one after another
    MaxReplaced      \* credential files somebody else replaces

ASSUME EndpointBounds ==
    /\ QueueCapacity \in Nat \ {0} /\ MaxEndpointFaults \in Nat
    /\ MaxLaunches \in Nat \ {0} /\ MaxReplaced \in Nat
    /\ IsFiniteSet(Workers) /\ Workers # {}
    /\ {"none", "off", "idle"} \cap Connections = {}

\* A name in the publication directory holds nothing, the file this process
\* published, a file of the same user it did not publish, or something it
\* must not touch (a directory, another user's file).
Credentials == {"config", "token", "temporary"}
FileKinds   == {"none", "own", "old", "unsafe"}

\* The call the main thread is in, and the step of that call.
Calls == {"start", "up", "undo", "drain", "apps", "stop", "destroy", "gone",
          "killed"}
Steps == {"enter", "stale", "listen", "threads", "write token", "name token",
          "check token", "write config", "name config", "check config", "verify",
          "clear", "wake", "join accept", "join workers", "stats",
          "dispatcher", "unpublish config", "unpublish token"}

VARIABLES
    ep,        \* main thread: [call, at], and the endpoint's own flags
    creds,     \* the publication directory
    server,    \* [made, running, listening, stop, wake]: the McpServer
    accepting, \* [at, conn]: the accept thread and the socket it holds
    serving,   \* what each worker does
    conn,      \* where each connection is
    pending,   \* pending_connections
    epFaults, launches, replaced

endpointVars == <<ep, creds, server, accepting, serving, conn, pending,
                  epFaults, launches, replaced>>

threadVars == <<server, accepting, serving, conn, pending>>

EpFault   == epFaults < MaxEndpointFaults /\ epFaults' = epFaults + 1
NoEpFault == UNCHANGED epFaults

NoServer == [made |-> FALSE, running |-> FALSE, listening |-> FALSE,
             stop |-> FALSE, wake |-> FALSE]
NoAccept == [at |-> "off", conn |-> "none"]

FreshEndpoint ==
    [call |-> "start", at |-> "enter", opened |-> FALSE, started |-> FALSE,
     serverStopped |-> FALSE, dispatcherStopped |-> FALSE,
     servicesStopped |-> FALSE, stopped |-> FALSE,
     error |-> FALSE,     \* the failure of the call in progress
     hurt |-> FALSE,      \* a step of stopping or cleaning failed
     reported |-> FALSE]  \* the application will exit with an error

EndpointInit ==
    /\ ep = FreshEndpoint
    /\ creds \in [Credentials -> {"none", "old", "unsafe"}]
    /\ Cardinality({f \in Credentials : creds[f] = "unsafe"}) <= MaxReplaced
    /\ server = NoServer /\ accepting = NoAccept
    /\ serving = [w \in Workers |-> "off"]
    /\ conn = [c \in Connections |-> "away"] /\ pending = <<>>
    /\ epFaults = 0 /\ launches = 1 /\ replaced = 0

Enters(call, at) == ep' = [ep EXCEPT !.call = call, !.at = at]
Proceeds(at)     == ep' = [ep EXCEPT !.at = at]

\* An exception inside Start's try block.
StartThrows == ep' = [ep EXCEPT !.call = "undo", !.at = "enter",
                                !.reported = TRUE, !.error = FALSE]

-----------------------------------------------------------------------------
(* McpEndpoint::Start.                                                     *)

\* The directory is created, opened, made private and identified.  Before
\* the try block nothing is there to undo.
OpenDirectory ==
    /\ ep.call = "start" /\ ep.at = "enter"
    /\ \/ NoEpFault /\ ep' = [ep EXCEPT !.at = "stale", !.opened = TRUE]
       \/ EpFault /\ StartThrows
       \/ EpFault /\ ep' = [ep EXCEPT !.call = "drain", !.reported = TRUE]
    /\ UNCHANGED <<creds, threadVars, launches, replaced>>

\* RemoveStalePublications: one name after the other, in this order.
StaleOrder == <<"config", "token", "temporary">>

RemoveStale ==
    /\ ep.call = "start" /\ ep.at = "stale"
    /\ LET unsafe == {i \in 1..3 : creds[StaleOrder[i]] = "unsafe"}
           Upto(n) == [f \in Credentials |->
                         IF \E i \in 1..n : StaleOrder[i] = f /\ i \notin unsafe
                         THEN "none" ELSE creds[f]]
       IN \/ /\ unsafe = {} /\ creds' = Upto(3) /\ Proceeds("listen")
             /\ NoEpFault
          \/ /\ unsafe # {} /\ NoEpFault /\ StartThrows
             /\ creds' = Upto((CHOOSE i \in unsafe :
                                 \A j \in unsafe : i <= j) - 1)
          \/ /\ EpFault /\ StartThrows
             /\ \E n \in 0..3 : /\ \A i \in unsafe : n < i
                                /\ creds' = Upto(n)
    /\ UNCHANGED <<threadVars, launches, replaced>>

\* The server object, then McpServer::Start up to listen().
Listen ==
    /\ ep.call = "start" /\ ep.at = "listen"
    /\ \/ /\ NoEpFault /\ Proceeds("threads")
          /\ server' = [NoServer EXCEPT !.made = TRUE, !.running = TRUE,
                                        !.listening = TRUE]
       \/ /\ EpFault /\ StartThrows
          /\ \E m \in BOOLEAN : server' = [NoServer EXCEPT !.made = m]
    /\ UNCHANGED <<creds, accepting, serving, conn, pending, launches, replaced>>

\* The workers and the accept thread.  A thread that cannot be created makes
\* McpServer::Start stop what it has started and throw.
StartThreads ==
    /\ ep.call = "start" /\ ep.at = "threads"
    /\ \/ /\ NoEpFault /\ Proceeds("write token")
          /\ serving' = [w \in Workers |-> "idle"]
          /\ accepting' = [NoAccept EXCEPT !.at = "check"]
          /\ UNCHANGED server
       \/ /\ EpFault /\ Proceeds("clear")
          /\ \E made \in SUBSET Workers :
               serving' = [w \in Workers |->
                             IF w \in made THEN "idle" ELSE "off"]
          /\ server' = [server EXCEPT !.running = FALSE, !.stop = TRUE]
          /\ UNCHANGED accepting
    /\ UNCHANGED <<creds, conn, pending, launches, replaced>>

\* WriteCredentialFile: a synced temporary, its rename, and a look at what has
\* the name now. What a failing step has made it removes.
WriteTemporary(at, next) ==
    /\ ep.call = "start" /\ ep.at = at
    /\ \/ /\ NoEpFault /\ Proceeds(next)
          /\ creds' = [creds EXCEPT !["temporary"] = "own"]
       \/ EpFault /\ StartThrows /\ UNCHANGED creds
    /\ UNCHANGED <<threadVars, launches, replaced>>

NameFile(f, at, next) ==
    /\ ep.call = "start" /\ ep.at = at
    /\ \/ /\ NoEpFault /\ Proceeds(next)
          /\ creds' = [creds EXCEPT ![f] = "own", !["temporary"] = "none"]
       \/ /\ EpFault /\ StartThrows
          /\ creds' = [creds EXCEPT !["temporary"] = "none"]
    /\ UNCHANGED <<threadVars, launches, replaced>>

\* The directory is synced and the name must be the file that was renamed; if
\* not, whatever has the name is unlinked, which a directory survives.
CheckFile(f, at, next) ==
    /\ ep.call = "start" /\ ep.at = at
    /\ \/ creds[f] = "own" /\ NoEpFault /\ Proceeds(next) /\ UNCHANGED creds
       \/ /\ IF creds[f] = "own" THEN EpFault ELSE NoEpFault
          /\ StartThrows
          /\ \E left \in {"none"} \cup ({creds[f]} \ {"own"}) :
                creds' = [creds EXCEPT ![f] = left]
    /\ UNCHANGED <<threadVars, launches, replaced>>

WriteToken  == WriteTemporary("write token", "name token")
NameToken   == NameFile("token", "name token", "check token")
CheckToken  == CheckFile("token", "check token", "write config")
WriteConfig == WriteTemporary("write config", "name config")
NameConfig  == NameFile("config", "name config", "check config")
CheckConfig == CheckFile("config", "check config", "verify")

\* The directory must still be the one that was opened.
VerifyDirectory ==
    /\ ep.call = "start" /\ ep.at = "verify"
    /\ \/ /\ NoEpFault
          /\ ep' = [ep EXCEPT !.call = "up", !.at = "enter", !.started = TRUE]
       \/ EpFault /\ StartThrows
    /\ UNCHANGED <<creds, threadVars, launches, replaced>>

-----------------------------------------------------------------------------
(* McpServer: accept thread and workers.                                   *)

\* A client connects: the kernel completes it while the socket listens.
Connect(c) ==
    /\ server.listening /\ conn[c] = "away"
    /\ conn' = [conn EXCEPT ![c] = "backlog"]
    /\ UNCHANGED <<ep, creds, server, accepting, serving, pending, epFaults,
                   launches, replaced>>

AcceptUnchanged == UNCHANGED <<ep, creds, serving, epFaults, launches, replaced>>

AcceptCheck ==
    /\ accepting.at = "check"
    /\ accepting' = [accepting EXCEPT !.at = IF server.running
                                             THEN "accept" ELSE "off"]
    /\ AcceptUnchanged /\ UNCHANGED <<server, conn, pending>>

Accept ==
    /\ accepting.at = "accept"
    /\ \/ \E c \in Connections :
            /\ conn[c] = "backlog"
            /\ conn' = [conn EXCEPT ![c] = "held"]
            /\ accepting' = [at |-> "recheck", conn |-> c]
            /\ UNCHANGED server
       \/ /\ server.wake /\ server' = [server EXCEPT !.wake = FALSE]
          /\ accepting' = [accepting EXCEPT !.at = "recheck"]
          /\ UNCHANGED conn
    /\ AcceptUnchanged /\ UNCHANGED pending

\* The socket is let go unless the server still runs.
AcceptRecheck ==
    /\ accepting.at = "recheck"
    /\ IF server.running
       THEN accepting' = [accepting EXCEPT !.at = "push"] /\ UNCHANGED conn
       ELSE /\ accepting' = NoAccept
            /\ conn' = [c \in Connections |-> IF c = accepting.conn
                                              THEN "closed" ELSE conn[c]]
    /\ AcceptUnchanged /\ UNCHANGED <<server, pending>>

\* Under the queue's mutex, which Stop also takes: queued, or answered 503
\* and closed.
PushConnection ==
    /\ accepting.at = "push"
    /\ IF Len(pending) < QueueCapacity
       THEN /\ conn' = [conn EXCEPT ![accepting.conn] = "queued"]
            /\ pending' = Append(pending, accepting.conn)
            /\ accepting' = [at |-> "check", conn |-> "none"]
       ELSE accepting' = [accepting EXCEPT !.at = "reject"]
            /\ UNCHANGED <<conn, pending>>
    /\ AcceptUnchanged /\ UNCHANGED server

RejectOverload ==
    /\ accepting.at = "reject"
    /\ conn' = [conn EXCEPT ![accepting.conn] = "closed"]
    /\ accepting' = [at |-> "check", conn |-> "none"]
    /\ AcceptUnchanged /\ UNCHANGED <<server, pending>>

WorkerUnchanged == UNCHANGED <<ep, creds, server, accepting, epFaults,
                               launches, replaced>>

WorkerTakes(w) ==
    /\ serving' = [serving EXCEPT ![w] = Head(pending)]
    /\ conn' = [conn EXCEPT ![Head(pending)] = "active"]
    /\ pending' = Tail(pending)

\* PopConnection: a queued connection, or the end once a stop is asked for;
\* a worker already waiting when the stop comes may still get one.
PopConnection(w) ==
    /\ serving[w] = "idle"
    /\ \/ pending # <<>> /\ WorkerTakes(w)
       \/ /\ server.stop /\ serving' = [serving EXCEPT ![w] = "off"]
          /\ UNCHANGED <<conn, pending>>
    /\ WorkerUnchanged

\* ReadRequest within the request timeout: only a complete request read
\* before the stop is handled.
ReadRequest(w) ==
    /\ serving[w] \in Connections /\ conn[serving[w]] = "active"
    /\ \/ /\ server.running
          /\ conn' = [conn EXCEPT ![serving[w]] = "handled"]
          /\ UNCHANGED serving
       \/ /\ conn' = [conn EXCEPT ![serving[w]] = "closed"]
          /\ serving' = [serving EXCEPT ![w] = "idle"]
    /\ WorkerUnchanged /\ UNCHANGED pending

\* The protocol answers, with the worker's stop token, and the response is
\* written or given up.
FinishRequest(w) ==
    /\ serving[w] \in Connections /\ conn[serving[w]] = "handled"
    /\ conn' = [conn EXCEPT ![serving[w]] = "closed"]
    /\ serving' = [serving EXCEPT ![w] = "idle"]
    /\ WorkerUnchanged /\ UNCHANGED pending

-----------------------------------------------------------------------------
(* StopServicesUnlocked and McpServer::StopUnlocked, inside any of the     *)
(* calls that stop the endpoint.                                           *)

Stopping == {"undo", "drain", "stop", "destroy"}

ThreadsAlive == accepting.at # "off" \/ \E w \in Workers : serving[w] # "off"

\* What follows the call that ends with the endpoint's record e.
Returns(e) ==
    LET n == [e EXCEPT !.at = "enter", !.error = FALSE,
                       !.stopped = e.servicesStopped /\ ~e.opened /\ ~e.error,
                       !.hurt = @ \/ e.error,
                       !.reported = @ \/ (e.error /\ e.call \in {"drain", "stop"})]
    IN CASE e.call = "undo"  -> [n EXCEPT !.call = "drain"]
         [] e.call = "drain" -> [n EXCEPT !.call = IF e.error THEN "destroy" ELSE "apps",
                                          !.stopped = e.stopped]
         [] e.call = "stop"  -> [n EXCEPT !.call = "destroy"]
         [] OTHER            -> [n EXCEPT !.call = "gone"]

\* The services part is over: every call but drain goes on to the files.
AfterServices(e) ==
    LET d == [e EXCEPT !.servicesStopped = e.serverStopped /\ e.dispatcherStopped,
                       !.started = FALSE]
    IN IF d.servicesStopped /\ d.opened /\ d.call # "drain"
       THEN [d EXCEPT !.at = "unpublish config"] ELSE Returns(d)

\* Mutant: the services are stopped before the server.
DispatcherFirst ==
    /\ ep.call \in Stopping /\ ep.at = "enter"
    /\ IF ep.servicesStopped
       THEN ep' = IF ep.stopped THEN Returns(ep) ELSE AfterServices(ep)
       ELSE ep' = [ep EXCEPT !.at = "dispatcher"]
    /\ UNCHANGED <<creds, threadVars, epFaults, launches, replaced>>

\* Where a stopping call starts: Stop and the destructor do nothing once
\* stopped, and nothing stops the services twice.
BeginStop ==
    /\ ep.call \in Stopping /\ ep.at = "enter"
    /\ LET live == server.running \/ ThreadsAlive IN
       CASE ep.servicesStopped ->
              /\ ep' = IF ep.stopped THEN Returns(ep) ELSE AfterServices(ep)
              /\ UNCHANGED server
         [] ~ep.servicesStopped /\ server.made /\ ~ep.serverStopped ->
              /\ server' = [server EXCEPT !.running = FALSE, !.stop = @ \/ live]
              /\ Proceeds(IF live THEN "clear" ELSE "stats")
         [] OTHER ->
              /\ ep' = [ep EXCEPT !.serverStopped = TRUE, !.at = "dispatcher"]
              /\ UNCHANGED server
    /\ UNCHANGED <<creds, accepting, serving, conn, pending, epFaults,
                   launches, replaced>>

\* Every queued socket is closed, under the queue's mutex.
ClearQueue ==
    /\ ep.at = "clear"
    /\ conn' = [c \in Connections |->
                  IF conn[c] = "queued" THEN "closed" ELSE conn[c]]
    /\ pending' = <<>>
    /\ Proceeds("wake")
    /\ UNCHANGED <<creds, server, accepting, serving, epFaults, launches, replaced>>

\* The accept thread blocks in accept(): a connection of our own ends that.
WakeAcceptor ==
    /\ ep.at = "wake" /\ Proceeds("join accept")
    /\ server' = [server EXCEPT !.wake = TRUE]
    /\ UNCHANGED <<creds, accepting, serving, conn, pending, epFaults,
                   launches, replaced>>

\* The accept thread has ended: the listener is closed, and with it the
\* connections nobody accepted.
JoinAccept ==
    /\ ep.at = "join accept" /\ accepting.at = "off"
    /\ server' = [server EXCEPT !.listening = FALSE, !.wake = FALSE]
    /\ conn' = [c \in Connections |->
                  IF conn[c] = "backlog" THEN "closed" ELSE conn[c]]
    /\ Proceeds("join workers")
    /\ UNCHANGED <<creds, accepting, serving, pending, epFaults, launches, replaced>>

JoinWorkers ==
    /\ ep.at = "join workers" /\ \A w \in Workers : serving[w] = "off"
    /\ IF ep.call = "start" THEN StartThrows ELSE Proceeds("stats")
    /\ UNCHANGED <<creds, threadVars, epFaults, launches, replaced>>

Drained == pending = <<>> /\ \A c \in Connections : conn[c] \notin {"active", "handled"}

\* "MCP server did not drain every connection", or the server has stopped.
CheckDrained ==
    /\ ep.at = "stats"
    /\ ep' = [ep EXCEPT !.serverStopped = Drained, !.error = ~Drained,
                        !.at = "dispatcher"]
    /\ UNCHANGED <<creds, threadVars, epFaults, launches, replaced>>

\* The dispatcher's Shutdown, which OperationService models, or its failure;
\* then the server object is destroyed if it stopped.
StopDispatcher ==
    /\ ep.at = "dispatcher"
    /\ \/ NoEpFault /\ ep' = AfterServices([ep EXCEPT !.dispatcherStopped = TRUE])
       \/ EpFault /\ ~ep.dispatcherStopped
          /\ ep' = AfterServices([ep EXCEPT !.error = TRUE])
    /\ server' = IF ep.serverStopped THEN NoServer ELSE server
    /\ UNCHANGED <<creds, accepting, serving, conn, pending, launches, replaced>>

-----------------------------------------------------------------------------
(* RemovePublicationsUnlocked and the application around the endpoint.     *)

\* RemoveAndVerifyFile: <<what is left, whether it throws>>.
Removal(f, kind) ==
    CASE kind = "none" -> {<<"none", FALSE>>}
      [] kind = "own"  -> {<<"none", FALSE>>, <<"own", TRUE>>}
      [] OTHER         -> {<<kind, TRUE>>}

Unpublish(f) ==
    \E r \in Removal(f, creds[f]) :
      /\ creds' = [creds EXCEPT ![f] = r[1]]
      /\ IF r[2] /\ creds[f] = "own" THEN EpFault ELSE NoEpFault
      /\ ep' = IF f = "config"
               THEN [ep EXCEPT !.error = @ \/ r[2], !.at = "unpublish token"]
               ELSE Returns([ep EXCEPT !.error = @ \/ r[2],
                                       !.opened = ep.error \/ r[2]])

UnpublishConfig ==
    /\ ep.at = "unpublish config" /\ Unpublish("config")
    /\ UNCHANGED <<threadVars, launches, replaced>>

\* The directory is closed, and checked once more, only if both files went.
UnpublishToken ==
    /\ ep.at = "unpublish token"
    /\ \/ Unpublish("token")
       \/ /\ EpFault /\ ~ep.error /\ creds["token"] \in {"none", "own"}
          /\ creds' = [creds EXCEPT !["token"] = "none"]
          /\ ep' = Returns([ep EXCEPT !.error = TRUE])
    /\ UNCHANGED <<threadVars, launches, replaced>>

\* A signal, the end of the run or a failure of the application.
LeaveApplication ==
    /\ ep.call = "up"
    /\ \E failed \in BOOLEAN :
         ep' = [ep EXCEPT !.call = "drain", !.reported = failed]
    /\ UNCHANGED <<creds, threadVars, epFaults, launches, replaced>>

\* The host application and the run controller are shut down: only behind
\* an endpoint that has drained.
ShutdownApplication ==
    /\ ep.call = "apps" /\ Enters("stop", "enter")
    /\ UNCHANGED <<creds, threadVars, epFaults, launches, replaced>>

\* The endpoint object goes, and with it a server that would not stop.
Vanish ==
    /\ server' = NoServer /\ accepting' = NoAccept
    /\ serving' = [w \in Workers |-> "off"] /\ pending' = <<>>
    /\ conn' = [c \in Connections |->
                  IF conn[c] = "away" THEN "away" ELSE "closed"]

ProcessEnds ==
    /\ ep.call = "gone" /\ server.made /\ Vanish
    /\ UNCHANGED <<ep, creds, epFaults, launches, replaced>>

Killed ==
    /\ ep.call \notin {"gone", "killed"} /\ Vanish
    /\ ep' = [FreshEndpoint EXCEPT !.call = "killed"]
    /\ UNCHANGED <<creds, epFaults, launches, replaced>>

Relaunch ==
    /\ ep.call \in {"gone", "killed"} /\ ~server.made
    /\ launches < MaxLaunches /\ launches' = launches + 1
    /\ ep' = FreshEndpoint /\ epFaults' = 0
    /\ creds' = [f \in Credentials |->
                   IF creds[f] = "own" THEN "old" ELSE creds[f]]
    /\ UNCHANGED <<threadVars, replaced>>

\* Somebody else replaces a published file.
ReplaceFile ==
    /\ replaced < MaxReplaced /\ replaced' = replaced + 1
    /\ \E f \in {"config", "token"}, kind \in {"old", "unsafe"} :
         creds[f] = "own" /\ creds' = [creds EXCEPT ![f] = kind]
    /\ UNCHANGED <<ep, threadVars, epFaults, launches>>

AcceptThread == \/ AcceptCheck \/ Accept \/ AcceptRecheck
                \/ PushConnection \/ RejectOverload

WorkerThread(w) == PopConnection(w) \/ ReadRequest(w) \/ FinishRequest(w)

StartSteps == \/ OpenDirectory \/ RemoveStale \/ Listen \/ StartThreads
              \/ WriteToken \/ NameToken \/ CheckToken
              \/ WriteConfig \/ NameConfig \/ CheckConfig \/ VerifyDirectory

StopSteps == \/ BeginStop \/ ClearQueue \/ WakeAcceptor \/ JoinAccept
             \/ JoinWorkers \/ CheckDrained \/ StopDispatcher
             \/ UnpublishConfig \/ UnpublishToken \/ ShutdownApplication
             \/ ProcessEnds

EndpointNext ==
    \/ StartSteps \/ StopSteps \/ AcceptThread
    \/ \E w \in Workers : WorkerThread(w)
    \/ \E c \in Connections : Connect(c)
    \/ LeaveApplication \/ Killed \/ Relaunch \/ ReplaceFile

EndpointSpec == EndpointInit /\ [][EndpointNext]_endpointVars

-----------------------------------------------------------------------------
(* Properties.                                                             *)

\* The endpoint's state is well formed, and the queue never holds more than
\* pending_connection_capacity sockets.
EpTypeOK ==
    /\ ep \in [call : Calls, at : Steps, opened : BOOLEAN, started : BOOLEAN,
               serverStopped : BOOLEAN, dispatcherStopped : BOOLEAN,
               servicesStopped : BOOLEAN, stopped : BOOLEAN,
               error : BOOLEAN, hurt : BOOLEAN, reported : BOOLEAN]
    /\ creds \in [Credentials -> FileKinds]
    /\ server \in [made : BOOLEAN, running : BOOLEAN, listening : BOOLEAN,
                   stop : BOOLEAN, wake : BOOLEAN]
    /\ accepting \in [at : {"off", "check", "accept", "recheck", "push", "reject"},
                      conn : Connections \cup {"none"}]
    /\ {epFaults, launches, replaced} \subseteq Nat
    /\ serving \in [Workers -> {"off", "idle"} \cup Connections]
    /\ conn \in [Connections -> {"away", "backlog", "held", "queued", "active",
                                  "handled", "closed"}]
    /\ pending \in Seq(Connections) /\ Len(pending) <= QueueCapacity

\* A process that ends by itself leaves its bearer token and client
\* configuration behind only if a step of stopping failed, and then it exits
\* with an error (StopUnlockedNoThrow, Stop and the destructor together).
LeftCredentialIsExplained ==
    ep.call = "gone" /\ (\E f \in Credentials : creds[f] = "own") =>
        ep.hurt /\ ep.reported

\* Start is refused only because a call failed, because something that is not
\* this user's file bears a name it needs or because somebody took a name from
\* it: what a killed process left never keeps the next one from starting.
StartRefusedOnlyByUnsafe ==
    ep.call = "undo" /\ ep.at = "enter" =>
        epFaults > 0 \/ replaced > 0 \/ \E f \in Credentials : creds[f] = "unsafe"

\* No request is being handled once the dispatcher is shut down, nor while
\* the application behind it is shut down: the workers were joined first.
NoRequestBehindTheDispatcher ==
    (ep.dispatcherStopped \/ ep.call \in {"apps", "gone"}) =>
        \A c \in Connections : conn[c] # "handled"

\* When McpServer::Stop returns every thread has ended and at most one
\* connection, accepted before the stop and queued after the queue was
\* cleared, is left in the queue.
StopLeavesAtMostOne ==
    ep.at = "stats" => ~ThreadsAlive /\ ~server.listening /\ Len(pending) <= 1

\* A file this process did not publish is removed by Start alone: an old one by
\* the stale publication cleanup, and one that took the name right after the
\* rename by WriteCredentialFile. The removal at the end checks the identity.
ReplacedFileIsKept ==
    [][\A f \in Credentials :
         creds[f] \in {"old", "unsafe"} /\ creds'[f] = "none" =>
             /\ ep.call = "start"
             /\ \/ ep.at = "stale" /\ creds[f] = "old"
                \/ ep.at \in {"check token", "check config"}]_endpointVars

\* Stopping ends: no thread waits for a thread that waits for it.
StopEnds == ep.call \in Stopping ~> ep.call \in {"gone", "killed"}

\* A connection the server accepted is answered or closed, even when it is
\* accepted while the server stops.
ConnectionEnds ==
    \A c \in Connections :
        conn[c] \in {"held", "queued", "active", "handled"} ~> conn[c] = "closed"

\* A credential left behind has its reason, a start is refused only by an
\* unsafe file, no request reaches a stopped dispatcher, and a stop leaves at
\* most one connection.
EndpointCorrect ==
    /\ EpTypeOK
    /\ LeftCredentialIsExplained
    /\ StartRefusedOnlyByUnsafe
    /\ NoRequestBehindTheDispatcher
    /\ StopLeavesAtMostOne

=============================================================================
