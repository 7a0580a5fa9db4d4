--------------------------- MODULE EndpointProofs ---------------------------
(***************************************************************************)
(* Proofs about McpEndpoint for any connections, workers, capacity and     *)
(* bounds: a credential left behind has its reason, a start is refused only *)
(* by a failure or an unsafe file, no request reaches a stopped            *)
(* dispatcher, and a stop leaves at most one connection.                   *)
(***************************************************************************)
EXTENDS McpEndpoint, TLAPS

-----------------------------------------------------------------------------
(* The inductive invariant.                                                *)

Clearing == {"clear", "wake", "join accept"}
Joining  == Clearing \cup {"join workers"}
Ending   == {"stats", "dispatcher", "unpublish config", "unpublish token"}
Idle     == \A w \in Workers : serving[w] = "off"

\* No part of the endpoint has been stopped in this process.
Unstopped ==
    /\ ~ep.serverStopped /\ ~ep.dispatcherStopped
    /\ ~ep.servicesStopped /\ ~ep.stopped

\* Which step belongs to which call of the main thread.
Calling ==
    /\ ep.call \in {"up", "apps", "gone", "killed"} => ep.at = "enter"
    /\ ep.at \in Ending => ep.call \in Stopping
    /\ ep.at \in Joining => ep.call \in Stopping \cup {"start"}
    /\ ep.call \in {"start", "up"} => Unstopped
    /\ ep.call = "start" /\ ep.at # "enter" => ep.opened
    /\ ep.call = "start" /\ ep.at \in Joining => epFaults > 0

\* When the server is running, and what goes with it.
Running ==
    /\ server.running =>
          /\ server.made /\ ~server.wake /\ Unstopped
          /\ ep.at \notin Joining \cup Ending
          /\ \/ ep.call \in {"start", "up"}
             \/ ep.call \in {"undo", "drain"} /\ ep.at = "enter"
    /\ ep.call = "start" /\ ep.at = "threads" => server.running
    /\ ep.call = "start" /\ ep.at \in {"enter", "stale", "listen"} =>
          ~server.running

\* The accept thread has a socket when it needs one; it wakes up without one
\* only when the server has been told to stop.
Acceptor ==
    /\ accepting.at \in {"push", "reject"} => accepting.conn # "none"
    /\ accepting.at = "recheck" /\ accepting.conn = "none" => ~server.running

\* A server that does not run has no threads, except while they are joined.
Ended ==
    /\ ~server.running /\ ep.at \notin Clearing =>
          accepting.at = "off" /\ ~server.listening
    /\ ~server.running /\ ep.at \notin Joining => Idle
    /\ ep.call = "start" /\ ep.at = "threads" => accepting.at = "off" /\ Idle
    /\ ep.at = "join workers" => accepting.at = "off" /\ ~server.listening
    /\ ep.dispatcherStopped => ~server.running /\ Idle

\* After the queue was cleared the accept thread adds at most one connection.
Leftover ==
    ~server.running /\ ep.at # "clear" =>
        Len(pending) <= 1 /\ (accepting.at = "push" => pending = <<>>)

\* A connection whose request is read or handled has a worker.
Served ==
    \A c \in Connections : conn[c] \in {"active", "handled"} =>
        \E w \in Workers : serving[w] = c

\* What the flags of a stop say of one another, and what follows a failure.
Stops ==
    /\ ep.at = "dispatcher" => ep.serverStopped \/ ep.error
    /\ ep.servicesStopped => ep.serverStopped /\ ep.dispatcherStopped
    /\ ep.stopped => ~ep.opened
    /\ ep.at \in Joining \cup {"stats", "dispatcher"} => ~ep.servicesStopped
    /\ ep.at \in {"unpublish config", "unpublish token"} =>
          ep.opened /\ ep.call # "drain"
    /\ ep.call \in {"destroy", "gone"} /\ ep.opened => ep.reported
    /\ ep.call = "gone" /\ ep.opened => ep.hurt

\* A published file belongs to an open publication directory, and a name is
\* free when Start is about to take it.
Files ==
    /\ \A f \in {"config", "token"} :
          creds[f] = "own" => ep.opened \/ ep.call = "killed"
    /\ creds["temporary"] = "own" =>
          \/ ep.call = "killed"
          \/ ep.call = "start" /\ ep.at \in {"name token", "name config"}
    /\ ep.at = "unpublish token" /\ ~ep.error => creds["config"] # "own"
    /\ ep.call = "start" =>
          /\ ep.at \in {"listen", "threads", "write token", "name token"} =>
                creds["token"] = "none"
          /\ ep.at \in {"listen", "threads", "write token", "name token",
                        "check token", "write config", "name config"} =>
                creds["config"] = "none"
          /\ ep.at \in {"name token", "name config"} =>
                creds["temporary"] = "own"
          /\ ep.at = "check token" => creds["token"] = "own" \/ replaced > 0
          /\ ep.at = "check config" => creds["config"] = "own" \/ replaced > 0

EndpointInv ==
    /\ EpTypeOK /\ Calling /\ Running /\ Acceptor /\ Ended /\ Leftover
    /\ Served /\ Stops /\ Files /\ StartRefusedOnlyByUnsafe

-----------------------------------------------------------------------------
(* The record of the endpoint.                                             *)

EpType == [call : Calls, at : Steps, opened : BOOLEAN, started : BOOLEAN,
           serverStopped : BOOLEAN, dispatcherStopped : BOOLEAN,
           servicesStopped : BOOLEAN, stopped : BOOLEAN,
           error : BOOLEAN, hurt : BOOLEAN, reported : BOOLEAN]

\* What the parts of the endpoint have been told, and the directory.
SameParts(e, f) ==
    /\ f.opened <=> e.opened
    /\ f.serverStopped <=> e.serverStopped
    /\ f.dispatcherStopped <=> e.dispatcherStopped

\* The step changes; the call and the flags do not.
At(e, f, at) ==
    /\ f.at = at /\ f.call = e.call /\ SameParts(e, f)
    /\ f.servicesStopped <=> e.servicesStopped
    /\ (f.stopped <=> e.stopped) /\ (f.error <=> e.error)
    /\ (f.hurt <=> e.hurt) /\ (f.reported <=> e.reported)

\* Start fails: the call changes to the one that undoes it.
Thrown(e, f) ==
    /\ f.call = "undo" /\ f.at = "enter" /\ SameParts(e, f)
    /\ f.servicesStopped <=> e.servicesStopped
    /\ (f.stopped <=> e.stopped) /\ ~f.error
    /\ (f.hurt <=> e.hurt) /\ f.reported

\* A stopping call ends with a failure or without.
Back(e, f) ==
    /\ f.at = "enter" /\ ~f.error /\ SameParts(e, f)
    /\ f.servicesStopped <=> e.servicesStopped
    /\ e.call = "undo" => f.call = "drain"
    /\ e.call = "drain" => f.call = IF e.error THEN "destroy" ELSE "apps"
    /\ e.call = "stop" => f.call = "destroy"
    /\ e.call = "destroy" => f.call = "gone"
    /\ e.call = "drain" => (f.stopped <=> e.stopped)
    /\ e.call # "drain" =>
          (f.stopped <=> e.servicesStopped /\ ~e.opened /\ ~e.error)
    /\ f.hurt <=> e.hurt \/ e.error
    /\ f.reported <=> e.reported \/ (e.error /\ e.call \in {"drain", "stop"})

\* The services are over: the files are next, or the call ends.
Over(e, f) ==
    /\ SameParts(e, f)
    /\ f.servicesStopped <=> e.serverStopped /\ e.dispatcherStopped
    /\ f.servicesStopped /\ e.opened /\ e.call # "drain" =>
          /\ f.at = "unpublish config" /\ f.call = e.call
          /\ (f.stopped <=> e.stopped) /\ (f.error <=> e.error)
          /\ (f.hurt <=> e.hurt) /\ (f.reported <=> e.reported)
    /\ ~(f.servicesStopped /\ e.opened /\ e.call # "drain") =>
          \E d \in EpType :
              /\ d.call = e.call /\ SameParts(e, d)
              /\ d.servicesStopped <=> f.servicesStopped
              /\ (d.stopped <=> e.stopped) /\ (d.error <=> e.error)
              /\ (d.hurt <=> e.hurt) /\ (d.reported <=> e.reported)
              /\ Back(d, f)

\* The type of the record, as EpTypeOK has it.
LEMMA EpRecord ==
  ASSUME EpTypeOK
  PROVE  ep \in EpType
BY DEF EpTypeOK, EpType

\* Proceeds changes the step.
LEMMA ProceedsRecord ==
  ASSUME EpTypeOK, NEW at \in Steps, Proceeds(at)
  PROVE  ep' \in EpType /\ At(ep, ep', at)
<1>1. ep \in EpType
  BY EpRecord
<1>2. ep' \in EpType
  BY <1>1, Zenon DEF EpType, Proceeds
<1>3. At(ep, ep', at)
  BY <1>1 DEF EpType, Proceeds, At, SameParts
<1> QED
  BY <1>2, <1>3

\* StartThrows is what Thrown says.
LEMMA ThrowRecord ==
  ASSUME EpTypeOK, StartThrows
  PROVE  ep' \in EpType /\ Thrown(ep, ep')
<1>1. ep \in EpType
  BY EpRecord
<1>2. ep' \in EpType
  BY <1>1, Zenon DEF EpType, StartThrows, Calls, Steps
<1>3. Thrown(ep, ep')
  BY <1>1 DEF EpType, StartThrows, Thrown, SameParts
<1> QED
  BY <1>2, <1>3

\* Another call, and nothing else.
LEMMA CallRecord ==
  ASSUME NEW n \in EpType, NEW call \in Calls, NEW m,
         m = [n EXCEPT !.call = call]
  PROVE  /\ m \in EpType /\ m.call = call /\ m.at = n.at
         /\ m.error = n.error /\ m.stopped = n.stopped /\ m.hurt = n.hurt
         /\ m.reported = n.reported /\ m.opened = n.opened
         /\ m.serverStopped = n.serverStopped
         /\ m.dispatcherStopped = n.dispatcherStopped
         /\ m.servicesStopped = n.servicesStopped
<1>1. m \in EpType
  BY Zenon DEF EpType
<1> QED
  BY <1>1 DEF EpType

\* Returns is what Back says.
LEMMA ReturnsRecord ==
  ASSUME NEW e \in EpType, e.call \in Stopping
  PROVE  Returns(e) \in EpType /\ Back(e, Returns(e))
<1> DEFINE s == e.servicesStopped /\ ~e.opened /\ ~e.error
           h == e.hurt \/ e.error
           r == e.reported \/ (e.error /\ e.call \in {"drain", "stop"})
           n == [e EXCEPT !.at = "enter", !.error = FALSE, !.stopped = s,
                          !.hurt = h, !.reported = r]
           call == CASE e.call = "undo" -> "drain"
                     [] e.call = "drain" -> IF e.error THEN "destroy"
                                            ELSE "apps"
                     [] e.call = "stop" -> "destroy"
                     [] OTHER -> "gone"
           m == [n EXCEPT !.call = call]
<1>1. s \in BOOLEAN /\ h \in BOOLEAN /\ r \in BOOLEAN
  BY Zenon DEF EpType
<1>2. call \in Calls
  BY DEF Calls, Stopping
<1> HIDE DEF s, h, r, call
<1>3. /\ m \in EpType /\ m.call = call /\ m.at = "enter" /\ m.error = FALSE
      /\ m.stopped = s /\ m.hurt = h /\ m.reported = r
      /\ m.servicesStopped = e.servicesStopped /\ SameParts(e, m)
  <2>1. n \in EpType
    BY <1>1, Zenon DEF EpType, Steps
  <2>2. /\ n.at = "enter" /\ n.error = FALSE /\ n.stopped = s /\ n.hurt = h
        /\ n.reported = r /\ n.opened = e.opened
        /\ n.serverStopped = e.serverStopped
        /\ n.dispatcherStopped = e.dispatcherStopped
        /\ n.servicesStopped = e.servicesStopped
    BY <1>1, Zenon DEF EpType
  <2> HIDE DEF n
  <2>3. /\ m \in EpType /\ m.call = call /\ m.at = n.at
        /\ m.error = n.error /\ m.stopped = n.stopped /\ m.hurt = n.hurt
        /\ m.reported = n.reported /\ m.opened = n.opened
        /\ m.serverStopped = n.serverStopped
        /\ m.dispatcherStopped = n.dispatcherStopped
        /\ m.servicesStopped = n.servicesStopped
    BY <1>2, <2>1, CallRecord
  <2> HIDE DEF m
  <2>4. SameParts(e, m)
    BY <2>2, <2>3, Zenon DEF SameParts
  <2> QED
    BY <2>2, <2>3, <2>4, Zenon
<1>4. CASE e.call = "drain"
  <2> DEFINE d == [n EXCEPT !.call = call, !.stopped = e.stopped]
  <2>1. n \in EpType
    BY <1>1, Zenon DEF EpType, Steps
  <2>2. d = [m EXCEPT !.stopped = e.stopped]
    BY <2>1, Zenon DEF EpType
  <2> HIDE DEF n
  <2>3. Returns(e) = d
    BY <1>4 DEF Returns, n, s, h, r, call
  <2> HIDE DEF m
  <2>4. d \in EpType
    BY <1>3, <2>2, Zenon DEF EpType
  <2>5. /\ d.call = m.call /\ d.at = m.at /\ d.error = m.error
        /\ d.stopped = e.stopped /\ d.hurt = m.hurt
        /\ d.reported = m.reported /\ d.opened = m.opened
        /\ d.serverStopped = m.serverStopped
        /\ d.dispatcherStopped = m.dispatcherStopped
        /\ d.servicesStopped = m.servicesStopped
    BY <1>3, <2>2, Zenon DEF EpType
  <2> HIDE DEF d
  <2>6. d.call = IF e.error THEN "destroy" ELSE "apps"
    BY <1>3, <1>4, <2>5 DEF call
  <2>7. (d.hurt <=> h) /\ (d.reported <=> r) /\ (d.stopped <=> e.stopped)
    BY <1>3, <2>5, Zenon
  <2>8. SameParts(e, d) /\ d.at = "enter" /\ ~d.error
        /\ (d.servicesStopped <=> e.servicesStopped)
    BY <1>3, <2>5, Zenon DEF SameParts
  <2> QED
    BY <1>4, <2>3, <2>4, <2>6, <2>7, <2>8 DEF Back, h, r
<1>5. CASE e.call # "drain"
  <2>1. Returns(e) = m
    BY <1>5 DEF Returns, n, s, h, r, call
  <2> HIDE DEF m
  <2>2. /\ e.call = "undo" => m.call = "drain"
        /\ e.call = "stop" => m.call = "destroy"
        /\ e.call = "destroy" => m.call = "gone"
    BY <1>3 DEF call
  <2>3. (m.hurt <=> h) /\ (m.reported <=> r) /\ (m.stopped <=> s)
        /\ ~m.error /\ (m.servicesStopped <=> e.servicesStopped)
    BY <1>3, Zenon
  <2> QED
    BY <1>3, <1>5, <2>1, <2>2, <2>3 DEF Back, h, r, s
<1> QED
  BY <1>4, <1>5

\* AfterServices is what Over says.
LEMMA OverRecord ==
  ASSUME NEW e \in EpType, e.call \in Stopping
  PROVE  AfterServices(e) \in EpType /\ Over(e, AfterServices(e))
<1> DEFINE b == e.serverStopped /\ e.dispatcherStopped
           d == [e EXCEPT !.servicesStopped = b, !.started = FALSE]
           u == [d EXCEPT !.at = "unpublish config"]
<1>1. b \in BOOLEAN
  BY Zenon DEF EpType
<1> HIDE DEF b
<1>2. d \in EpType
  BY <1>1, Zenon DEF EpType
<1>3. /\ d.call = e.call /\ d.servicesStopped = b /\ d.opened = e.opened
      /\ d.serverStopped = e.serverStopped
      /\ d.dispatcherStopped = e.dispatcherStopped
      /\ d.stopped = e.stopped /\ d.error = e.error /\ d.hurt = e.hurt
      /\ d.reported = e.reported
  BY Zenon DEF EpType
<1>4. AfterServices(e) =
        IF d.servicesStopped /\ d.opened /\ d.call # "drain" THEN u
        ELSE Returns(d)
  BY DEF AfterServices, b
<1> HIDE DEF d
<1>5. /\ d.servicesStopped <=> e.serverStopped /\ e.dispatcherStopped
      /\ SameParts(e, d)
      /\ (d.stopped <=> e.stopped) /\ (d.error <=> e.error)
      /\ (d.hurt <=> e.hurt) /\ (d.reported <=> e.reported)
  BY <1>3, Zenon DEF b, SameParts
<1>6. CASE d.servicesStopped /\ d.opened /\ d.call # "drain"
  <2>1. u \in EpType
    BY <1>2, Zenon DEF EpType, Steps
  <2>2. /\ u.at = "unpublish config" /\ u.call = d.call
        /\ u.opened = d.opened /\ u.serverStopped = d.serverStopped
        /\ u.dispatcherStopped = d.dispatcherStopped
        /\ u.servicesStopped = d.servicesStopped /\ u.stopped = d.stopped
        /\ u.error = d.error /\ u.hurt = d.hurt /\ u.reported = d.reported
    BY <1>2, Zenon DEF EpType
  <2>3. AfterServices(e) = u
    BY <1>4, <1>6
  <2> HIDE DEF u
  <2>4. /\ SameParts(e, u) /\ u.at = "unpublish config" /\ u.call = e.call
        /\ u.servicesStopped <=> e.serverStopped /\ e.dispatcherStopped
        /\ (u.stopped <=> e.stopped) /\ (u.error <=> e.error)
        /\ (u.hurt <=> e.hurt) /\ (u.reported <=> e.reported)
    BY <1>3, <1>5, <2>2, Zenon DEF SameParts
  <2>5. u.servicesStopped /\ e.opened /\ e.call # "drain"
    BY <1>3, <1>6, <2>2, Zenon
  <2> QED
    BY <2>1, <2>3, <2>4, <2>5, Zenon DEF Over
<1>7. CASE ~(d.servicesStopped /\ d.opened /\ d.call # "drain")
  <2> DEFINE f == Returns(d)
  <2>1. AfterServices(e) = f
    BY <1>4, <1>7
  <2>2. f \in EpType /\ Back(d, f)
    BY <1>2, <1>3, ReturnsRecord
  <2> HIDE DEF f
  <2>3. SameParts(d, f) /\ (f.servicesStopped <=> d.servicesStopped)
    BY <2>2, Zenon DEF Back
  <2>4. SameParts(e, f)
    BY <1>5, <2>3, Zenon DEF SameParts
  <2>5. ~(f.servicesStopped /\ e.opened /\ e.call # "drain")
    BY <1>3, <1>7, <2>3, Zenon
  <2>6. f.servicesStopped <=> e.serverStopped /\ e.dispatcherStopped
    BY <1>5, <2>3, Zenon
  <2>7. \E x \in EpType :
              /\ x.call = e.call /\ SameParts(e, x)
              /\ x.servicesStopped <=> f.servicesStopped
              /\ (x.stopped <=> e.stopped) /\ (x.error <=> e.error)
              /\ (x.hurt <=> e.hurt) /\ (x.reported <=> e.reported)
              /\ Back(x, f)
    BY <1>2, <1>3, <1>5, <2>2, <2>3, Zenon
  <2> QED
    BY <2>1, <2>2, <2>4, <2>5, <2>6, <2>7, Zenon DEF Over
<1> QED
  BY <1>6, <1>7

-----------------------------------------------------------------------------
(* What a step leaves alone.                                               *)

ServerType == [made : BOOLEAN, running : BOOLEAN, listening : BOOLEAN,
               stop : BOOLEAN, wake : BOOLEAN]
AcceptType == [at : {"off", "check", "accept", "recheck", "push", "reject"},
               conn : Connections \cup {"none"}]
ConnType   == [Connections -> {"away", "backlog", "held", "queued", "active",
                               "handled", "closed"}]
ServeType  == [Workers -> {"off", "idle"} \cup Connections]

\* The flags a failure of Start does not touch.
SameRest(e, f) ==
    /\ f.serverStopped <=> e.serverStopped
    /\ f.dispatcherStopped <=> e.dispatcherStopped
    /\ f.servicesStopped <=> e.servicesStopped
    /\ (f.stopped <=> e.stopped) /\ (f.error <=> e.error)
    /\ f.hurt <=> e.hurt

\* The types, from those of the parts.
LEMMA TypesFromParts ==
  ASSUME ep' \in EpType, creds' \in [Credentials -> FileKinds],
         server' \in ServerType, accepting' \in AcceptType,
         serving' \in ServeType, conn' \in ConnType,
         pending' \in Seq(Connections), Len(pending') <= QueueCapacity,
         epFaults' \in Nat, launches' \in Nat, replaced' \in Nat
  PROVE  EpTypeOK'
BY DEF EpTypeOK, EpType, ServerType, AcceptType, ServeType, ConnType

\* The types of the parts.
LEMMA PartsOfTypes ==
  ASSUME EpTypeOK
  PROVE  /\ ep \in EpType /\ creds \in [Credentials -> FileKinds]
         /\ server \in ServerType /\ accepting \in AcceptType
         /\ serving \in ServeType /\ conn \in ConnType
         /\ pending \in Seq(Connections) /\ Len(pending) <= QueueCapacity
         /\ epFaults \in Nat /\ launches \in Nat /\ replaced \in Nat
BY DEF EpTypeOK, EpType, ServerType, AcceptType, ServeType, ConnType

\* A fault is counted.
LEMMA FaultCount ==
  ASSUME EpTypeOK, NoEpFault \/ EpFault
  PROVE  epFaults' \in Nat /\ epFaults' >= epFaults
         /\ (EpFault => epFaults' > 0)
BY PartsOfTypes DEF NoEpFault, EpFault

\* A step of the main thread that changes its record and the files.
LEMMA MainTypes ==
  ASSUME EpTypeOK, ep' \in EpType, creds' \in [Credentials -> FileKinds],
         NoEpFault \/ EpFault, UNCHANGED <<threadVars, launches, replaced>>
  PROVE  EpTypeOK'
BY TypesFromParts, PartsOfTypes, FaultCount DEF threadVars

\* A step of the accept thread, a worker or a client.
LEMMA ThreadTypes ==
  ASSUME EpTypeOK, UNCHANGED <<ep, creds, epFaults, launches, replaced>>,
         server' \in ServerType, accepting' \in AcceptType,
         serving' \in ServeType, conn' \in ConnType,
         pending' \in Seq(Connections), Len(pending') <= QueueCapacity
  PROVE  EpTypeOK'
BY TypesFromParts, PartsOfTypes

\* Such a step keeps what is said of the main thread and the files.
LEMMA ThreadFrame ==
  ASSUME EndpointInv, UNCHANGED <<ep, creds, epFaults, replaced>>
  PROVE  Calling' /\ Stops' /\ Files' /\ StartRefusedOnlyByUnsafe'
<1>1. Calling'
  BY DEF EndpointInv, Calling, Unstopped
<1>2. Stops'
  BY DEF EndpointInv, Stops
<1>3. Files'
  BY DEF EndpointInv, Files
<1>4. StartRefusedOnlyByUnsafe'
  BY DEF EndpointInv, StartRefusedOnlyByUnsafe
<1> QED
  BY <1>1, <1>2, <1>3, <1>4

\* A step that leaves the threads alone keeps what is said of them alone.
LEMMA MainFrame ==
  ASSUME EndpointInv, UNCHANGED <<accepting, serving, conn>>,
         server'.running => server.running
  PROVE  Acceptor' /\ Served'
BY DEF EndpointInv, Acceptor, Served

-----------------------------------------------------------------------------
(* What the steps of the main thread do to the record is expanded below.   *)
USE DEF Clearing, Joining, Ending, Stopping, Unstopped, SameParts, SameRest

-----------------------------------------------------------------------------
(* Start.                                                                  *)

\* The directory is opened, or Start fails before or inside its try block.
LEMMA OpenDirectoryKeeps ==
  ASSUME EndpointInv, OpenDirectory
  PROVE  EndpointInv'
<1>1. /\ EpTypeOK /\ Calling /\ Running /\ Acceptor /\ Ended /\ Leftover
      /\ Served /\ Stops /\ Files /\ StartRefusedOnlyByUnsafe
  BY DEF EndpointInv
<1>2. /\ ep.call = "start" /\ ep.at = "enter" /\ creds' = creds
      /\ UNCHANGED <<server, accepting, serving, conn, pending>>
      /\ replaced' = replaced
  BY DEF OpenDirectory, threadVars
<1>3. /\ ep' \in EpType
      /\ \/ /\ ep'.call = "start" /\ ep'.at = "stale" /\ ep'.opened
            /\ SameRest(ep, ep') /\ (ep'.reported <=> ep.reported)
         \/ EpFault /\ Thrown(ep, ep')
         \/ /\ EpFault /\ ep'.call = "drain" /\ ep'.at = "enter"
            /\ (ep'.opened <=> ep.opened) /\ ep'.reported
            /\ SameRest(ep, ep')
  <2>1. ep \in EpType
    BY <1>1, EpRecord
  <2>2. CASE ep' = [ep EXCEPT !.at = "stale", !.opened = TRUE]
    <3>1. ep' \in EpType
      BY <2>1, <2>2, Zenon DEF EpType, Steps
    <3> QED
      BY <1>2, <2>1, <2>2, <3>1 DEF EpType
  <2>3. CASE EpFault /\ StartThrows
    BY <1>1, <2>3, ThrowRecord
  <2>4. CASE EpFault /\ ep' = [ep EXCEPT !.call = "drain", !.reported = TRUE]
    <3>1. ep' \in EpType
      BY <2>1, <2>4, Zenon DEF EpType, Calls
    <3> QED
      BY <1>2, <2>1, <2>4, <3>1 DEF EpType
  <2> QED
    BY <2>2, <2>3, <2>4 DEF OpenDirectory
<1>4. /\ epFaults' \in Nat /\ epFaults' >= epFaults /\ epFaults \in Nat
      /\ EpFault => epFaults' > 0
  BY <1>1, FaultCount, PartsOfTypes DEF OpenDirectory
<1>5. Acceptor' /\ Served'
  BY <1>2, MainFrame
<1>6. EpTypeOK'
  BY <1>1, <1>2, <1>3, MainTypes, PartsOfTypes DEF OpenDirectory
<1>7. Calling'
  BY <1>1, <1>2, <1>3, <1>4 DEF Calling, At, Thrown
<1>8. Running'
  BY <1>1, <1>2, <1>3, <1>4 DEF Running, Calling, At, Thrown
<1>9. Ended'
  BY <1>1, <1>2, <1>3, <1>4 DEF Ended, Running, Calling, Idle, At, Thrown
<1>10. Leftover'
  BY <1>1, <1>2, <1>3, <1>4 DEF Leftover, Running, Ended, Calling, Idle, At,
    Thrown
<1>11. Stops'
  BY <1>1, <1>2, <1>3, <1>4 DEF Stops, Calling, At, Thrown
<1>12. Files'
  BY <1>1, <1>2, <1>3, <1>4 DEF Files, Calling, Credentials, At, Thrown
<1>13. StartRefusedOnlyByUnsafe'
  BY <1>1, <1>2, <1>3, <1>4 DEF StartRefusedOnlyByUnsafe, Calling, At, Thrown
<1> QED
  BY <1>6, <1>7, <1>8, <1>9, <1>10, <1>11, <1>12, <1>13, <1>5 DEF EndpointInv

\* The names of an earlier process are removed up to the first one that is not
\* a file of this user.
LEMMA RemoveStaleKeeps ==
  ASSUME EndpointInv, RemoveStale
  PROVE  EndpointInv'
<1>1. /\ EpTypeOK /\ Calling /\ Running /\ Acceptor /\ Ended /\ Leftover
      /\ Served /\ Stops /\ Files /\ StartRefusedOnlyByUnsafe
  BY DEF EndpointInv
<1>2. /\ ep.call = "start" /\ ep.at = "stale" /\ UNCHANGED
            <<server, accepting, serving, conn, pending>>
      /\ replaced' = replaced
  BY DEF RemoveStale, threadVars
<1>3. /\ ep' \in EpType /\ creds' \in [Credentials -> FileKinds]
      /\ \A f \in Credentials : creds'[f] \in {"none", creds[f]}
      /\ \/ /\ At(ep, ep', "listen")
            /\ \A f \in Credentials : creds'[f] = "none"
         \/ EpFault /\ Thrown(ep, ep')
         \/ /\ Thrown(ep, ep')
            /\ \E f \in Credentials : creds'[f] = "unsafe"
  <2> DEFINE unsafe == {i \in 1..3 : creds[StaleOrder[i]] = "unsafe"}
             Upto(n) == [f \in Credentials |->
                           IF \E i \in 1..n : StaleOrder[i] = f
                                              /\ i \notin unsafe
                           THEN "none" ELSE creds[f]]
  <2>1. creds \in [Credentials -> FileKinds]
    BY <1>1, PartsOfTypes
  <2>2. ASSUME NEW n
        PROVE  /\ Upto(n) \in [Credentials -> FileKinds]
               /\ \A f \in Credentials : Upto(n)[f] \in {"none", creds[f]}
    BY <2>1 DEF FileKinds
  <2>3. CASE /\ unsafe = {} /\ creds' = Upto(3) /\ Proceeds("listen")
             /\ NoEpFault
    <3>1. ep' \in EpType /\ At(ep, ep', "listen")
      BY <1>1, <2>3, ProceedsRecord DEF Steps
    <3>2. \A f \in Credentials : \E i \in 1..3 : StaleOrder[i] = f
      <4>1. /\ StaleOrder[1] = "config" /\ StaleOrder[2] = "token"
            /\ StaleOrder[3] = "temporary" /\ 1 \in 1..3 /\ 2 \in 1..3
            /\ 3 \in 1..3
        BY DEF StaleOrder
      <4> QED
        BY <4>1, Zenon DEF Credentials
    <3>3. \A f \in Credentials : creds'[f] = "none"
      BY <2>3, <3>2
    <3> QED
      BY <2>2, <2>3, <3>1, <3>3
  <2>4. CASE /\ unsafe # {} /\ NoEpFault /\ StartThrows
             /\ creds' = Upto((CHOOSE i \in unsafe :
                                 \A j \in unsafe : i <= j) - 1)
    <3>1. ep' \in EpType /\ Thrown(ep, ep')
      BY <1>1, <2>4, ThrowRecord
    <3>2. PICK k \in 1..3 : creds[StaleOrder[k]] = "unsafe"
      BY <2>4
    <3>3. StaleOrder[k] \in Credentials
      BY <3>2 DEF StaleOrder, Credentials
    <3>4. \A i \in 1..3 : StaleOrder[i] = StaleOrder[k] => i \in unsafe
      BY <3>2
    <3>5. PICK n \in 0..2 : creds' = Upto(n)
      <4>1. \E i \in unsafe : \A j \in unsafe : i <= j
        <5>1. unsafe \subseteq 1..3 /\ k \in unsafe
          BY <3>2
        <5>2. 1 \in unsafe \/ 2 \in unsafe \/ 3 \in unsafe
          BY <5>1
        <5> HIDE DEF unsafe
        <5> QED
          BY <5>1, <5>2
      <4>2. (CHOOSE i \in unsafe : \A j \in unsafe : i <= j) \in 1..3
        BY <4>1
      <4> QED
        BY <2>4, <4>2
    <3>6. creds'[StaleOrder[k]] = "unsafe"
      <4>1. \A i \in 1..n : i \in 1..3
        BY <3>5
      <4> QED
        BY <3>2, <3>3, <3>4, <3>5, <4>1
    <3> QED
      BY <2>2, <3>1, <3>3, <3>5, <3>6
  <2>5. CASE /\ EpFault /\ StartThrows
             /\ \E n \in 0..3 : creds' = Upto(n)
    BY <1>1, <2>2, <2>5, ThrowRecord
  <2> QED
    BY <2>3, <2>4, <2>5 DEF RemoveStale
<1>4. /\ epFaults' \in Nat /\ epFaults' >= epFaults /\ epFaults \in Nat
      /\ EpFault => epFaults' > 0
  BY <1>1, FaultCount, PartsOfTypes DEF RemoveStale
<1>5. Acceptor' /\ Served'
  BY <1>2, MainFrame
<1>6. EpTypeOK'
  BY <1>1, <1>3, MainTypes DEF RemoveStale
<1>7. Calling'
  BY <1>1, <1>2, <1>3, <1>4 DEF Calling, At, Thrown
<1>8. Running'
  BY <1>1, <1>2, <1>3, <1>4 DEF Running, Calling, At, Thrown
<1>9. Ended'
  BY <1>1, <1>2, <1>3, <1>4 DEF Ended, Running, Calling, Idle, At, Thrown
<1>10. Leftover'
  BY <1>1, <1>2, <1>3, <1>4 DEF Leftover, Running, Ended, Calling, Idle, At,
    Thrown
<1>11. Stops'
  BY <1>1, <1>2, <1>3, <1>4 DEF Stops, Calling, At, Thrown
<1>12. Files'
  BY <1>1, <1>2, <1>3, <1>4 DEF Files, Calling, Credentials, At, Thrown
<1>13. StartRefusedOnlyByUnsafe'
  BY <1>1, <1>2, <1>3, <1>4 DEF StartRefusedOnlyByUnsafe, Calling, At, Thrown
<1> QED
  BY <1>6, <1>7, <1>8, <1>9, <1>10, <1>11, <1>12, <1>13, <1>5 DEF EndpointInv

\* The temporary file is written.
LEMMA WriteTokenKeeps ==
  ASSUME EndpointInv, WriteToken
  PROVE  EndpointInv'
<1>1. /\ EpTypeOK /\ Calling /\ Running /\ Acceptor /\ Ended /\ Leftover
      /\ Served /\ Stops /\ Files /\ StartRefusedOnlyByUnsafe
  BY DEF EndpointInv
<1>2. /\ ep.call = "start" /\ ep.at = "write token"
      /\ UNCHANGED <<server, accepting, serving, conn, pending>>
      /\ replaced' = replaced
  BY DEF WriteToken, WriteTemporary, threadVars
<1>3. /\ ep' \in EpType /\ creds' \in [Credentials -> FileKinds]
      /\ creds'["token"] = creds["token"] /\ creds'["config"] = creds["config"]
      /\ \/ At(ep, ep', "name token") /\ creds'["temporary"] = "own"
         \/ EpFault /\ Thrown(ep, ep') /\ creds' = creds
  <2>1. creds \in [Credentials -> FileKinds]
    BY <1>1, PartsOfTypes
  <2>2. CASE /\ Proceeds("name token")
             /\ creds' = [creds EXCEPT !["temporary"] = "own"]
    BY <1>1, <2>1, <2>2, ProceedsRecord DEF Steps, Credentials, FileKinds
  <2>3. CASE EpFault /\ StartThrows /\ UNCHANGED creds
    BY <1>1, <2>1, <2>3, ThrowRecord
  <2> QED
    BY <2>2, <2>3 DEF WriteToken, WriteTemporary
<1>4. /\ epFaults' \in Nat /\ epFaults' >= epFaults /\ epFaults \in Nat
      /\ EpFault => epFaults' > 0
  BY <1>1, FaultCount, PartsOfTypes DEF WriteToken, WriteTemporary
<1>5. Acceptor' /\ Served'
  BY <1>2, MainFrame
<1>6. EpTypeOK'
  BY <1>1, <1>3, MainTypes DEF WriteToken, WriteTemporary
<1>7. Calling'
  BY <1>1, <1>2, <1>3, <1>4 DEF Calling, At, Thrown
<1>8. Running'
  BY <1>1, <1>2, <1>3, <1>4 DEF Running, Calling, At, Thrown
<1>9. Ended'
  BY <1>1, <1>2, <1>3, <1>4 DEF Ended, Running, Calling, Idle, At, Thrown
<1>10. Leftover'
  BY <1>1, <1>2, <1>3, <1>4 DEF Leftover, Running, Ended, Calling, Idle, At,
    Thrown
<1>11. Stops'
  BY <1>1, <1>2, <1>3, <1>4 DEF Stops, Calling, At, Thrown
<1>12. Files'
  BY <1>1, <1>2, <1>3, <1>4 DEF Files, Calling, Credentials, At, Thrown
<1>13. StartRefusedOnlyByUnsafe'
  BY <1>1, <1>2, <1>3, <1>4 DEF StartRefusedOnlyByUnsafe, Calling, At, Thrown
<1> QED
  BY <1>6, <1>7, <1>8, <1>9, <1>10, <1>11, <1>12, <1>13, <1>5 DEF EndpointInv

\* The temporary file gets its name.
LEMMA NameTokenKeeps ==
  ASSUME EndpointInv, NameToken
  PROVE  EndpointInv'
<1>1. /\ EpTypeOK /\ Calling /\ Running /\ Acceptor /\ Ended /\ Leftover
      /\ Served /\ Stops /\ Files /\ StartRefusedOnlyByUnsafe
  BY DEF EndpointInv
<1>2. /\ ep.call = "start" /\ ep.at = "name token"
      /\ UNCHANGED <<server, accepting, serving, conn, pending>>
      /\ replaced' = replaced
  BY DEF NameToken, NameFile, threadVars
<1>3. /\ ep' \in EpType /\ creds' \in [Credentials -> FileKinds]
      /\ creds'["config"] = creds["config"] /\ creds'["temporary"] = "none"
      /\ \/ At(ep, ep', "check token") /\ creds'["token"] = "own"
         \/ EpFault /\ Thrown(ep, ep') /\ creds'["token"] = creds["token"]
  <2>1. creds \in [Credentials -> FileKinds]
    BY <1>1, PartsOfTypes
  <2>2. CASE /\ Proceeds("check token")
             /\ creds' = [creds EXCEPT !["token"] = "own",
                                     !["temporary"] = "none"]
    BY <1>1, <2>1, <2>2, ProceedsRecord DEF Steps, Credentials, FileKinds
  <2>3. CASE /\ EpFault /\ StartThrows
             /\ creds' = [creds EXCEPT !["temporary"] = "none"]
    BY <1>1, <2>1, <2>3, ThrowRecord DEF Credentials, FileKinds
  <2> QED
    BY <2>2, <2>3 DEF NameToken, NameFile
<1>4. /\ epFaults' \in Nat /\ epFaults' >= epFaults /\ epFaults \in Nat
      /\ EpFault => epFaults' > 0
  BY <1>1, FaultCount, PartsOfTypes DEF NameToken, NameFile
<1>5. Acceptor' /\ Served'
  BY <1>2, MainFrame
<1>6. EpTypeOK'
  BY <1>1, <1>3, MainTypes DEF NameToken, NameFile
<1>7. Calling'
  BY <1>1, <1>2, <1>3, <1>4 DEF Calling, At, Thrown
<1>8. Running'
  BY <1>1, <1>2, <1>3, <1>4 DEF Running, Calling, At, Thrown
<1>9. Ended'
  BY <1>1, <1>2, <1>3, <1>4 DEF Ended, Running, Calling, Idle, At, Thrown
<1>10. Leftover'
  BY <1>1, <1>2, <1>3, <1>4 DEF Leftover, Running, Ended, Calling, Idle, At,
    Thrown
<1>11. Stops'
  BY <1>1, <1>2, <1>3, <1>4 DEF Stops, Calling, At, Thrown
<1>12. Files'
  BY <1>1, <1>2, <1>3, <1>4 DEF Files, Calling, Credentials, At, Thrown
<1>13. StartRefusedOnlyByUnsafe'
  BY <1>1, <1>2, <1>3, <1>4 DEF StartRefusedOnlyByUnsafe, Calling, At, Thrown
<1> QED
  BY <1>6, <1>7, <1>8, <1>9, <1>10, <1>11, <1>12, <1>13, <1>5 DEF EndpointInv

\* The temporary file is written.
LEMMA WriteConfigKeeps ==
  ASSUME EndpointInv, WriteConfig
  PROVE  EndpointInv'
<1>1. /\ EpTypeOK /\ Calling /\ Running /\ Acceptor /\ Ended /\ Leftover
      /\ Served /\ Stops /\ Files /\ StartRefusedOnlyByUnsafe
  BY DEF EndpointInv
<1>2. /\ ep.call = "start" /\ ep.at = "write config"
      /\ UNCHANGED <<server, accepting, serving, conn, pending>>
      /\ replaced' = replaced
  BY DEF WriteConfig, WriteTemporary, threadVars
<1>3. /\ ep' \in EpType /\ creds' \in [Credentials -> FileKinds]
      /\ creds'["token"] = creds["token"] /\ creds'["config"] = creds["config"]
      /\ \/ At(ep, ep', "name config") /\ creds'["temporary"] = "own"
         \/ EpFault /\ Thrown(ep, ep') /\ creds' = creds
  <2>1. creds \in [Credentials -> FileKinds]
    BY <1>1, PartsOfTypes
  <2>2. CASE /\ Proceeds("name config")
             /\ creds' = [creds EXCEPT !["temporary"] = "own"]
    BY <1>1, <2>1, <2>2, ProceedsRecord DEF Steps, Credentials, FileKinds
  <2>3. CASE EpFault /\ StartThrows /\ UNCHANGED creds
    BY <1>1, <2>1, <2>3, ThrowRecord
  <2> QED
    BY <2>2, <2>3 DEF WriteConfig, WriteTemporary
<1>4. /\ epFaults' \in Nat /\ epFaults' >= epFaults /\ epFaults \in Nat
      /\ EpFault => epFaults' > 0
  BY <1>1, FaultCount, PartsOfTypes DEF WriteConfig, WriteTemporary
<1>5. Acceptor' /\ Served'
  BY <1>2, MainFrame
<1>6. EpTypeOK'
  BY <1>1, <1>3, MainTypes DEF WriteConfig, WriteTemporary
<1>7. Calling'
  BY <1>1, <1>2, <1>3, <1>4 DEF Calling, At, Thrown
<1>8. Running'
  BY <1>1, <1>2, <1>3, <1>4 DEF Running, Calling, At, Thrown
<1>9. Ended'
  BY <1>1, <1>2, <1>3, <1>4 DEF Ended, Running, Calling, Idle, At, Thrown
<1>10. Leftover'
  BY <1>1, <1>2, <1>3, <1>4 DEF Leftover, Running, Ended, Calling, Idle, At,
    Thrown
<1>11. Stops'
  BY <1>1, <1>2, <1>3, <1>4 DEF Stops, Calling, At, Thrown
<1>12. Files'
  BY <1>1, <1>2, <1>3, <1>4 DEF Files, Calling, Credentials, At, Thrown
<1>13. StartRefusedOnlyByUnsafe'
  BY <1>1, <1>2, <1>3, <1>4 DEF StartRefusedOnlyByUnsafe, Calling, At, Thrown
<1> QED
  BY <1>6, <1>7, <1>8, <1>9, <1>10, <1>11, <1>12, <1>13, <1>5 DEF EndpointInv

\* The temporary file gets its name.
LEMMA NameConfigKeeps ==
  ASSUME EndpointInv, NameConfig
  PROVE  EndpointInv'
<1>1. /\ EpTypeOK /\ Calling /\ Running /\ Acceptor /\ Ended /\ Leftover
      /\ Served /\ Stops /\ Files /\ StartRefusedOnlyByUnsafe
  BY DEF EndpointInv
<1>2. /\ ep.call = "start" /\ ep.at = "name config"
      /\ UNCHANGED <<server, accepting, serving, conn, pending>>
      /\ replaced' = replaced
  BY DEF NameConfig, NameFile, threadVars
<1>3. /\ ep' \in EpType /\ creds' \in [Credentials -> FileKinds]
      /\ creds'["token"] = creds["token"] /\ creds'["temporary"] = "none"
      /\ \/ At(ep, ep', "check config") /\ creds'["config"] = "own"
         \/ EpFault /\ Thrown(ep, ep') /\ creds'["config"] = creds["config"]
  <2>1. creds \in [Credentials -> FileKinds]
    BY <1>1, PartsOfTypes
  <2>2. CASE /\ Proceeds("check config")
             /\ creds' = [creds EXCEPT !["config"] = "own",
                                     !["temporary"] = "none"]
    BY <1>1, <2>1, <2>2, ProceedsRecord DEF Steps, Credentials, FileKinds
  <2>3. CASE /\ EpFault /\ StartThrows
             /\ creds' = [creds EXCEPT !["temporary"] = "none"]
    BY <1>1, <2>1, <2>3, ThrowRecord DEF Credentials, FileKinds
  <2> QED
    BY <2>2, <2>3 DEF NameConfig, NameFile
<1>4. /\ epFaults' \in Nat /\ epFaults' >= epFaults /\ epFaults \in Nat
      /\ EpFault => epFaults' > 0
  BY <1>1, FaultCount, PartsOfTypes DEF NameConfig, NameFile
<1>5. Acceptor' /\ Served'
  BY <1>2, MainFrame
<1>6. EpTypeOK'
  BY <1>1, <1>3, MainTypes DEF NameConfig, NameFile
<1>7. Calling'
  BY <1>1, <1>2, <1>3, <1>4 DEF Calling, At, Thrown
<1>8. Running'
  BY <1>1, <1>2, <1>3, <1>4 DEF Running, Calling, At, Thrown
<1>9. Ended'
  BY <1>1, <1>2, <1>3, <1>4 DEF Ended, Running, Calling, Idle, At, Thrown
<1>10. Leftover'
  BY <1>1, <1>2, <1>3, <1>4 DEF Leftover, Running, Ended, Calling, Idle, At,
    Thrown
<1>11. Stops'
  BY <1>1, <1>2, <1>3, <1>4 DEF Stops, Calling, At, Thrown
<1>12. Files'
  BY <1>1, <1>2, <1>3, <1>4 DEF Files, Calling, Credentials, At, Thrown
<1>13. StartRefusedOnlyByUnsafe'
  BY <1>1, <1>2, <1>3, <1>4 DEF StartRefusedOnlyByUnsafe, Calling, At, Thrown
<1> QED
  BY <1>6, <1>7, <1>8, <1>9, <1>10, <1>11, <1>12, <1>13, <1>5 DEF EndpointInv

\* The named file is looked at, and Start fails when it is another one.
LEMMA CheckFileKeeps ==
  ASSUME EndpointInv, NEW f \in {"token", "config"}, NEW at, NEW next,
         \/ f = "token" /\ at = "check token" /\ next = "write config"
         \/ f = "config" /\ at = "check config" /\ next = "verify",
         CheckFile(f, at, next)
  PROVE  EndpointInv'
<1>1. /\ EpTypeOK /\ Calling /\ Running /\ Acceptor /\ Ended /\ Leftover
      /\ Served /\ Stops /\ Files /\ StartRefusedOnlyByUnsafe
  BY DEF EndpointInv
<1>2. /\ ep.call = "start" /\ ep.at = at /\ replaced' = replaced
      /\ UNCHANGED <<server, accepting, serving, conn, pending>>
  BY DEF CheckFile, threadVars
<1>3. /\ ep' \in EpType /\ creds' \in [Credentials -> FileKinds]
      /\ \A g \in Credentials : g # f => creds'[g] = creds[g]
      /\ creds'[f] = "own" => creds[f] = "own"
      /\ \/ At(ep, ep', next) /\ creds' = creds
         \/ Thrown(ep, ep') /\ (EpFault \/ creds[f] # "own")
  <2>1. creds \in [Credentials -> FileKinds]
    BY <1>1, PartsOfTypes
  <2>2. CASE Proceeds(next) /\ UNCHANGED creds
    BY <1>1, <2>1, <2>2, ProceedsRecord DEF Steps
  <2>3. ASSUME StartThrows, EpFault \/ creds[f] # "own",
               NEW left \in {"none"} \cup ({creds[f]} \ {"own"}),
               creds' = [creds EXCEPT ![f] = left]
        PROVE  /\ ep' \in EpType /\ creds' \in [Credentials -> FileKinds]
               /\ \A g \in Credentials : g # f => creds'[g] = creds[g]
               /\ creds'[f] # "own" /\ Thrown(ep, ep')
    BY <1>1, <2>1, <2>3, ThrowRecord DEF Credentials, FileKinds
  <2> QED
    BY <2>2, <2>3 DEF CheckFile
<1>4. /\ epFaults' \in Nat /\ epFaults' >= epFaults /\ epFaults \in Nat
      /\ EpFault => epFaults' > 0
  BY <1>1, FaultCount, PartsOfTypes DEF CheckFile
<1>5. Acceptor' /\ Served'
  BY <1>2, MainFrame
<1>6. EpTypeOK'
  BY <1>1, <1>3, MainTypes DEF CheckFile
<1>7. Calling'
  BY <1>1, <1>2, <1>3, <1>4 DEF Calling, At, Thrown
<1>8. Running'
  BY <1>1, <1>2, <1>3, <1>4 DEF Running, Calling, At, Thrown
<1>9. Ended'
  BY <1>1, <1>2, <1>3, <1>4 DEF Ended, Running, Calling, Idle, At, Thrown
<1>10. Leftover'
  BY <1>1, <1>2, <1>3, <1>4 DEF Leftover, Running, Ended, Calling, Idle, At,
    Thrown
<1>11. Stops'
  BY <1>1, <1>2, <1>3, <1>4 DEF Stops, Calling, At, Thrown
<1>12. Files'
  BY <1>1, <1>2, <1>3, <1>4 DEF Files, Calling, Credentials, At, Thrown
<1>13. StartRefusedOnlyByUnsafe'
  <2>1. creds[f] = "own" \/ replaced' > 0
    BY <1>1, <1>2 DEF Files
  <2> QED
    BY <1>1, <1>2, <1>3, <1>4, <2>1
       DEF StartRefusedOnlyByUnsafe, At, Thrown
<1> QED
  BY <1>6, <1>7, <1>8, <1>9, <1>10, <1>11, <1>12, <1>13, <1>5 DEF EndpointInv

\* Start has succeeded, or the directory was exchanged.
LEMMA VerifyDirectoryKeeps ==
  ASSUME EndpointInv, VerifyDirectory
  PROVE  EndpointInv'
<1>1. /\ EpTypeOK /\ Calling /\ Running /\ Acceptor /\ Ended /\ Leftover
      /\ Served /\ Stops /\ Files /\ StartRefusedOnlyByUnsafe
  BY DEF EndpointInv
<1>2. /\ ep.call = "start" /\ ep.at = "verify" /\ creds' = creds
      /\ UNCHANGED <<server, accepting, serving, conn, pending>>
      /\ replaced' = replaced
  BY DEF VerifyDirectory, threadVars
<1>3. /\ ep' \in EpType
      /\ \/ /\ ep'.call = "up" /\ ep'.at = "enter"
            /\ (ep'.opened <=> ep.opened) /\ SameRest(ep, ep')
            /\ (ep'.reported <=> ep.reported)
         \/ EpFault /\ Thrown(ep, ep')
  <2>1. ep \in EpType
    BY <1>1, EpRecord
  <2>2. CASE ep' = [ep EXCEPT !.call = "up", !.at = "enter", !.started = TRUE]
    <3>1. ep' \in EpType
      BY <2>1, <2>2, Zenon DEF EpType, Steps, Calls
    <3> QED
      BY <2>1, <2>2, <3>1 DEF EpType
  <2>3. CASE EpFault /\ StartThrows
    BY <1>1, <2>3, ThrowRecord
  <2> QED
    BY <2>2, <2>3 DEF VerifyDirectory
<1>4. /\ epFaults' \in Nat /\ epFaults' >= epFaults /\ epFaults \in Nat
      /\ EpFault => epFaults' > 0
  BY <1>1, FaultCount, PartsOfTypes DEF VerifyDirectory
<1>5. Acceptor' /\ Served'
  BY <1>2, MainFrame
<1>6. EpTypeOK'
  BY <1>1, <1>2, <1>3, MainTypes, PartsOfTypes DEF VerifyDirectory
<1>7. Calling'
  BY <1>1, <1>2, <1>3, <1>4 DEF Calling, At, Thrown
<1>8. Running'
  BY <1>1, <1>2, <1>3, <1>4 DEF Running, Calling, At, Thrown
<1>9. Ended'
  BY <1>1, <1>2, <1>3, <1>4 DEF Ended, Running, Calling, Idle, At, Thrown
<1>10. Leftover'
  BY <1>1, <1>2, <1>3, <1>4 DEF Leftover, Running, Ended, Calling, Idle, At,
    Thrown
<1>11. Stops'
  BY <1>1, <1>2, <1>3, <1>4 DEF Stops, Calling, At, Thrown
<1>12. Files'
  BY <1>1, <1>2, <1>3, <1>4 DEF Files, Calling, Credentials, At, Thrown
<1>13. StartRefusedOnlyByUnsafe'
  BY <1>1, <1>2, <1>3, <1>4 DEF StartRefusedOnlyByUnsafe, Calling, At, Thrown
<1> QED
  BY <1>6, <1>7, <1>8, <1>9, <1>10, <1>11, <1>12, <1>13, <1>5 DEF EndpointInv

\* The server listens, or Start fails with or without a server object.
LEMMA ListenKeeps ==
  ASSUME EndpointInv, Listen
  PROVE  EndpointInv'
<1>1. /\ EpTypeOK /\ Calling /\ Running /\ Acceptor /\ Ended /\ Leftover
      /\ Served /\ Stops /\ Files /\ StartRefusedOnlyByUnsafe
  BY DEF EndpointInv
<1>2. /\ ep.call = "start" /\ ep.at = "listen"
      /\ UNCHANGED <<creds, accepting, serving, conn, pending>>
      /\ replaced' = replaced
  BY DEF Listen
<1>3. /\ ep' \in EpType /\ server' \in ServerType
      /\ \/ /\ At(ep, ep', "threads") /\ server'.made /\ server'.running
            /\ ~server'.wake
         \/ /\ EpFault /\ Thrown(ep, ep') /\ ~server'.running
            /\ ~server'.listening
  <2>1. CASE /\ Proceeds("threads")
             /\ server' = [NoServer EXCEPT !.made = TRUE, !.running = TRUE,
                                           !.listening = TRUE]
    BY <1>1, <2>1, ProceedsRecord DEF Steps, NoServer, ServerType
  <2>2. CASE /\ EpFault /\ StartThrows
             /\ \E m \in BOOLEAN : server' = [NoServer EXCEPT !.made = m]
    BY <1>1, <2>2, ThrowRecord DEF NoServer, ServerType
  <2> QED
    BY <2>1, <2>2 DEF Listen
<1>4. /\ epFaults' \in Nat /\ epFaults' >= epFaults /\ epFaults \in Nat
      /\ EpFault => epFaults' > 0
  BY <1>1, FaultCount, PartsOfTypes DEF Listen
<1>5. EpTypeOK'
  BY <1>1, <1>2, <1>3, <1>4, TypesFromParts, PartsOfTypes DEF Listen
<1>6. Calling'
  BY <1>1, <1>2, <1>3, <1>4 DEF Calling, At, Thrown
<1>7. Running'
  BY <1>1, <1>2, <1>3, <1>4 DEF Running, Calling, At, Thrown
<1>8. Acceptor'
  BY <1>1, <1>2, <1>3 DEF Acceptor, Ended, Running
<1>9. Ended'
  BY <1>1, <1>2, <1>3, <1>4 DEF Ended, Running, Calling, Idle, At, Thrown
<1>10. Leftover'
  BY <1>1, <1>2, <1>3, <1>4 DEF Leftover, Running, Ended, Calling, Idle, At,
    Thrown
<1>11. Served'
  BY <1>1, <1>2, <1>3, <1>4 DEF Served, At, Thrown
<1>12. Stops'
  BY <1>1, <1>2, <1>3, <1>4 DEF Stops, Calling, At, Thrown
<1>13. Files'
  BY <1>1, <1>2, <1>3, <1>4 DEF Files, Calling, Credentials, At, Thrown
<1>14. StartRefusedOnlyByUnsafe'
  BY <1>1, <1>2, <1>3, <1>4 DEF StartRefusedOnlyByUnsafe, Calling, At, Thrown
<1> QED
  BY <1>5, <1>6, <1>7, <1>8, <1>9, <1>10, <1>11, <1>12, <1>13, <1>14 DEF
       EndpointInv

\* The threads are created, or those that were are stopped again.
LEMMA StartThreadsKeeps ==
  ASSUME EndpointInv, StartThreads
  PROVE  EndpointInv'
<1>1. /\ EpTypeOK /\ Calling /\ Running /\ Acceptor /\ Ended /\ Leftover
      /\ Served /\ Stops /\ Files /\ StartRefusedOnlyByUnsafe
  BY DEF EndpointInv
<1>2. /\ ep.call = "start" /\ ep.at = "threads"
      /\ UNCHANGED <<creds, conn, pending>>
      /\ replaced' = replaced
  BY DEF StartThreads
<1>3. /\ ep' \in EpType /\ server' \in ServerType
      /\ serving' \in ServeType /\ accepting' \in AcceptType
      /\ \/ /\ At(ep, ep', "write token") /\ accepting'.at = "check"
            /\ server' = server
         \/ /\ EpFault /\ At(ep, ep', "clear") /\ accepting' = accepting
            /\ ~server'.running
  <2>1. server \in ServerType /\ accepting \in AcceptType
    BY <1>1, PartsOfTypes
  <2>2. CASE /\ Proceeds("write token")
             /\ serving' = [w \in Workers |-> "idle"]
             /\ accepting' = [NoAccept EXCEPT !.at = "check"]
             /\ UNCHANGED server
    BY <1>1, <2>1, <2>2, ProceedsRecord
       DEF Steps, NoAccept, AcceptType, ServeType
  <2>3. CASE /\ EpFault /\ Proceeds("clear")
             /\ \E made \in SUBSET Workers :
                  serving' = [w \in Workers |->
                                IF w \in made THEN "idle" ELSE "off"]
             /\ server' = [server EXCEPT !.running = FALSE, !.stop = TRUE]
             /\ UNCHANGED accepting
    <3>1. server' \in ServerType /\ ~server'.running
      BY <2>1, <2>3 DEF ServerType
    <3>2. serving' \in ServeType
      BY <2>3 DEF ServeType
    <3> QED
      BY <1>1, <2>1, <2>3, <3>1, <3>2, ProceedsRecord DEF Steps
  <2> QED
    BY <2>2, <2>3 DEF StartThreads
<1>4. /\ epFaults' \in Nat /\ epFaults' >= epFaults /\ epFaults \in Nat
      /\ EpFault => epFaults' > 0
  BY <1>1, FaultCount, PartsOfTypes DEF StartThreads
<1>5. EpTypeOK'
  BY <1>1, <1>2, <1>3, <1>4, TypesFromParts, PartsOfTypes DEF StartThreads
<1>6. Calling'
  BY <1>1, <1>2, <1>3, <1>4 DEF Calling, At, Thrown
<1>7. Running'
  BY <1>1, <1>2, <1>3, <1>4 DEF Running, Calling, At, Thrown
<1>8. Acceptor'
  BY <1>1, <1>2, <1>3 DEF Acceptor, Ended
<1>9. Ended'
  BY <1>1, <1>2, <1>3, <1>4 DEF Ended, Running, Calling, Idle, At, Thrown
<1>10. Leftover'
  BY <1>1, <1>2, <1>3, <1>4 DEF Leftover, Running, Ended, Calling, Idle, At,
    Thrown
<1>11. Served'
  BY <1>1, <1>2, <1>3, EndpointBounds DEF Served, Ended, Idle
<1>12. Stops'
  BY <1>1, <1>2, <1>3, <1>4 DEF Stops, Calling, At, Thrown
<1>13. Files'
  BY <1>1, <1>2, <1>3, <1>4 DEF Files, Calling, Credentials, At, Thrown
<1>14. StartRefusedOnlyByUnsafe'
  BY <1>1, <1>2, <1>3, <1>4 DEF StartRefusedOnlyByUnsafe, Calling, At, Thrown
<1> QED
  BY <1>5, <1>6, <1>7, <1>8, <1>9, <1>10, <1>11, <1>12, <1>13, <1>14 DEF
       EndpointInv

-----------------------------------------------------------------------------
(* Stop.                                                                   *)

\* A stopping call begins with the server, or with what is left to do.
LEMMA BeginStopKeeps ==
  ASSUME EndpointInv, BeginStop
  PROVE  EndpointInv'
<1>1. /\ EpTypeOK /\ Calling /\ Running /\ Acceptor /\ Ended /\ Leftover
      /\ Served /\ Stops /\ Files /\ StartRefusedOnlyByUnsafe
  BY DEF EndpointInv
<1>2. /\ ep.call \in Stopping /\ ep.at = "enter"
      /\ UNCHANGED <<creds, accepting, serving, conn, pending, epFaults,
                     launches, replaced>>
  BY DEF BeginStop
<1>3. /\ ep \in EpType /\ server \in ServerType
      /\ \A b \in BOOLEAN :
            [server EXCEPT !.running = FALSE, !.stop = @ \/ b] \in ServerType
  <2>1. ep \in EpType /\ server \in ServerType
    BY <1>1, PartsOfTypes
  <2>2. \A b \in BOOLEAN : (server.stop \/ b) \in BOOLEAN
    BY Zenon
  <2>3. \A b, c \in BOOLEAN :
          [server EXCEPT !.running = FALSE, !.stop = c] \in ServerType
    BY <2>1, Zenon DEF ServerType
  <2> QED
    BY <2>1, <2>2, <2>3, Zenon
<1>4. /\ ep' \in EpType /\ server' \in ServerType
      /\ server'.made = server.made /\ server'.wake = server.wake
      /\ server'.listening = server.listening
      /\ server'.running => server.running
      /\ \/ /\ ep.servicesStopped /\ server' = server
            /\ ep.stopped /\ Back(ep, ep')
         \/ /\ ep.servicesStopped /\ server' = server
            /\ ~ep.stopped /\ Over(ep, ep')
         \/ /\ ~ep.servicesStopped /\ ~ep.serverStopped /\ ~server'.running
            /\ At(ep, ep', "clear")
         \/ /\ ~ep.servicesStopped /\ ~ep.serverStopped /\ ~server'.running
            /\ ~server.running /\ ~ThreadsAlive /\ At(ep, ep', "stats")
         \/ /\ ~ep.servicesStopped /\ server' = server /\ ~server.running
            /\ ep'.call = ep.call /\ ep'.at = "dispatcher" /\ ep'.serverStopped
            /\ (ep'.dispatcherStopped <=> ep.dispatcherStopped)
            /\ ~ep'.servicesStopped /\ (ep'.opened <=> ep.opened)
            /\ (ep'.stopped <=> ep.stopped) /\ (ep'.error <=> ep.error)
            /\ (ep'.hurt <=> ep.hurt) /\ (ep'.reported <=> ep.reported)
  <2> DEFINE live == server.running \/ ThreadsAlive
  <2>1. CASE ep.servicesStopped
    <3>1. server' = server
      BY <2>1 DEF BeginStop
    <3>2. ep' = IF ep.stopped THEN Returns(ep) ELSE AfterServices(ep)
      BY <2>1 DEF BeginStop
    <3>3. CASE ep.stopped
      BY <1>2, <1>3, <2>1, <3>1, <3>2, <3>3, ReturnsRecord
    <3>4. CASE ~ep.stopped
      BY <1>2, <1>3, <2>1, <3>1, <3>2, <3>4, OverRecord
    <3> QED
      BY <3>3, <3>4
  <2>2. CASE ~ep.servicesStopped /\ server.made /\ ~ep.serverStopped
    <3>1. /\ server' = [server EXCEPT !.running = FALSE, !.stop = @ \/ live]
          /\ Proceeds(IF live THEN "clear" ELSE "stats")
      BY <2>2 DEF BeginStop
    <3>2. live \in BOOLEAN
      BY <1>3, Zenon DEF ServerType, ThreadsAlive
    <3> HIDE DEF live
    <3>3. server' \in ServerType
      BY <1>3, <3>1, <3>2
    <3>4. /\ server'.made = server.made /\ server'.wake = server.wake
          /\ server'.listening = server.listening
          /\ server'.running = FALSE
      BY <1>3, <3>1 DEF ServerType
    <3>5. CASE live
      BY <1>1, <2>2, <3>1, <3>3, <3>4, <3>5, ProceedsRecord DEF Steps
    <3>6. CASE ~live
      <4>1. ~server.running /\ ~ThreadsAlive
        BY <3>6 DEF live
      <4> QED
        BY <1>1, <2>2, <3>1, <3>3, <3>4, <3>6, <4>1, ProceedsRecord DEF Steps
    <3> QED
      BY <3>5, <3>6
  <2>3. CASE ~ep.servicesStopped /\ (~server.made \/ ep.serverStopped)
    <3>1. /\ server' = server
          /\ ep' = [ep EXCEPT !.serverStopped = TRUE, !.at = "dispatcher"]
      BY <2>3 DEF BeginStop
    <3>2. ep' \in EpType
      BY <1>3, <3>1, Zenon DEF EpType, Steps
    <3>3. ~server.running
      BY <1>1, <2>3 DEF Running
    <3> QED
      BY <1>3, <2>3, <3>1, <3>2, <3>3 DEF EpType
  <2> QED
    BY <2>1, <2>2, <2>3
<1>5. Acceptor' /\ Served'
  BY <1>2, <1>4, MainFrame
<1>6. EpTypeOK'
  BY <1>1, <1>2, <1>4, TypesFromParts, PartsOfTypes
<1>7. Calling'
  BY <1>1, <1>2, <1>3, <1>4 DEF Calling, Over, Back, At, Thrown
<1>8. Running'
  BY <1>1, <1>2, <1>3, <1>4 DEF Running, Calling, Over, Back, At, Thrown
<1>9. Ended'
  BY <1>1, <1>2, <1>4 DEF Ended, Running, Calling, Idle, ThreadsAlive, Over,
    Back, At, Thrown
<1>10. Leftover'
  BY <1>1, <1>2, <1>3, <1>4 DEF Leftover, Running, Ended, Calling, Idle, Over,
    Back, At, Thrown
<1>11. Stops'
  BY <1>1, <1>2, <1>3, <1>4 DEF Stops, Calling, Over, Back, At, Thrown
<1>12. Files'
  BY <1>1, <1>2, <1>3, <1>4 DEF Files, Calling, Credentials, Over, Back, At,
    Thrown
<1>13. StartRefusedOnlyByUnsafe'
  BY <1>1, <1>2, <1>3, <1>4 DEF StartRefusedOnlyByUnsafe, Calling, Over, Back,
    At, Thrown
<1> QED
  BY <1>6, <1>7, <1>8, <1>9, <1>10, <1>11, <1>12, <1>13, <1>5 DEF EndpointInv

\* The queued sockets are closed.
LEMMA ClearQueueKeeps ==
  ASSUME EndpointInv, ClearQueue
  PROVE  EndpointInv'
<1>1. /\ EpTypeOK /\ Calling /\ Running /\ Acceptor /\ Ended /\ Leftover
      /\ Served /\ Stops /\ Files /\ StartRefusedOnlyByUnsafe
  BY DEF EndpointInv
<1>2. /\ ep.at = "clear" /\ pending' = <<>>
      /\ UNCHANGED <<creds, server, accepting, serving, epFaults>>
      /\ replaced' = replaced
  BY DEF ClearQueue
<1>3. ep' \in EpType /\ At(ep, ep', "wake")
  BY <1>1, ProceedsRecord DEF ClearQueue, Steps
<1>4. /\ conn' \in ConnType
      /\ \A c \in Connections : conn'[c] \in {conn[c], "closed"}
  BY <1>1, PartsOfTypes DEF ClearQueue, ConnType
<1>5. EpTypeOK'
  BY <1>1, <1>2, <1>3, <1>4, EndpointBounds, TypesFromParts, PartsOfTypes DEF
       ClearQueue
<1>6. Calling'
  BY <1>1, <1>2, <1>3, <1>4 DEF Calling, At, Thrown
<1>7. Running'
  BY <1>1, <1>2, <1>3, <1>4 DEF Running, Calling, At, Thrown
<1>8. Acceptor'
  BY <1>1, <1>2 DEF Acceptor
<1>9. Ended'
  BY <1>1, <1>2, <1>3, <1>4 DEF Ended, Running, Calling, Idle, At, Thrown
<1>10. Leftover'
  BY <1>1, <1>2, <1>3, <1>4 DEF Leftover, Running, Ended, Calling, Idle, At,
    Thrown
<1>11. Served'
  BY <1>1, <1>2, <1>4 DEF Served
<1>12. Stops'
  BY <1>1, <1>2, <1>3, <1>4 DEF Stops, Calling, At, Thrown
<1>13. Files'
  BY <1>1, <1>2, <1>3, <1>4 DEF Files, Calling, Credentials, At, Thrown
<1>14. StartRefusedOnlyByUnsafe'
  BY <1>1, <1>2, <1>3, <1>4 DEF StartRefusedOnlyByUnsafe, Calling, At, Thrown
<1> QED
  BY <1>5, <1>6, <1>7, <1>8, <1>9, <1>10, <1>11, <1>12, <1>13, <1>14 DEF
       EndpointInv

\* A connection of our own wakes the accept thread.
LEMMA WakeAcceptorKeeps ==
  ASSUME EndpointInv, WakeAcceptor
  PROVE  EndpointInv'
<1>1. /\ EpTypeOK /\ Calling /\ Running /\ Acceptor /\ Ended /\ Leftover
      /\ Served /\ Stops /\ Files /\ StartRefusedOnlyByUnsafe
  BY DEF EndpointInv
<1>2. /\ ep.at = "wake"
      /\ UNCHANGED <<creds, accepting, serving, conn, pending, epFaults>>
      /\ server' \in ServerType /\ server'.running = server.running
      /\ server'.listening = server.listening /\ ~server.running
  <2>1. server \in ServerType
    BY <1>1, PartsOfTypes
  <2>2. ~server.running
    BY <1>1 DEF WakeAcceptor, Running
  <2> QED
    BY <2>1, <2>2 DEF WakeAcceptor, ServerType
<1>3. ep' \in EpType /\ At(ep, ep', "join accept")
      /\ replaced' = replaced
  BY <1>1, ProceedsRecord DEF WakeAcceptor, Steps
<1>4. Acceptor' /\ Served'
  BY <1>2, MainFrame
<1>5. EpTypeOK'
  BY <1>1, <1>2, <1>3, TypesFromParts, PartsOfTypes DEF WakeAcceptor
<1>6. Calling'
  BY <1>1, <1>2, <1>3 DEF Calling, At, Thrown
<1>7. Running'
  BY <1>1, <1>2, <1>3 DEF Running, Calling, At, Thrown
<1>8. Ended'
  BY <1>1, <1>2, <1>3 DEF Ended, Running, Calling, Idle, At, Thrown
<1>9. Leftover'
  BY <1>1, <1>2, <1>3 DEF Leftover, Running, Ended, Calling, Idle, At, Thrown
<1>10. Stops'
  BY <1>1, <1>2, <1>3 DEF Stops, Calling, At, Thrown
<1>11. Files'
  BY <1>1, <1>2, <1>3 DEF Files, Calling, Credentials, At, Thrown
<1>12. StartRefusedOnlyByUnsafe'
  BY <1>1, <1>2, <1>3 DEF StartRefusedOnlyByUnsafe, Calling, At, Thrown
<1> QED
  BY <1>5, <1>6, <1>7, <1>8, <1>9, <1>10, <1>11, <1>12, <1>4 DEF EndpointInv

\* The accept thread has ended and the listener is closed.
LEMMA JoinAcceptKeeps ==
  ASSUME EndpointInv, JoinAccept
  PROVE  EndpointInv'
<1>1. /\ EpTypeOK /\ Calling /\ Running /\ Acceptor /\ Ended /\ Leftover
      /\ Served /\ Stops /\ Files /\ StartRefusedOnlyByUnsafe
  BY DEF EndpointInv
<1>2. /\ ep.at = "join accept" /\ accepting.at = "off"
      /\ UNCHANGED <<creds, accepting, serving, pending, epFaults>>
      /\ server' \in ServerType /\ server'.running = server.running
      /\ ~server'.listening /\ ~server.running
  <2>1. server \in ServerType
    BY <1>1, PartsOfTypes
  <2>2. ~server.running
    BY <1>1 DEF JoinAccept, Running
  <2> QED
    BY <2>1, <2>2 DEF JoinAccept, ServerType
<1>3. ep' \in EpType /\ At(ep, ep', "join workers")
      /\ replaced' = replaced
  BY <1>1, ProceedsRecord DEF JoinAccept, Steps
<1>4. /\ conn' \in ConnType
      /\ \A c \in Connections : conn'[c] \in {conn[c], "closed"}
  BY <1>1, PartsOfTypes DEF JoinAccept, ConnType
<1>5. EpTypeOK'
  BY <1>1, <1>2, <1>3, <1>4, TypesFromParts, PartsOfTypes DEF JoinAccept
<1>6. Calling'
  BY <1>1, <1>2, <1>3, <1>4 DEF Calling, At, Thrown
<1>7. Running'
  BY <1>1, <1>2, <1>3, <1>4 DEF Running, Calling, At, Thrown
<1>8. Acceptor'
  BY <1>1, <1>2 DEF Acceptor
<1>9. Ended'
  BY <1>1, <1>2, <1>3, <1>4 DEF Ended, Running, Calling, Idle, At, Thrown
<1>10. Leftover'
  BY <1>1, <1>2, <1>3, <1>4 DEF Leftover, Running, Ended, Calling, Idle, At,
    Thrown
<1>11. Served'
  BY <1>1, <1>2, <1>4 DEF Served
<1>12. Stops'
  BY <1>1, <1>2, <1>3, <1>4 DEF Stops, Calling, At, Thrown
<1>13. Files'
  BY <1>1, <1>2, <1>3, <1>4 DEF Files, Calling, Credentials, At, Thrown
<1>14. StartRefusedOnlyByUnsafe'
  BY <1>1, <1>2, <1>3, <1>4 DEF StartRefusedOnlyByUnsafe, Calling, At, Thrown
<1> QED
  BY <1>5, <1>6, <1>7, <1>8, <1>9, <1>10, <1>11, <1>12, <1>13, <1>14 DEF
       EndpointInv

\* The workers have ended; a failing Start goes on to undo the rest.
LEMMA JoinWorkersKeeps ==
  ASSUME EndpointInv, JoinWorkers
  PROVE  EndpointInv'
<1>1. /\ EpTypeOK /\ Calling /\ Running /\ Acceptor /\ Ended /\ Leftover
      /\ Served /\ Stops /\ Files /\ StartRefusedOnlyByUnsafe
  BY DEF EndpointInv
<1>2. /\ ep.at = "join workers" /\ Idle /\ ~server.running
      /\ UNCHANGED <<creds, epFaults>> /\ epFaults \in Nat
      /\ UNCHANGED <<server, accepting, serving, conn, pending>>
      /\ replaced' = replaced
  BY <1>1, PartsOfTypes DEF JoinWorkers, threadVars, Idle, Running
<1>3. /\ ep' \in EpType
      /\ \/ ep.call = "start" /\ Thrown(ep, ep')
         \/ ep.call # "start" /\ At(ep, ep', "stats")
  <2>1. CASE ep.call = "start"
    BY <1>1, <2>1, ThrowRecord DEF JoinWorkers
  <2>2. CASE ep.call # "start"
    BY <1>1, <2>2, ProceedsRecord DEF JoinWorkers, Steps
  <2> QED
    BY <2>1, <2>2
<1>4. Acceptor' /\ Served'
  BY <1>2, MainFrame
<1>5. EpTypeOK'
  BY <1>1, <1>2, <1>3, TypesFromParts, PartsOfTypes DEF JoinWorkers
<1>6. Calling'
  BY <1>1, <1>2, <1>3 DEF Calling, At, Thrown
<1>7. Running'
  BY <1>1, <1>2, <1>3 DEF Running, Calling, At, Thrown
<1>8. Ended'
  BY <1>1, <1>2, <1>3 DEF Ended, Running, Calling, Idle, At, Thrown
<1>9. Leftover'
  BY <1>1, <1>2, <1>3 DEF Leftover, Running, Ended, Calling, Idle, At, Thrown
<1>10. Stops'
  BY <1>1, <1>2, <1>3 DEF Stops, Calling, At, Thrown
<1>11. Files'
  BY <1>1, <1>2, <1>3 DEF Files, Calling, Credentials, At, Thrown
<1>12. StartRefusedOnlyByUnsafe'
  BY <1>1, <1>2, <1>3 DEF StartRefusedOnlyByUnsafe, Calling, At, Thrown
<1> QED
  BY <1>5, <1>6, <1>7, <1>8, <1>9, <1>10, <1>11, <1>12, <1>4 DEF EndpointInv

\* The server has stopped, or a connection was left.
LEMMA CheckDrainedKeeps ==
  ASSUME EndpointInv, CheckDrained
  PROVE  EndpointInv'
<1>1. /\ EpTypeOK /\ Calling /\ Running /\ Acceptor /\ Ended /\ Leftover
      /\ Served /\ Stops /\ Files /\ StartRefusedOnlyByUnsafe
  BY DEF EndpointInv
<1>2. /\ ep.at = "stats" /\ ~server.running
      /\ UNCHANGED <<creds, epFaults>>
      /\ UNCHANGED <<server, accepting, serving, conn, pending>>
      /\ replaced' = replaced
  BY <1>1 DEF CheckDrained, threadVars, Running
<1>3. /\ ep' \in EpType /\ ep'.at = "dispatcher" /\ ep'.call = ep.call
      /\ ep'.serverStopped \/ ep'.error
      /\ (ep'.dispatcherStopped <=> ep.dispatcherStopped)
      /\ (ep'.servicesStopped <=> ep.servicesStopped)
      /\ (ep'.opened <=> ep.opened) /\ (ep'.stopped <=> ep.stopped)
      /\ (ep'.hurt <=> ep.hurt) /\ (ep'.reported <=> ep.reported)
  <2> DEFINE d == Drained
             e == ~d
  <2>1. d \in BOOLEAN /\ e \in BOOLEAN /\ (d \/ e)
    BY Zenon DEF Drained
  <2>2. ep' = [ep EXCEPT !.serverStopped = d, !.error = e, !.at = "dispatcher"]
    BY DEF CheckDrained
  <2> HIDE DEF d, e
  <2>3. ep \in EpType
    BY <1>1, EpRecord
  <2>4. ep' \in EpType
    BY <2>1, <2>2, <2>3, Zenon DEF EpType, Steps
  <2>5. /\ ep'.serverStopped = d /\ ep'.error = e /\ ep'.at = "dispatcher"
        /\ ep'.call = ep.call /\ ep'.opened = ep.opened
        /\ ep'.dispatcherStopped = ep.dispatcherStopped
        /\ ep'.servicesStopped = ep.servicesStopped
        /\ ep'.stopped = ep.stopped /\ ep'.hurt = ep.hurt
        /\ ep'.reported = ep.reported
    BY <2>2, <2>3, Zenon DEF EpType
  <2> QED
    BY <2>1, <2>4, <2>5, Zenon
<1>4. Acceptor' /\ Served'
  BY <1>2, MainFrame
<1>5. EpTypeOK'
  BY <1>1, <1>2, <1>3, TypesFromParts, PartsOfTypes DEF CheckDrained
<1>6. Calling'
  BY <1>1, <1>2, <1>3 DEF Calling
<1>7. Running'
  BY <1>1, <1>2, <1>3 DEF Running, Calling
<1>8. Ended'
  BY <1>1, <1>2, <1>3 DEF Ended, Running, Calling, Idle
<1>9. Leftover'
  BY <1>1, <1>2, <1>3 DEF Leftover, Running, Ended, Calling, Idle
<1>10. Stops'
  BY <1>1, <1>2, <1>3 DEF Stops, Calling
<1>11. Files'
  BY <1>1, <1>2, <1>3 DEF Files, Calling, Credentials
<1>12. StartRefusedOnlyByUnsafe'
  BY <1>1, <1>2, <1>3 DEF StartRefusedOnlyByUnsafe, Calling
<1> QED
  BY <1>5, <1>6, <1>7, <1>8, <1>9, <1>10, <1>11, <1>12, <1>4 DEF EndpointInv

\* The dispatcher is shut down, or fails to; the call goes on to the files or
\* ends.
LEMMA StopDispatcherKeeps ==
  ASSUME EndpointInv, StopDispatcher
  PROVE  EndpointInv'
<1>1. /\ EpTypeOK /\ Calling /\ Running /\ Acceptor /\ Ended /\ Leftover
      /\ Served /\ Stops /\ Files /\ StartRefusedOnlyByUnsafe
  BY DEF EndpointInv
<1>2. /\ ep.at = "dispatcher" /\ ep.call \in Stopping /\ ~server.running
      /\ ep.serverStopped \/ ep.error
      /\ UNCHANGED <<creds, accepting, serving, conn, pending>>
      /\ replaced' = replaced
  BY <1>1 DEF StopDispatcher, Calling, Running, Stops
<1>3. /\ server' \in ServerType /\ ~server'.running
      /\ ~server.listening => ~server'.listening
  <2>1. server \in ServerType
    BY <1>1, PartsOfTypes
  <2> QED
    BY <1>2, <2>1 DEF StopDispatcher, NoServer, ServerType
<1>4. /\ ep' \in EpType
      /\ \E e \in EpType :
            /\ e.call = ep.call /\ (e.opened <=> ep.opened)
            /\ (e.serverStopped <=> ep.serverStopped)
            /\ (e.stopped <=> ep.stopped) /\ (e.hurt <=> ep.hurt)
            /\ (e.reported <=> ep.reported)
            /\ e.error \/ (e.dispatcherStopped /\ e.serverStopped)
            /\ Over(e, ep')
  <2> DEFINE d == [ep EXCEPT !.dispatcherStopped = TRUE]
             x == [ep EXCEPT !.error = TRUE]
  <2>1. ep \in EpType
    BY <1>1, EpRecord
  <2>2. d \in EpType /\ x \in EpType
    BY <2>1, Zenon DEF EpType
  <2>3. /\ d.call = ep.call /\ d.opened = ep.opened
        /\ d.serverStopped = ep.serverStopped /\ d.stopped = ep.stopped
        /\ d.hurt = ep.hurt /\ d.reported = ep.reported
        /\ d.error = ep.error /\ d.dispatcherStopped = TRUE
    BY <2>1, Zenon DEF EpType
  <2>4. /\ x.call = ep.call /\ x.opened = ep.opened
        /\ x.serverStopped = ep.serverStopped /\ x.stopped = ep.stopped
        /\ x.hurt = ep.hurt /\ x.reported = ep.reported /\ x.error = TRUE
    BY <2>1, Zenon DEF EpType
  <2>5. ep' = AfterServices(d) \/ ep' = AfterServices(x)
    BY DEF StopDispatcher
  <2> HIDE DEF d, x
  <2>6. CASE ep' = AfterServices(d)
    <3>1. ep' \in EpType /\ Over(d, ep')
      BY <1>2, <2>2, <2>3, <2>6, OverRecord
    <3>2. d.error \/ (d.dispatcherStopped /\ d.serverStopped)
      BY <1>2, <2>3, Zenon
    <3> QED
      BY <2>2, <2>3, <3>1, <3>2, Zenon
  <2>7. CASE ep' = AfterServices(x)
    <3>1. ep' \in EpType /\ Over(x, ep')
      BY <1>2, <2>2, <2>4, <2>7, OverRecord
    <3> QED
      BY <2>2, <2>4, <3>1, Zenon
  <2> QED
    BY <2>5, <2>6, <2>7
<1>5. /\ ep'.opened <=> ep.opened
      /\ \/ /\ ep'.at = "unpublish config" /\ ep'.call = ep.call
            /\ ep.call # "drain"
         \/ /\ ep'.at = "enter"
            /\ ep'.call \in {"drain", "destroy", "apps", "gone"}
  <2>1. PICK e \in EpType : /\ e.call = ep.call /\ (e.opened <=> ep.opened)
                             /\ Over(e, ep')
    BY <1>4, Zenon
  <2>2. ep'.opened <=> ep.opened
    BY <2>1, Zenon DEF Over
  <2>3. CASE ep'.servicesStopped /\ e.opened /\ e.call # "drain"
    BY <2>1, <2>2, <2>3, Zenon DEF Over
  <2>4. CASE ~(ep'.servicesStopped /\ e.opened /\ e.call # "drain")
    <3>1. PICK d \in EpType : d.call = e.call /\ Back(d, ep')
      BY <2>1, <2>4, Zenon DEF Over
    <3> QED
      BY <1>2, <2>1, <2>2, <3>1 DEF Back
  <2> QED
    BY <2>3, <2>4
<1>6. /\ epFaults' \in Nat /\ epFaults' >= epFaults /\ epFaults \in Nat
      /\ EpFault => epFaults' > 0
  BY <1>1, FaultCount, PartsOfTypes DEF StopDispatcher
<1>7. Acceptor' /\ Served'
  BY <1>2, <1>3, MainFrame
<1>8. EpTypeOK'
  BY <1>1, <1>2, <1>3, <1>4, <1>6, TypesFromParts, PartsOfTypes DEF
       StopDispatcher
<1>9. Calling'
  BY <1>1, <1>2, <1>3, <1>4, <1>5, <1>6 DEF Calling
<1>10. Running'
  BY <1>1, <1>2, <1>3, <1>4, <1>5, <1>6 DEF Running, Calling
<1>11. Ended'
  BY <1>1, <1>2, <1>3, <1>4, <1>5, <1>6 DEF Ended, Running, Calling, Idle
<1>12. Leftover'
  BY <1>1, <1>2, <1>3, <1>4, <1>5, <1>6 DEF Leftover, Running, Ended, Calling,
    Idle
<1>13. Stops'
  <2>1. PICK e \in EpType :
           /\ e.call = ep.call /\ (e.opened <=> ep.opened)
           /\ (e.serverStopped <=> ep.serverStopped)
           /\ (e.stopped <=> ep.stopped) /\ (e.hurt <=> ep.hurt)
           /\ (e.reported <=> ep.reported)
           /\ e.error \/ (e.dispatcherStopped /\ e.serverStopped)
           /\ Over(e, ep')
    BY <1>4
  <2>2. CASE ep'.servicesStopped /\ e.opened /\ e.call # "drain"
    BY <1>1, <1>2, <2>1, <2>2 DEF Stops, Over
  <2>3. CASE ~(ep'.servicesStopped /\ e.opened /\ e.call # "drain")
    <3>1. PICK d \in EpType :
                /\ d.call = e.call /\ SameParts(e, d)
                /\ d.servicesStopped <=> ep'.servicesStopped
                /\ (d.stopped <=> e.stopped) /\ (d.error <=> e.error)
                /\ (d.hurt <=> e.hurt) /\ (d.reported <=> e.reported)
                /\ Back(d, ep')
      BY <2>1, <2>3, Zenon DEF Over
    <3>2. /\ SameParts(e, ep')
          /\ ep'.servicesStopped <=> e.serverStopped /\ e.dispatcherStopped
      BY <2>1, Zenon DEF Over
    <3> QED
      BY <1>1, <1>2, <2>1, <2>3, <3>1, <3>2 DEF Stops, Back
  <2> QED
    BY <2>2, <2>3
<1>14. Files'
  BY <1>1, <1>2, <1>3, <1>4, <1>5, <1>6 DEF Files, Calling, Credentials
<1>15. StartRefusedOnlyByUnsafe'
  BY <1>1, <1>2, <1>3, <1>4, <1>5, <1>6 DEF StartRefusedOnlyByUnsafe, Calling
<1> QED
  BY <1>8, <1>9, <1>10, <1>11, <1>12, <1>13, <1>14, <1>15, <1>7 DEF
       EndpointInv

\* The client configuration is removed if it is still the one published.
LEMMA UnpublishConfigKeeps ==
  ASSUME EndpointInv, UnpublishConfig
  PROVE  EndpointInv'
<1>1. /\ EpTypeOK /\ Calling /\ Running /\ Acceptor /\ Ended /\ Leftover
      /\ Served /\ Stops /\ Files /\ StartRefusedOnlyByUnsafe
  BY DEF EndpointInv
<1>2. /\ ep.at = "unpublish config" /\ ep.call \in Stopping /\ ~server.running
      /\ UNCHANGED <<server, accepting, serving, conn, pending>>
      /\ replaced' = replaced
  BY <1>1 DEF UnpublishConfig, threadVars, Calling, Running
<1>3. /\ ep' \in EpType /\ creds' \in [Credentials -> FileKinds]
      /\ ep'.at = "unpublish token" /\ ep'.call = ep.call /\ SameParts(ep, ep')
      /\ (ep'.servicesStopped <=> ep.servicesStopped)
      /\ (ep'.stopped <=> ep.stopped) /\ (ep'.hurt <=> ep.hurt)
      /\ (ep'.reported <=> ep.reported)
      /\ \A f \in Credentials : f # "config" => creds'[f] = creds[f]
      /\ creds'["config"] = "own" => creds["config"] = "own"
      /\ ep'.error \/ creds'["config"] # "own"
  <2>1. ep \in EpType /\ creds \in [Credentials -> FileKinds]
    BY <1>1, PartsOfTypes
  <2>2. PICK r \in Removal("config", creds["config"]) :
           /\ creds' = [creds EXCEPT !["config"] = r[1]]
           /\ ep' = [ep EXCEPT !.error = @ \/ r[2], !.at = "unpublish token"]
    BY DEF UnpublishConfig, Unpublish
  <2>3. /\ r[1] \in FileKinds /\ r[2] \in BOOLEAN
        /\ r[1] = "own" => creds["config"] = "own" /\ r[2] = TRUE
    <3>1. creds["config"] \in FileKinds
      BY <2>1 DEF Credentials
    <3>2. r = <<"none", FALSE>> \/ r = <<creds["config"], TRUE>>
      BY <2>2 DEF Removal
    <3>3. CASE r = <<"none", FALSE>>
      <4>1. r[1] = "none" /\ r[2] = FALSE
        BY <3>3
      <4> QED
        BY <4>1 DEF FileKinds
    <3>4. CASE r = <<creds["config"], TRUE>>
      <4>1. r[1] = creds["config"] /\ r[2] = TRUE
        BY <3>4
      <4> QED
        BY <3>1, <4>1
    <3> QED
      BY <3>2, <3>3, <3>4
  <2> DEFINE b == ep.error \/ r[2]
  <2>4. b \in BOOLEAN /\ (r[2] => b)
    BY <2>1, <2>3, Zenon DEF EpType
  <2>5. ep' = [ep EXCEPT !.error = b, !.at = "unpublish token"]
    BY <2>2, Zenon
  <2> HIDE DEF b
  <2>6. ep' \in EpType
    BY <2>1, <2>4, <2>5, Zenon DEF EpType, Steps
  <2>7. /\ ep'.at = "unpublish token" /\ ep'.error = b /\ ep'.call = ep.call
        /\ ep'.opened = ep.opened /\ ep'.serverStopped = ep.serverStopped
        /\ ep'.dispatcherStopped = ep.dispatcherStopped
        /\ ep'.servicesStopped = ep.servicesStopped
        /\ ep'.stopped = ep.stopped /\ ep'.hurt = ep.hurt
        /\ ep'.reported = ep.reported
    BY <2>1, <2>5, Zenon DEF EpType
  <2>8. SameParts(ep, ep')
    BY <2>7, Zenon
  <2>9. /\ creds' \in [Credentials -> FileKinds] /\ creds'["config"] = r[1]
        /\ \A f \in Credentials : f # "config" => creds'[f] = creds[f]
    BY <2>1, <2>2, <2>3 DEF Credentials
  <2>10. ep'.error \/ creds'["config"] # "own"
    BY <2>3, <2>4, <2>7, <2>9, Zenon
  <2> QED
    BY <2>3, <2>6, <2>7, <2>8, <2>9, <2>10, Zenon
<1>4. /\ epFaults' \in Nat /\ epFaults' >= epFaults /\ epFaults \in Nat
      /\ EpFault => epFaults' > 0
  BY <1>1, FaultCount, PartsOfTypes DEF UnpublishConfig, Unpublish
<1>5. Acceptor' /\ Served'
  BY <1>2, MainFrame
<1>6. EpTypeOK'
  BY <1>1, <1>2, <1>3, <1>4, TypesFromParts, PartsOfTypes DEF UnpublishConfig
<1>7. Calling'
  BY <1>1, <1>2, <1>3, <1>4 DEF Calling
<1>8. Running'
  BY <1>1, <1>2, <1>3, <1>4 DEF Running, Calling
<1>9. Ended'
  BY <1>1, <1>2, <1>3, <1>4 DEF Ended, Running, Calling, Idle
<1>10. Leftover'
  BY <1>1, <1>2, <1>3, <1>4 DEF Leftover, Running, Ended, Calling, Idle
<1>11. Stops'
  BY <1>1, <1>2, <1>3, <1>4 DEF Stops, Calling
<1>12. Files'
  BY <1>1, <1>2, <1>3, <1>4 DEF Files, Calling, Credentials
<1>13. StartRefusedOnlyByUnsafe'
  BY <1>1, <1>2, <1>3, <1>4 DEF StartRefusedOnlyByUnsafe, Calling
<1> QED
  BY <1>6, <1>7, <1>8, <1>9, <1>10, <1>11, <1>12, <1>13, <1>5 DEF EndpointInv

\* The token is removed; if both files went, the directory is closed. The call
\* ends.
LEMMA UnpublishTokenKeeps ==
  ASSUME EndpointInv, UnpublishToken
  PROVE  EndpointInv'
<1>1. /\ EpTypeOK /\ Calling /\ Running /\ Acceptor /\ Ended /\ Leftover
      /\ Served /\ Stops /\ Files /\ StartRefusedOnlyByUnsafe
  BY DEF EndpointInv
<1>2. /\ ep.at = "unpublish token" /\ ep.call \in Stopping /\ ~server.running
      /\ UNCHANGED <<server, accepting, serving, conn, pending>>
      /\ replaced' = replaced
  BY <1>1 DEF UnpublishToken, threadVars, Calling, Running
<1>3. /\ ep' \in EpType /\ creds' \in [Credentials -> FileKinds]
      /\ \A f \in Credentials : f # "token" => creds'[f] = creds[f]
      /\ creds'["token"] = "own" => creds["token"] = "own"
      /\ \E e \in EpType :
            /\ e.call = ep.call /\ (e.serverStopped <=> ep.serverStopped)
            /\ (e.dispatcherStopped <=> ep.dispatcherStopped)
            /\ (e.servicesStopped <=> ep.servicesStopped)
            /\ (e.stopped <=> ep.stopped) /\ (e.hurt <=> ep.hurt)
            /\ (e.reported <=> ep.reported)
            /\ e.error \/ (~e.opened /\ ~ep.error /\ creds'["token"] # "own")
            /\ e.error => (e.opened \/ (~ep.error /\ creds'["token"] # "own"))
            /\ Back(e, ep')
  <2>1. ep \in EpType /\ creds \in [Credentials -> FileKinds]
    BY <1>1, PartsOfTypes
  <2>2. CASE Unpublish("token")
    <3>1. PICK r \in Removal("token", creds["token"]) :
             /\ creds' = [creds EXCEPT !["token"] = r[1]]
             /\ ep' = Returns([ep EXCEPT !.error = @ \/ r[2],
                                         !.opened = ep.error \/ r[2]])
      BY <2>2 DEF Unpublish
    <3>2. /\ r[1] \in FileKinds /\ r[2] \in BOOLEAN
          /\ r[1] = "own" => creds["token"] = "own" /\ r[2] = TRUE
      <4>1. creds["token"] \in FileKinds
        BY <2>1 DEF Credentials
      <4>2. r = <<"none", FALSE>> \/ r = <<creds["token"], TRUE>>
        BY <3>1 DEF Removal
      <4>3. CASE r = <<"none", FALSE>>
        <5>1. r[1] = "none" /\ r[2] = FALSE
          BY <4>3
        <5> QED
          BY <5>1 DEF FileKinds
      <4>4. CASE r = <<creds["token"], TRUE>>
        <5>1. r[1] = creds["token"] /\ r[2] = TRUE
          BY <4>4
        <5> QED
          BY <4>1, <5>1
      <4> QED
        BY <4>2, <4>3, <4>4
    <3> DEFINE b == ep.error \/ r[2]
               e == [ep EXCEPT !.error = b, !.opened = b]
    <3>3. b \in BOOLEAN /\ (b <=> ep.error \/ r[2])
      BY <2>1, <3>2, Zenon DEF EpType
    <3>4. ep' = Returns(e)
      BY <3>1, Zenon
    <3> HIDE DEF b
    <3>5. e \in EpType
      BY <2>1, <3>3, Zenon DEF EpType
    <3>6. /\ e.error = b /\ e.opened = b /\ e.call = ep.call
          /\ e.serverStopped = ep.serverStopped
          /\ e.dispatcherStopped = ep.dispatcherStopped
          /\ e.servicesStopped = ep.servicesStopped
          /\ e.stopped = ep.stopped /\ e.hurt = ep.hurt
          /\ e.reported = ep.reported
      BY <2>1, <3>3, Zenon DEF EpType
    <3> HIDE DEF e
    <3>7. ep' \in EpType /\ Back(e, ep')
      BY <1>2, <3>4, <3>5, <3>6, ReturnsRecord
    <3>8. /\ creds' \in [Credentials -> FileKinds] /\ creds'["token"] = r[1]
          /\ \A f \in Credentials : f # "token" => creds'[f] = creds[f]
      BY <2>1, <3>1, <3>2 DEF Credentials
    <3>9. /\ e.error \/ (~e.opened /\ ~ep.error /\ creds'["token"] # "own")
          /\ e.error => (e.opened \/ (~ep.error /\ creds'["token"] # "own"))
      BY <3>2, <3>3, <3>6, <3>8, Zenon
    <3> QED
      BY <3>2, <3>5, <3>6, <3>7, <3>8, <3>9, Zenon
  <2>3. CASE /\ EpFault /\ ~ep.error /\ creds["token"] \in {"none", "own"}
             /\ creds' = [creds EXCEPT !["token"] = "none"]
             /\ ep' = Returns([ep EXCEPT !.error = TRUE])
    <3> DEFINE e == [ep EXCEPT !.error = TRUE]
    <3>1. e \in EpType
      BY <2>1, Zenon DEF EpType
    <3>2. /\ e.error = TRUE /\ e.opened = ep.opened /\ e.call = ep.call
          /\ e.serverStopped = ep.serverStopped
          /\ e.dispatcherStopped = ep.dispatcherStopped
          /\ e.servicesStopped = ep.servicesStopped
          /\ e.stopped = ep.stopped /\ e.hurt = ep.hurt
          /\ e.reported = ep.reported
      BY <2>1, Zenon DEF EpType
    <3>3. ep' = Returns(e)
      BY <2>3
    <3> HIDE DEF e
    <3>4. ep' \in EpType /\ Back(e, ep')
      BY <1>2, <3>1, <3>2, <3>3, ReturnsRecord
    <3>5. /\ creds' \in [Credentials -> FileKinds] /\ creds'["token"] = "none"
          /\ \A f \in Credentials : f # "token" => creds'[f] = creds[f]
      BY <2>1, <2>3 DEF Credentials, FileKinds
    <3>6. creds'["token"] # "own"
      BY <3>5
    <3> QED
      BY <2>3, <3>1, <3>2, <3>4, <3>5, <3>6, Zenon
  <2> QED
    BY <2>2, <2>3 DEF UnpublishToken
<1>4. /\ epFaults' \in Nat /\ epFaults' >= epFaults /\ epFaults \in Nat
      /\ EpFault => epFaults' > 0
  BY <1>1, FaultCount, PartsOfTypes DEF UnpublishToken, Unpublish
<1>5. Acceptor' /\ Served'
  BY <1>2, MainFrame
<1>6. EpTypeOK'
  BY <1>1, <1>2, <1>3, <1>4, TypesFromParts, PartsOfTypes DEF UnpublishToken
<1>7. Calling'
  BY <1>1, <1>2, <1>3, <1>4 DEF Calling, Back
<1>8. Running'
  BY <1>1, <1>2, <1>3, <1>4 DEF Running, Calling, Back
<1>9. Ended'
  BY <1>1, <1>2, <1>3, <1>4 DEF Ended, Running, Calling, Idle, Back
<1>10. Leftover'
  BY <1>1, <1>2, <1>3, <1>4 DEF Leftover, Running, Ended, Calling, Idle, Back
<1>11. Stops'
  BY <1>1, <1>2, <1>3, <1>4 DEF Stops, Calling, Back
<1>12. Files'
  BY <1>1, <1>2, <1>3, <1>4 DEF Files, Calling, Credentials, Back
<1>13. StartRefusedOnlyByUnsafe'
  BY <1>1, <1>2, <1>3, <1>4 DEF StartRefusedOnlyByUnsafe, Calling, Back
<1> QED
  BY <1>6, <1>7, <1>8, <1>9, <1>10, <1>11, <1>12, <1>13, <1>5 DEF EndpointInv

\* The application behind the endpoint is shut down.
LEMMA ShutdownApplicationKeeps ==
  ASSUME EndpointInv, ShutdownApplication
  PROVE  EndpointInv'
<1>1. /\ EpTypeOK /\ Calling /\ Running /\ Acceptor /\ Ended /\ Leftover
      /\ Served /\ Stops /\ Files /\ StartRefusedOnlyByUnsafe
  BY DEF EndpointInv
<1>2. /\ ep.call = "apps" /\ ep.at = "enter" /\ ~server.running
      /\ UNCHANGED <<creds, epFaults>>
      /\ UNCHANGED <<server, accepting, serving, conn, pending>>
      /\ replaced' = replaced
  BY <1>1 DEF ShutdownApplication, threadVars, Calling, Running
<1>3. /\ ep' \in EpType /\ ep'.call = "stop" /\ ep'.at = "enter"
      /\ SameParts(ep, ep') /\ SameRest(ep, ep')
      /\ (ep'.reported <=> ep.reported)
  <2>1. ep \in EpType
    BY <1>1, EpRecord
  <2>2. ep' = [ep EXCEPT !.call = "stop", !.at = "enter"]
    BY DEF ShutdownApplication, Enters
  <2>3. ep' \in EpType
    BY <2>1, <2>2, Zenon DEF EpType, Calls, Steps
  <2> QED
    BY <2>1, <2>2, <2>3 DEF EpType
<1>4. Acceptor' /\ Served'
  BY <1>2, MainFrame
<1>5. EpTypeOK'
  BY <1>1, <1>2, <1>3, TypesFromParts, PartsOfTypes DEF ShutdownApplication
<1>6. Calling'
  BY <1>1, <1>2, <1>3 DEF Calling
<1>7. Running'
  BY <1>1, <1>2, <1>3 DEF Running, Calling
<1>8. Ended'
  BY <1>1, <1>2, <1>3 DEF Ended, Running, Calling, Idle
<1>9. Leftover'
  BY <1>1, <1>2, <1>3 DEF Leftover, Running, Ended, Calling, Idle
<1>10. Stops'
  BY <1>1, <1>2, <1>3 DEF Stops, Calling
<1>11. Files'
  BY <1>1, <1>2, <1>3 DEF Files, Calling, Credentials
<1>12. StartRefusedOnlyByUnsafe'
  BY <1>1, <1>2, <1>3 DEF StartRefusedOnlyByUnsafe, Calling
<1> QED
  BY <1>5, <1>6, <1>7, <1>8, <1>9, <1>10, <1>11, <1>12, <1>4 DEF EndpointInv

\* The application is left.
LEMMA LeaveApplicationKeeps ==
  ASSUME EndpointInv, LeaveApplication
  PROVE  EndpointInv'
<1>1. /\ EpTypeOK /\ Calling /\ Running /\ Acceptor /\ Ended /\ Leftover
      /\ Served /\ Stops /\ Files /\ StartRefusedOnlyByUnsafe
  BY DEF EndpointInv
<1>2. /\ ep.call = "up" /\ ep.at = "enter" /\ UNCHANGED <<creds, epFaults>>
      /\ UNCHANGED <<server, accepting, serving, conn, pending>>
      /\ replaced' = replaced
  BY <1>1 DEF LeaveApplication, threadVars, Calling
<1>3. /\ ep' \in EpType /\ ep'.call = "drain" /\ ep'.at = "enter"
      /\ SameParts(ep, ep') /\ SameRest(ep, ep')
  <2>1. ep \in EpType
    BY <1>1, EpRecord
  <2>2. PICK b \in BOOLEAN : ep' = [ep EXCEPT !.call = "drain", !.reported = b]
    BY DEF LeaveApplication
  <2>3. ep' \in EpType
    BY <2>1, <2>2, Zenon DEF EpType, Calls
  <2> QED
    BY <1>2, <2>1, <2>2, <2>3 DEF EpType
<1>4. Acceptor' /\ Served'
  BY <1>2, MainFrame
<1>5. EpTypeOK'
  BY <1>1, <1>2, <1>3, TypesFromParts, PartsOfTypes DEF LeaveApplication
<1>6. Calling'
  BY <1>1, <1>2, <1>3 DEF Calling
<1>7. Running'
  BY <1>1, <1>2, <1>3 DEF Running, Calling
<1>8. Ended'
  BY <1>1, <1>2, <1>3 DEF Ended, Running, Calling, Idle
<1>9. Leftover'
  BY <1>1, <1>2, <1>3 DEF Leftover, Running, Ended, Calling, Idle
<1>10. Stops'
  BY <1>1, <1>2, <1>3 DEF Stops, Calling
<1>11. Files'
  BY <1>1, <1>2, <1>3 DEF Files, Calling, Credentials
<1>12. StartRefusedOnlyByUnsafe'
  BY <1>1, <1>2, <1>3 DEF StartRefusedOnlyByUnsafe, Calling
<1> QED
  BY <1>5, <1>6, <1>7, <1>8, <1>9, <1>10, <1>11, <1>12, <1>4 DEF EndpointInv

\* The endpoint object goes with the process.
LEMMA ProcessEndsKeeps ==
  ASSUME EndpointInv, ProcessEnds
  PROVE  EndpointInv'
<1>1. /\ EpTypeOK /\ Calling /\ Running /\ Acceptor /\ Ended /\ Leftover
      /\ Served /\ Stops /\ Files /\ StartRefusedOnlyByUnsafe
  BY DEF EndpointInv
<1>2. /\ ~server'.running /\ ~server'.listening /\ server' \in ServerType
      /\ accepting'.at = "off" /\ accepting' \in AcceptType
      /\ (\A w \in Workers : serving'[w] = "off") /\ serving' \in ServeType
      /\ pending' = <<>> /\ conn' \in ConnType
      /\ \A c \in Connections : conn'[c] \in {"away", "closed"}
      /\ replaced' = replaced
  BY DEF ProcessEnds, Vanish, NoServer, NoAccept, ServerType, AcceptType,
         ServeType, ConnType
<1>3. /\ ep.call = "gone" /\ ep.at = "enter"
      /\ UNCHANGED <<ep, creds, epFaults>>
  BY <1>1 DEF ProcessEnds, Calling
<1>4. EpTypeOK'
  BY <1>1, <1>2, <1>3, EndpointBounds, TypesFromParts, PartsOfTypes DEF
       ProcessEnds
<1>5. Calling'
  BY <1>1, <1>2, <1>3 DEF Calling
<1>6. Running'
  BY <1>1, <1>2, <1>3 DEF Running, Calling
<1>7. Acceptor'
  BY <1>2 DEF Acceptor
<1>8. Ended'
  BY <1>1, <1>2, <1>3 DEF Ended, Running, Calling, Idle
<1>9. Leftover'
  BY <1>2 DEF Leftover
<1>10. Served'
  BY <1>2 DEF Served
<1>11. Stops'
  BY <1>1, <1>2, <1>3 DEF Stops, Calling
<1>12. Files'
  BY <1>1, <1>2, <1>3 DEF Files, Calling, Credentials
<1>13. StartRefusedOnlyByUnsafe'
  BY <1>1, <1>2, <1>3 DEF StartRefusedOnlyByUnsafe, Calling
<1> QED
  BY <1>4, <1>5, <1>6, <1>7, <1>8, <1>9, <1>10, <1>11, <1>12, <1>13 DEF
       EndpointInv

\* The process is killed.
LEMMA KilledKeeps ==
  ASSUME EndpointInv, Killed
  PROVE  EndpointInv'
<1>1. /\ EpTypeOK /\ Calling /\ Running /\ Acceptor /\ Ended /\ Leftover
      /\ Served /\ Stops /\ Files /\ StartRefusedOnlyByUnsafe
  BY DEF EndpointInv
<1>2. /\ ~server'.running /\ ~server'.listening /\ server' \in ServerType
      /\ accepting'.at = "off" /\ accepting' \in AcceptType
      /\ (\A w \in Workers : serving'[w] = "off") /\ serving' \in ServeType
      /\ pending' = <<>> /\ conn' \in ConnType
      /\ \A c \in Connections : conn'[c] \in {"away", "closed"}
      /\ replaced' = replaced
  BY DEF Killed, Vanish, NoServer, NoAccept, ServerType, AcceptType,
         ServeType, ConnType
<1>3. /\ ep' \in EpType /\ ep'.call = "killed" /\ ep'.at = "enter"
      /\ ~ep'.opened /\ ~ep'.serverStopped /\ ~ep'.dispatcherStopped
      /\ ~ep'.servicesStopped /\ ~ep'.stopped
      /\ UNCHANGED <<creds, epFaults>>
  BY DEF Killed, FreshEndpoint, EpType, Calls, Steps
<1>4. EpTypeOK'
  BY <1>1, <1>2, <1>3, EndpointBounds, TypesFromParts, PartsOfTypes DEF Killed
<1>5. Calling'
  BY <1>1, <1>2, <1>3 DEF Calling
<1>6. Running'
  BY <1>1, <1>2, <1>3 DEF Running, Calling
<1>7. Acceptor'
  BY <1>2 DEF Acceptor
<1>8. Ended'
  BY <1>1, <1>2, <1>3 DEF Ended, Running, Calling, Idle
<1>9. Leftover'
  BY <1>2 DEF Leftover
<1>10. Served'
  BY <1>2 DEF Served
<1>11. Stops'
  BY <1>1, <1>2, <1>3 DEF Stops, Calling
<1>12. Files'
  BY <1>1, <1>2, <1>3 DEF Files, Calling, Credentials
<1>13. StartRefusedOnlyByUnsafe'
  BY <1>1, <1>2, <1>3 DEF StartRefusedOnlyByUnsafe, Calling
<1> QED
  BY <1>4, <1>5, <1>6, <1>7, <1>8, <1>9, <1>10, <1>11, <1>12, <1>13 DEF
       EndpointInv

\* Another process starts; what the last one published is old.
LEMMA RelaunchKeeps ==
  ASSUME EndpointInv, Relaunch
  PROVE  EndpointInv'
<1>1. /\ EpTypeOK /\ Calling /\ Running /\ Acceptor /\ Ended /\ Leftover
      /\ Served /\ Stops /\ Files /\ StartRefusedOnlyByUnsafe
  BY DEF EndpointInv
<1>2. /\ ep.call \in {"gone", "killed"} /\ ep.at = "enter" /\ ~server.running
      /\ UNCHANGED <<server, accepting, serving, conn, pending>>
      /\ replaced' = replaced
  BY <1>1 DEF Relaunch, threadVars, Calling, Running
<1>3. /\ ep' \in EpType /\ ep'.call = "start" /\ ep'.at = "enter"
      /\ ~ep'.opened /\ ~ep'.serverStopped /\ ~ep'.dispatcherStopped
      /\ ~ep'.servicesStopped /\ ~ep'.stopped
      /\ epFaults' = 0 /\ launches' = launches + 1 /\ replaced' = replaced
  BY DEF Relaunch, FreshEndpoint, EpType, Calls, Steps
<1>4. /\ creds' \in [Credentials -> FileKinds]
      /\ \A f \in Credentials : creds'[f] # "own"
  BY <1>1, PartsOfTypes DEF Relaunch, FileKinds
<1>5. Acceptor' /\ Served'
  BY <1>2, MainFrame
<1>6. EpTypeOK'
  BY <1>1, <1>2, <1>3, <1>4, TypesFromParts, PartsOfTypes
<1>7. Calling'
  BY <1>1, <1>2, <1>3, <1>4 DEF Calling
<1>8. Running'
  BY <1>1, <1>2, <1>3, <1>4 DEF Running, Calling
<1>9. Ended'
  BY <1>1, <1>2, <1>3, <1>4 DEF Ended, Running, Calling, Idle
<1>10. Leftover'
  BY <1>1, <1>2, <1>3, <1>4 DEF Leftover, Running, Ended, Calling, Idle
<1>11. Stops'
  BY <1>1, <1>2, <1>3, <1>4 DEF Stops, Calling
<1>12. Files'
  BY <1>1, <1>2, <1>3, <1>4 DEF Files, Calling, Credentials
<1>13. StartRefusedOnlyByUnsafe'
  BY <1>1, <1>2, <1>3, <1>4 DEF StartRefusedOnlyByUnsafe, Calling
<1> QED
  BY <1>6, <1>7, <1>8, <1>9, <1>10, <1>11, <1>12, <1>13, <1>5 DEF EndpointInv

\* Somebody else replaces a published file.
LEMMA ReplaceFileKeeps ==
  ASSUME EndpointInv, ReplaceFile
  PROVE  EndpointInv'
<1>1. /\ EpTypeOK /\ Calling /\ Running /\ Acceptor /\ Ended /\ Leftover
      /\ Served /\ Stops /\ Files /\ StartRefusedOnlyByUnsafe
  BY DEF EndpointInv
<1>2. /\ UNCHANGED <<ep, epFaults, launches>> /\ replaced' = replaced + 1
      /\ UNCHANGED <<server, accepting, serving, conn, pending>>
      /\ replaced \in Nat /\ replaced' > 0
  BY <1>1, PartsOfTypes DEF ReplaceFile, threadVars
<1>3. /\ creds' \in [Credentials -> FileKinds]
      /\ \A f \in Credentials : creds'[f] # creds[f] =>
            creds[f] = "own" /\ creds'[f] # "own" /\ f # "temporary"
  <2>1. creds \in [Credentials -> FileKinds]
    BY <1>1, PartsOfTypes
  <2> QED
    BY <2>1 DEF ReplaceFile, FileKinds, Credentials
<1>4. Acceptor' /\ Served'
  BY <1>2, MainFrame
<1>5. EpTypeOK'
  BY <1>1, <1>2, <1>3, TypesFromParts, PartsOfTypes
<1>6. Calling'
  BY <1>1, <1>2, <1>3 DEF Calling
<1>7. Running'
  BY <1>1, <1>2, <1>3 DEF Running, Calling
<1>8. Ended'
  BY <1>1, <1>2, <1>3 DEF Ended, Running, Calling, Idle
<1>9. Leftover'
  BY <1>1, <1>2, <1>3 DEF Leftover, Running, Ended, Calling, Idle
<1>10. Stops'
  BY <1>1, <1>2, <1>3 DEF Stops, Calling
<1>11. Files'
  BY <1>1, <1>2, <1>3 DEF Files, Calling, Credentials
<1>12. StartRefusedOnlyByUnsafe'
  BY <1>1, <1>2, <1>3 DEF StartRefusedOnlyByUnsafe, Calling
<1> QED
  BY <1>5, <1>6, <1>7, <1>8, <1>9, <1>10, <1>11, <1>12, <1>4 DEF EndpointInv

-----------------------------------------------------------------------------
(* The accept thread, the workers and the clients.                         *)

\* The accept thread sees whether the server still runs.
LEMMA AcceptCheckKeeps ==
  ASSUME EndpointInv, AcceptCheck
  PROVE  EndpointInv'
<1>1. /\ EpTypeOK /\ Calling /\ Running /\ Acceptor /\ Ended /\ Leftover
      /\ Served /\ Stops /\ Files /\ StartRefusedOnlyByUnsafe
  BY DEF EndpointInv
<1>2. UNCHANGED <<ep, creds, epFaults, launches, replaced>>
  BY DEF AcceptCheck, AcceptUnchanged
<1>3. Calling' /\ Stops' /\ Files' /\ StartRefusedOnlyByUnsafe'
  BY <1>2, ThreadFrame
<1>4. /\ accepting.at = "check" /\ UNCHANGED <<server, serving, conn, pending>>
      /\ accepting' \in AcceptType
      /\ accepting'.at = IF server.running THEN "accept" ELSE "off"
  BY <1>1, PartsOfTypes DEF AcceptCheck, AcceptUnchanged, AcceptType
<1>5. EpTypeOK'
  BY <1>1, <1>2, <1>4, ThreadTypes, PartsOfTypes
<1>6. Running'
  BY <1>1, <1>2, <1>4 DEF Running, Calling
<1>7. Acceptor'
  BY <1>1, <1>2, <1>4 DEF Acceptor
<1>8. Ended'
  BY <1>1, <1>2, <1>4 DEF Ended, Running, Calling, Idle
<1>9. Leftover'
  BY <1>1, <1>2, <1>4 DEF Leftover, Running, Ended, Calling, Idle
<1>10. Served'
  BY <1>1, <1>2, <1>4 DEF Served
<1> QED
  BY <1>5, <1>6, <1>7, <1>8, <1>9, <1>10, <1>3 DEF EndpointInv

\* A connection is accepted, or our own wakes the accept thread up.
LEMMA AcceptKeeps ==
  ASSUME EndpointInv, Accept
  PROVE  EndpointInv'
<1>1. /\ EpTypeOK /\ Calling /\ Running /\ Acceptor /\ Ended /\ Leftover
      /\ Served /\ Stops /\ Files /\ StartRefusedOnlyByUnsafe
  BY DEF EndpointInv
<1>2. UNCHANGED <<ep, creds, epFaults, launches, replaced>>
  BY DEF Accept, AcceptUnchanged
<1>3. Calling' /\ Stops' /\ Files' /\ StartRefusedOnlyByUnsafe'
  BY <1>2, ThreadFrame
<1>4. /\ accepting.at = "accept" /\ UNCHANGED <<serving, pending>>
      /\ accepting' \in AcceptType /\ accepting'.at = "recheck"
      /\ server' \in ServerType /\ server'.running = server.running
      /\ server'.made = server.made /\ server'.listening = server.listening
      /\ server'.wake => server.wake
      /\ conn' \in ConnType
      /\ \A c \in Connections : conn'[c] \in {conn[c], "held"}
      /\ accepting'.conn = "none" => ~server.running
  <2>1. /\ accepting \in AcceptType /\ server \in ServerType
        /\ conn \in ConnType
    BY <1>1, PartsOfTypes
  <2>2. CASE \E c \in Connections :
              /\ conn[c] = "backlog"
              /\ conn' = [conn EXCEPT ![c] = "held"]
              /\ accepting' = [at |-> "recheck", conn |-> c]
              /\ UNCHANGED server
    <3>1. PICK c \in Connections :
              /\ conn' = [conn EXCEPT ![c] = "held"]
              /\ accepting' = [at |-> "recheck", conn |-> c]
              /\ UNCHANGED server
      BY <2>2
    <3>2. accepting' \in AcceptType /\ accepting'.at = "recheck"
          /\ accepting'.conn # "none"
      BY <3>1, EndpointBounds DEF AcceptType
    <3>3. /\ conn' \in ConnType
          /\ \A x \in Connections : conn'[x] \in {conn[x], "held"}
      BY <2>1, <3>1 DEF ConnType
    <3> QED
      BY <2>1, <3>1, <3>2, <3>3 DEF Accept, AcceptUnchanged
  <2>3. CASE /\ server.wake /\ server' = [server EXCEPT !.wake = FALSE]
             /\ accepting' = [accepting EXCEPT !.at = "recheck"]
             /\ UNCHANGED conn
    <3>1. ~server.running
      BY <1>1, <2>3 DEF Running
    <3>2. accepting' \in AcceptType /\ accepting'.at = "recheck"
      BY <2>1, <2>3 DEF AcceptType
    <3>3. /\ server' \in ServerType /\ server'.running = server.running
          /\ server'.made = server.made
          /\ server'.listening = server.listening /\ ~server'.wake
      BY <2>1, <2>3 DEF ServerType
    <3> QED
      BY <2>1, <2>3, <3>1, <3>2, <3>3 DEF Accept, AcceptUnchanged
  <2> QED
    BY <2>2, <2>3 DEF Accept
<1>5. EpTypeOK'
  BY <1>1, <1>2, <1>4, ThreadTypes, PartsOfTypes
<1>6. Running'
  BY <1>1, <1>2, <1>4 DEF Running, Calling
<1>7. Acceptor'
  BY <1>1, <1>2, <1>4 DEF Acceptor
<1>8. Ended'
  BY <1>1, <1>2, <1>4 DEF Ended, Running, Calling, Idle
<1>9. Leftover'
  BY <1>1, <1>2, <1>4 DEF Leftover, Running, Ended, Calling, Idle
<1>10. Served'
  BY <1>1, <1>2, <1>4 DEF Served
<1> QED
  BY <1>5, <1>6, <1>7, <1>8, <1>9, <1>10, <1>3 DEF EndpointInv

\* The socket is kept only if the server still runs.
LEMMA AcceptRecheckKeeps ==
  ASSUME EndpointInv, AcceptRecheck
  PROVE  EndpointInv'
<1>1. /\ EpTypeOK /\ Calling /\ Running /\ Acceptor /\ Ended /\ Leftover
      /\ Served /\ Stops /\ Files /\ StartRefusedOnlyByUnsafe
  BY DEF EndpointInv
<1>2. UNCHANGED <<ep, creds, epFaults, launches, replaced>>
  BY DEF AcceptRecheck, AcceptUnchanged
<1>3. Calling' /\ Stops' /\ Files' /\ StartRefusedOnlyByUnsafe'
  BY <1>2, ThreadFrame
<1>4. /\ accepting.at = "recheck" /\ UNCHANGED <<server, serving, pending>>
      /\ accepting' \in AcceptType
      /\ accepting'.at = IF server.running THEN "push" ELSE "off"
      /\ server.running => accepting'.conn = accepting.conn
      /\ conn' \in ConnType
      /\ \A c \in Connections : conn'[c] \in {conn[c], "closed"}
  <2>1. accepting \in AcceptType /\ conn \in ConnType
    BY <1>1, PartsOfTypes
  <2>2. CASE server.running
    BY <2>1, <2>2 DEF AcceptRecheck, AcceptUnchanged, AcceptType
  <2>3. CASE ~server.running
    BY <2>1, <2>3
       DEF AcceptRecheck, AcceptUnchanged, AcceptType, NoAccept, ConnType
  <2> QED
    BY <2>2, <2>3
<1>5. EpTypeOK'
  BY <1>1, <1>2, <1>4, ThreadTypes, PartsOfTypes
<1>6. Running'
  BY <1>1, <1>2, <1>4 DEF Running, Calling
<1>7. Acceptor'
  BY <1>1, <1>2, <1>4 DEF Acceptor
<1>8. Ended'
  BY <1>1, <1>2, <1>4 DEF Ended, Running, Calling, Idle
<1>9. Leftover'
  BY <1>1, <1>2, <1>4 DEF Leftover, Running, Ended, Calling, Idle
<1>10. Served'
  BY <1>1, <1>2, <1>4 DEF Served
<1> QED
  BY <1>5, <1>6, <1>7, <1>8, <1>9, <1>10, <1>3 DEF EndpointInv

\* The connection is queued if there is room for it.
LEMMA PushConnectionKeeps ==
  ASSUME EndpointInv, PushConnection
  PROVE  EndpointInv'
<1>1. /\ EpTypeOK /\ Calling /\ Running /\ Acceptor /\ Ended /\ Leftover
      /\ Served /\ Stops /\ Files /\ StartRefusedOnlyByUnsafe
  BY DEF EndpointInv
<1>2. UNCHANGED <<ep, creds, epFaults, launches, replaced>>
  BY DEF PushConnection, AcceptUnchanged
<1>3. Calling' /\ Stops' /\ Files' /\ StartRefusedOnlyByUnsafe'
  BY <1>2, ThreadFrame
<1>4. /\ accepting.at = "push" /\ UNCHANGED <<server, serving>>
      /\ accepting' \in AcceptType
      /\ pending \in Seq(Connections) /\ pending' \in Seq(Connections)
      /\ Len(pending') <= QueueCapacity
      /\ Len(pending') <= Len(pending) + 1
      /\ \/ accepting'.at = "check"
         \/ accepting'.at = "reject" /\ accepting'.conn = accepting.conn
      /\ conn' \in ConnType
      /\ \A c \in Connections : conn'[c] \in {conn[c], "queued"}
  <2>1. /\ accepting \in AcceptType /\ conn \in ConnType
        /\ pending \in Seq(Connections) /\ Len(pending) <= QueueCapacity
    BY <1>1, PartsOfTypes
  <2>2. accepting.at = "push" /\ UNCHANGED <<server, serving>>
    BY DEF PushConnection, AcceptUnchanged
  <2>3. accepting.conn \in Connections
    BY <1>1, <2>1, <2>2 DEF Acceptor, AcceptType
  <2>4. CASE Len(pending) < QueueCapacity
    <3>1. /\ conn' = [conn EXCEPT ![accepting.conn] = "queued"]
          /\ pending' = Append(pending, accepting.conn)
          /\ accepting' = [at |-> "check", conn |-> "none"]
      BY <2>4 DEF PushConnection
    <3>2. accepting' \in AcceptType /\ accepting'.at = "check"
      BY <3>1 DEF AcceptType
    <3>3. /\ conn' \in ConnType
          /\ \A c \in Connections : conn'[c] \in {conn[c], "queued"}
      BY <2>1, <3>1 DEF ConnType
    <3>4. pending' \in Seq(Connections) /\ Len(pending') = Len(pending) + 1
      BY <2>1, <2>3, <3>1
    <3>5. Len(pending') <= QueueCapacity
      BY <2>1, <2>4, <3>4, EndpointBounds
    <3> QED
      BY <2>1, <2>2, <3>2, <3>3, <3>4, <3>5
  <2>5. CASE ~(Len(pending) < QueueCapacity)
    <3>1. /\ accepting' = [accepting EXCEPT !.at = "reject"]
          /\ UNCHANGED <<conn, pending>>
      BY <2>5 DEF PushConnection
    <3>2. /\ accepting' \in AcceptType /\ accepting'.at = "reject"
          /\ accepting'.conn = accepting.conn
      BY <2>1, <3>1 DEF AcceptType
    <3> QED
      BY <2>1, <2>2, <3>1, <3>2
  <2> QED
    BY <2>4, <2>5
<1>5. EpTypeOK'
  BY <1>1, <1>2, <1>4, ThreadTypes, PartsOfTypes
<1>6. Running'
  BY <1>1, <1>2, <1>4 DEF Running, Calling
<1>7. Acceptor'
  BY <1>1, <1>2, <1>4 DEF Acceptor
<1>8. Ended'
  BY <1>1, <1>2, <1>4 DEF Ended, Running, Calling, Idle
<1>9. Leftover'
  BY <1>1, <1>2, <1>4 DEF Leftover
<1>10. Served'
  BY <1>1, <1>2, <1>4 DEF Served
<1> QED
  BY <1>5, <1>6, <1>7, <1>8, <1>9, <1>10, <1>3 DEF EndpointInv

\* The connection is answered and closed.
LEMMA RejectOverloadKeeps ==
  ASSUME EndpointInv, RejectOverload
  PROVE  EndpointInv'
<1>1. /\ EpTypeOK /\ Calling /\ Running /\ Acceptor /\ Ended /\ Leftover
      /\ Served /\ Stops /\ Files /\ StartRefusedOnlyByUnsafe
  BY DEF EndpointInv
<1>2. UNCHANGED <<ep, creds, epFaults, launches, replaced>>
  BY DEF RejectOverload, AcceptUnchanged
<1>3. Calling' /\ Stops' /\ Files' /\ StartRefusedOnlyByUnsafe'
  BY <1>2, ThreadFrame
<1>4. /\ accepting.at = "reject" /\ UNCHANGED <<server, serving, pending>>
      /\ accepting' \in AcceptType /\ accepting'.at = "check"
      /\ conn' \in ConnType
      /\ \A c \in Connections : conn'[c] \in {conn[c], "closed"}
  <2>1. conn \in ConnType
    BY <1>1, PartsOfTypes
  <2> QED
    BY <2>1 DEF RejectOverload, AcceptUnchanged, AcceptType, ConnType
<1>5. EpTypeOK'
  BY <1>1, <1>2, <1>4, ThreadTypes, PartsOfTypes
<1>6. Running'
  BY <1>1, <1>2, <1>4 DEF Running, Calling
<1>7. Acceptor'
  BY <1>1, <1>2, <1>4 DEF Acceptor
<1>8. Ended'
  BY <1>1, <1>2, <1>4 DEF Ended, Running, Calling, Idle
<1>9. Leftover'
  BY <1>1, <1>2, <1>4 DEF Leftover, Running, Ended, Calling, Idle
<1>10. Served'
  BY <1>1, <1>2, <1>4 DEF Served
<1> QED
  BY <1>5, <1>6, <1>7, <1>8, <1>9, <1>10, <1>3 DEF EndpointInv

\* A worker takes a connection or ends.
LEMMA PopConnectionKeeps ==
  ASSUME NEW w \in Workers, EndpointInv, PopConnection(w)
  PROVE  EndpointInv'
<1>1. /\ EpTypeOK /\ Calling /\ Running /\ Acceptor /\ Ended /\ Leftover
      /\ Served /\ Stops /\ Files /\ StartRefusedOnlyByUnsafe
  BY DEF EndpointInv
<1>2. UNCHANGED <<ep, creds, epFaults, launches, replaced>>
  BY DEF PopConnection, WorkerUnchanged
<1>3. Calling' /\ Stops' /\ Files' /\ StartRefusedOnlyByUnsafe'
  BY <1>2, ThreadFrame
<1>4. /\ serving[w] = "idle" /\ UNCHANGED <<server, accepting>>
      /\ \/ /\ pending # <<>> /\ pending' = Tail(pending)
            /\ serving' = [serving EXCEPT ![w] = Head(pending)]
            /\ conn' = [conn EXCEPT ![Head(pending)] = "active"]
         \/ /\ serving' = [serving EXCEPT ![w] = "off"]
            /\ UNCHANGED <<conn, pending>>
  BY DEF PopConnection, WorkerTakes, WorkerUnchanged
<1>5. /\ serving \in ServeType /\ conn \in ConnType
      /\ pending \in Seq(Connections) /\ Len(pending) <= QueueCapacity
      /\ serving' \in ServeType /\ conn' \in ConnType
      /\ pending' \in Seq(Connections) /\ Len(pending') <= Len(pending)
      /\ Len(pending') <= QueueCapacity
      /\ pending = <<>> => pending' = <<>>
  <2>1. /\ serving \in ServeType /\ conn \in ConnType
        /\ pending \in Seq(Connections) /\ Len(pending) <= QueueCapacity
    BY <1>1, PartsOfTypes
  <2>2. CASE /\ pending # <<>> /\ pending' = Tail(pending)
             /\ serving' = [serving EXCEPT ![w] = Head(pending)]
             /\ conn' = [conn EXCEPT ![Head(pending)] = "active"]
    <3>1. /\ Head(pending) \in Connections /\ pending' \in Seq(Connections)
          /\ Len(pending') = Len(pending) - 1 /\ Len(pending) \in Nat
      BY <2>1, <2>2
    <3>2. serving' \in ServeType /\ conn' \in ConnType
      BY <2>1, <2>2, <3>1 DEF ServeType, ConnType
    <3> QED
      BY <2>1, <2>2, <3>1, <3>2, EndpointBounds
  <2>3. CASE /\ serving' = [serving EXCEPT ![w] = "off"]
             /\ UNCHANGED <<conn, pending>>
    <3>1. serving' \in ServeType
      BY <2>1, <2>3 DEF ServeType
    <3> QED
      BY <2>1, <2>3, <3>1
  <2> QED
    BY <1>4, <2>2, <2>3
<1>6. ~Idle
  BY <1>4 DEF Idle
<1>7. EpTypeOK'
  BY <1>1, <1>2, <1>4, <1>5, <1>6, ThreadTypes, PartsOfTypes
<1>8. Running'
  BY <1>1, <1>2, <1>4, <1>5, <1>6 DEF Running, Calling
<1>9. Acceptor'
  BY <1>1, <1>2, <1>4, <1>5, <1>6 DEF Acceptor
<1>10. Ended'
  BY <1>1, <1>2, <1>4, <1>6 DEF Ended
<1>11. Leftover'
  BY <1>1, <1>2, <1>4, <1>5 DEF Leftover
<1>12. Served'
  <2> SUFFICES ASSUME NEW c \in Connections, conn'[c] \in {"active", "handled"}
               PROVE  \E x \in Workers : serving'[x] = c
    BY DEF Served
  <2>1. CASE pending # <<>> /\ c = Head(pending) /\ serving'[w] = c
    BY <2>1
  <2>2. CASE conn[c] \in {"active", "handled"}
    <3>1. PICK x \in Workers : serving[x] = c
      BY <1>1, <2>2 DEF Served
    <3>2. x # w
      BY <1>4, <3>1, EndpointBounds
    <3> QED
      BY <1>4, <1>5, <3>1, <3>2 DEF ServeType
  <2> QED
    BY <1>4, <1>5, <2>1, <2>2 DEF ConnType, ServeType
<1> QED
  BY <1>7, <1>8, <1>9, <1>10, <1>11, <1>12, <1>3 DEF EndpointInv

\* A request is read, or its connection closed.
LEMMA ReadRequestKeeps ==
  ASSUME NEW w \in Workers, EndpointInv, ReadRequest(w)
  PROVE  EndpointInv'
<1>1. /\ EpTypeOK /\ Calling /\ Running /\ Acceptor /\ Ended /\ Leftover
      /\ Served /\ Stops /\ Files /\ StartRefusedOnlyByUnsafe
  BY DEF EndpointInv
<1>2. UNCHANGED <<ep, creds, epFaults, launches, replaced>>
  BY DEF ReadRequest, WorkerUnchanged
<1>3. Calling' /\ Stops' /\ Files' /\ StartRefusedOnlyByUnsafe'
  BY <1>2, ThreadFrame
<1>4. /\ serving[w] \in Connections
      /\ UNCHANGED <<server, accepting, pending>>
      /\ \/ /\ conn' = [conn EXCEPT ![serving[w]] = "handled"]
            /\ UNCHANGED serving
         \/ /\ conn' = [conn EXCEPT ![serving[w]] = "closed"]
            /\ serving' = [serving EXCEPT ![w] = "idle"]
  BY DEF ReadRequest, WorkerUnchanged
<1>5. /\ serving \in ServeType /\ conn \in ConnType
      /\ serving' \in ServeType /\ conn' \in ConnType
  <2>1. serving \in ServeType /\ conn \in ConnType
    BY <1>1, PartsOfTypes
  <2> QED
    BY <1>4, <2>1 DEF ServeType, ConnType
<1>6. ~Idle
  BY <1>4, EndpointBounds DEF Idle
<1>7. EpTypeOK'
  BY <1>1, <1>2, <1>4, <1>5, <1>6, ThreadTypes, PartsOfTypes
<1>8. Running'
  BY <1>1, <1>2, <1>4, <1>5, <1>6 DEF Running, Calling
<1>9. Acceptor'
  BY <1>1, <1>2, <1>4, <1>5, <1>6 DEF Acceptor
<1>10. Ended'
  BY <1>1, <1>2, <1>4, <1>6 DEF Ended
<1>11. Leftover'
  BY <1>1, <1>2, <1>4, <1>5 DEF Leftover
<1>12. Served'
  <2> SUFFICES ASSUME NEW c \in Connections, conn'[c] \in {"active", "handled"}
               PROVE  \E x \in Workers : serving'[x] = c
    BY DEF Served
  <2>1. CASE c # serving[w]
    <3>1. conn'[c] = conn[c]
      BY <1>4, <1>5, <2>1 DEF ConnType
    <3>2. PICK x \in Workers : serving[x] = c
      BY <1>1, <3>1 DEF Served
    <3>3. x # w
      BY <2>1, <3>2
    <3> QED
      BY <1>4, <1>5, <3>2, <3>3 DEF ServeType
  <2>2. CASE c = serving[w] /\ conn'[c] = "closed"
    BY <2>2
  <2>3. CASE c = serving[w] /\ serving' = serving
    BY <2>3
  <2> QED
    BY <1>4, <1>5, <2>1, <2>2, <2>3 DEF ConnType
<1> QED
  BY <1>7, <1>8, <1>9, <1>10, <1>11, <1>12, <1>3 DEF EndpointInv

\* A request is answered.
LEMMA FinishRequestKeeps ==
  ASSUME NEW w \in Workers, EndpointInv, FinishRequest(w)
  PROVE  EndpointInv'
<1>1. /\ EpTypeOK /\ Calling /\ Running /\ Acceptor /\ Ended /\ Leftover
      /\ Served /\ Stops /\ Files /\ StartRefusedOnlyByUnsafe
  BY DEF EndpointInv
<1>2. UNCHANGED <<ep, creds, epFaults, launches, replaced>>
  BY DEF FinishRequest, WorkerUnchanged
<1>3. Calling' /\ Stops' /\ Files' /\ StartRefusedOnlyByUnsafe'
  BY <1>2, ThreadFrame
<1>4. /\ serving[w] \in Connections
      /\ UNCHANGED <<server, accepting, pending>>
      /\ conn' = [conn EXCEPT ![serving[w]] = "closed"]
      /\ serving' = [serving EXCEPT ![w] = "idle"]
  BY DEF FinishRequest, WorkerUnchanged
<1>5. /\ serving \in ServeType /\ conn \in ConnType
      /\ serving' \in ServeType /\ conn' \in ConnType
  <2>1. serving \in ServeType /\ conn \in ConnType
    BY <1>1, PartsOfTypes
  <2> QED
    BY <1>4, <2>1 DEF ServeType, ConnType
<1>6. ~Idle
  BY <1>4, EndpointBounds DEF Idle
<1>7. EpTypeOK'
  BY <1>1, <1>2, <1>4, <1>5, <1>6, ThreadTypes, PartsOfTypes
<1>8. Running'
  BY <1>1, <1>2, <1>4, <1>5, <1>6 DEF Running, Calling
<1>9. Acceptor'
  BY <1>1, <1>2, <1>4, <1>5, <1>6 DEF Acceptor
<1>10. Ended'
  BY <1>1, <1>2, <1>4, <1>6 DEF Ended
<1>11. Leftover'
  BY <1>1, <1>2, <1>4, <1>5 DEF Leftover
<1>12. Served'
  <2> SUFFICES ASSUME NEW c \in Connections, conn'[c] \in {"active", "handled"}
               PROVE  \E x \in Workers : serving'[x] = c
    BY DEF Served
  <2>1. CASE c # serving[w]
    <3>1. conn'[c] = conn[c]
      BY <1>4, <1>5, <2>1 DEF ConnType
    <3>2. PICK x \in Workers : serving[x] = c
      BY <1>1, <3>1 DEF Served
    <3>3. x # w
      BY <2>1, <3>2
    <3> QED
      BY <1>4, <1>5, <3>2, <3>3 DEF ServeType
  <2>2. CASE c = serving[w] /\ conn'[c] = "closed"
    BY <2>2
  <2> QED
    BY <1>4, <1>5, <2>1, <2>2 DEF ConnType
<1> QED
  BY <1>7, <1>8, <1>9, <1>10, <1>11, <1>12, <1>3 DEF EndpointInv

\* A client connects.
LEMMA ConnectKeeps ==
  ASSUME NEW c \in Connections, EndpointInv, Connect(c)
  PROVE  EndpointInv'
<1>1. /\ EpTypeOK /\ Calling /\ Running /\ Acceptor /\ Ended /\ Leftover
      /\ Served /\ Stops /\ Files /\ StartRefusedOnlyByUnsafe
  BY DEF EndpointInv
<1>2. UNCHANGED <<ep, creds, epFaults, launches, replaced>>
  BY DEF Connect
<1>3. Calling' /\ Stops' /\ Files' /\ StartRefusedOnlyByUnsafe'
  BY <1>2, ThreadFrame
<1>4. /\ UNCHANGED <<server, accepting, serving, pending>>
      /\ conn' \in ConnType
      /\ \A x \in Connections : conn'[x] \in {conn[x], "backlog"}
  <2>1. conn \in ConnType
    BY <1>1, PartsOfTypes
  <2> QED
    BY <2>1 DEF Connect, ConnType
<1>5. EpTypeOK'
  BY <1>1, <1>2, <1>4, ThreadTypes, PartsOfTypes
<1>6. Running'
  BY <1>1, <1>2, <1>4 DEF Running, Calling
<1>7. Acceptor'
  BY <1>1, <1>2, <1>4 DEF Acceptor
<1>8. Ended'
  BY <1>1, <1>2, <1>4 DEF Ended, Running, Calling, Idle
<1>9. Leftover'
  BY <1>1, <1>2, <1>4 DEF Leftover, Running, Ended, Calling, Idle
<1>10. Served'
  BY <1>1, <1>2, <1>4 DEF Served
<1> QED
  BY <1>5, <1>6, <1>7, <1>8, <1>9, <1>10, <1>3 DEF EndpointInv

-----------------------------------------------------------------------------
(* The theorems.                                                           *)

\* The invariant holds initially.
LEMMA EndpointStarts == EndpointInit => EndpointInv
<1> SUFFICES ASSUME EndpointInit PROVE EndpointInv
  OBVIOUS
<1>1. /\ ep \in EpType /\ ep.call = "start" /\ ep.at = "enter" /\ ~ep.opened
      /\ ~ep.serverStopped /\ ~ep.dispatcherStopped
      /\ ~ep.servicesStopped /\ ~ep.stopped
  BY DEF EndpointInit, FreshEndpoint, EpType, Calls, Steps
<1>2. /\ server \in ServerType /\ ~server.running /\ ~server.listening
      /\ accepting \in AcceptType /\ accepting.at = "off"
  BY DEF EndpointInit, NoServer, NoAccept, ServerType, AcceptType
<1>3. /\ serving \in ServeType /\ conn \in ConnType /\ Idle
      /\ \A c \in Connections : conn[c] = "away"
      /\ pending = <<>> /\ pending \in Seq(Connections) /\ Len(pending) = 0
      /\ epFaults \in Nat /\ launches \in Nat /\ replaced \in Nat
  BY DEF EndpointInit, ServeType, ConnType, Idle
<1>4. /\ creds \in [Credentials -> FileKinds]
      /\ \A f \in Credentials : creds[f] # "own"
  BY DEF EndpointInit, FileKinds
<1>5. EpTypeOK
  BY <1>1, <1>2, <1>3, <1>4, EndpointBounds
     DEF EpTypeOK, EpType, ServerType, AcceptType, ServeType, ConnType
<1>6. Calling /\ Running /\ Stops
  BY <1>1, <1>2 DEF Calling, Running, Stops
<1>7. Acceptor /\ Ended /\ Leftover /\ Served
  BY <1>1, <1>2, <1>3 DEF Acceptor, Ended, Leftover, Served
<1>8. Files /\ StartRefusedOnlyByUnsafe
  BY <1>1, <1>4 DEF Files, StartRefusedOnlyByUnsafe, Credentials
<1> QED
  BY <1>5, <1>6, <1>7, <1>8 DEF EndpointInv

\* Every step keeps the invariant.
LEMMA EndpointStep ==
  ASSUME EndpointInv, [EndpointNext]_endpointVars
  PROVE  EndpointInv'
<1>1. CASE StartSteps
  BY <1>1, OpenDirectoryKeeps, RemoveStaleKeeps, ListenKeeps,
     StartThreadsKeeps, WriteTokenKeeps, NameTokenKeeps, WriteConfigKeeps,
     NameConfigKeeps, CheckFileKeeps, VerifyDirectoryKeeps
     DEF StartSteps, CheckToken, CheckConfig
<1>2. CASE StopSteps
  BY <1>2, BeginStopKeeps, ClearQueueKeeps, WakeAcceptorKeeps,
     JoinAcceptKeeps, JoinWorkersKeeps, CheckDrainedKeeps,
     StopDispatcherKeeps, UnpublishConfigKeeps, UnpublishTokenKeeps,
     ShutdownApplicationKeeps, ProcessEndsKeeps DEF StopSteps
<1>3. CASE AcceptThread
  BY <1>3, AcceptCheckKeeps, AcceptKeeps, AcceptRecheckKeeps,
     PushConnectionKeeps, RejectOverloadKeeps DEF AcceptThread
<1>4. ASSUME NEW w \in Workers, WorkerThread(w) PROVE EndpointInv'
  BY <1>4, PopConnectionKeeps, ReadRequestKeeps, FinishRequestKeeps
     DEF WorkerThread
<1>5. ASSUME NEW c \in Connections, Connect(c) PROVE EndpointInv'
  BY <1>5, ConnectKeeps
<1>6. CASE LeaveApplication \/ Killed \/ Relaunch \/ ReplaceFile
  BY <1>6, LeaveApplicationKeeps, KilledKeeps, RelaunchKeeps,
     ReplaceFileKeeps
<1>7. CASE UNCHANGED endpointVars
  <2>1. UNCHANGED <<ep, creds, server, accepting, serving, conn, pending,
                    epFaults, launches, replaced>>
    BY <1>7 DEF endpointVars
  <2>2. EpTypeOK'
    BY <2>1 DEF EndpointInv, EpTypeOK
  <2>3. Calling' /\ Stops' /\ Files' /\ StartRefusedOnlyByUnsafe'
    BY <2>1, ThreadFrame
  <2>4. Running' /\ Acceptor' /\ Ended' /\ Leftover' /\ Served'
    BY <2>1 DEF EndpointInv, Running, Acceptor, Ended, Leftover, Served, Idle
  <2> QED
    BY <2>2, <2>3, <2>4 DEF EndpointInv
<1> QED
  BY <1>1, <1>2, <1>3, <1>4, <1>5, <1>6, <1>7 DEF EndpointNext

\* The invariant implies the property.
LEMMA InvariantIsEnough == EndpointInv => EndpointCorrect
<1> SUFFICES ASSUME EndpointInv PROVE EndpointCorrect
  OBVIOUS
<1>1. EpTypeOK /\ StartRefusedOnlyByUnsafe
  BY DEF EndpointInv
<1>2. LeftCredentialIsExplained
  BY DEF EndpointInv, LeftCredentialIsExplained, Files, Stops, Credentials
<1>3. NoRequestBehindTheDispatcher
  <2> SUFFICES ASSUME ep.dispatcherStopped \/ ep.call \in {"apps", "gone"},
                      NEW c \in Connections, conn[c] = "handled"
               PROVE  FALSE
    BY DEF NoRequestBehindTheDispatcher
  <2>1. PICK w \in Workers : serving[w] = c
    BY DEF EndpointInv, Served
  <2>2. Idle
    BY DEF EndpointInv, Ended, Running, Calling
  <2> QED
    BY <2>1, <2>2, EndpointBounds DEF Idle
<1>4. StopLeavesAtMostOne
  BY DEF EndpointInv, StopLeavesAtMostOne, Running, Ended, Leftover, Idle,
    ThreadsAlive
<1> QED
  BY <1>1, <1>2, <1>3, <1>4 DEF EndpointCorrect

\* Whatever the clients, the failures and the kills: a process leaves its
\* bearer token behind only after a failure it reports, what a killed process
\* left never keeps the next from starting, no request is handled once the
\* dispatcher is shut down, and McpServer::Stop returns with all its threads
\* ended and at most one connection left.
THEOREM EndpointIsCorrect == EndpointSpec => []EndpointCorrect
<1>1. EndpointInv /\ [EndpointNext]_endpointVars => EndpointInv'
  BY EndpointStep
<1> QED
  BY <1>1, EndpointStarts, InvariantIsEnough, PTL DEF EndpointSpec

\* A file that is not ours and is gone after the step.
Foreign(f) == creds[f] \in {"old", "unsafe"} /\ creds'[f] = "none"

\* Every step but those of Start keeps what is not ours; these remove at most
\* an old file at first and the file they find under a name they have taken.
LEMMA ForeignStep ==
  ASSUME EndpointInv, [EndpointNext]_endpointVars,
         NEW f \in Credentials, Foreign(f)
  PROVE  /\ ep.call = "start"
         /\ \/ ep.at = "stale" /\ creds[f] = "old"
            \/ ep.at \in {"check token", "check config"}
<1>1. creds \in [Credentials -> FileKinds] /\ Files
  BY PartsOfTypes DEF EndpointInv
<1>2. creds' # creds
  BY DEF Foreign
<1>3. CASE RemoveStale
  <2> DEFINE unsafe == {i \in 1..3 : creds[StaleOrder[i]] = "unsafe"}
             Upto(n) == [g \in Credentials |->
                           IF \E i \in 1..n : StaleOrder[i] = g
                                              /\ i \notin unsafe
                           THEN "none" ELSE creds[g]]
  <2>1. ep.call = "start" /\ ep.at = "stale"
    BY <1>3 DEF RemoveStale
  <2>2. PICK n \in 0..3 : creds' = Upto(n)
    <3>1. CASE unsafe = {} /\ creds' = Upto(3)
      BY <3>1
    <3>2. CASE unsafe # {} /\ creds' = Upto((CHOOSE i \in unsafe :
                                   \A j \in unsafe : i <= j) - 1)
      <4>1. \E i \in unsafe : \A j \in unsafe : i <= j
        <5>1. unsafe \subseteq 1..3
          OBVIOUS
        <5>2. 1 \in unsafe \/ 2 \in unsafe \/ 3 \in unsafe
          BY <3>2, <5>1
        <5> HIDE DEF unsafe
        <5> QED
          BY <5>1, <5>2
      <4>2. (CHOOSE i \in unsafe : \A j \in unsafe : i <= j) \in 1..3
        BY <4>1
      <4> QED
        BY <3>2, <4>2
    <3>3. CASE \E n \in 0..3 : creds' = Upto(n)
      BY <3>3
    <3> QED
      BY <1>3, <3>1, <3>2, <3>3 DEF RemoveStale
  <2>3. PICK i \in 1..n : StaleOrder[i] = f /\ i \notin unsafe
    BY <2>2 DEF Foreign
  <2>4. creds[f] # "unsafe"
    BY <2>2, <2>3
  <2> QED
    BY <2>1, <2>4 DEF Foreign
<1>4. CASE WriteToken \/ WriteConfig
  BY <1>1, <1>2, <1>4
     DEF WriteToken, WriteConfig, WriteTemporary, Foreign, Credentials
<1>5. CASE NameToken
  <2>1. creds["token"] = "none" /\ creds["temporary"] = "own"
    BY <1>1, <1>5 DEF NameToken, NameFile, Files
  <2> QED
    BY <1>1, <1>5, <2>1 DEF NameToken, NameFile, Foreign, Credentials
<1>6. CASE NameConfig
  <2>1. creds["config"] = "none" /\ creds["temporary"] = "own"
    BY <1>1, <1>6 DEF NameConfig, NameFile, Files
  <2> QED
    BY <1>1, <1>6, <2>1 DEF NameConfig, NameFile, Foreign, Credentials
<1>7. ASSUME NEW g \in {"config", "token"}, Unpublish(g) PROVE FALSE
  <2>1. PICK r \in Removal(g, creds[g]) : creds' = [creds EXCEPT ![g] = r[1]]
    BY <1>7 DEF Unpublish
  <2>2. f = g
    BY <1>1, <2>1 DEF Foreign, Credentials
  <2>3. r = <<creds[f], TRUE>>
    BY <2>1, <2>2 DEF Removal, Foreign
  <2>4. r[1] = creds[f]
    BY <2>3
  <2> QED
    BY <1>1, <2>1, <2>2, <2>4 DEF Foreign
<1>8. CASE UnpublishConfig
  BY <1>7, <1>8 DEF UnpublishConfig
<1>9. CASE UnpublishToken
  BY <1>1, <1>7, <1>9 DEF UnpublishToken, Foreign, Credentials
<1>10. CASE Relaunch
  BY <1>10 DEF Relaunch, Foreign
<1>11. CASE ReplaceFile
  BY <1>1, <1>11 DEF ReplaceFile, Foreign, Credentials
<1>12. CASE StartSteps
  BY <1>2, <1>3, <1>4, <1>5, <1>6, <1>12
     DEF StartSteps, OpenDirectory, Listen, StartThreads, VerifyDirectory,
         CheckToken, CheckConfig, CheckFile
<1>13. CASE StopSteps
  BY <1>2, <1>8, <1>9, <1>13
     DEF StopSteps, BeginStop, ClearQueue, WakeAcceptor, JoinAccept,
         JoinWorkers, CheckDrained, StopDispatcher, ShutdownApplication,
         ProcessEnds
<1>14. CASE AcceptThread
  BY <1>2, <1>14
     DEF AcceptThread, AcceptCheck, Accept, AcceptRecheck, PushConnection,
         RejectOverload, AcceptUnchanged
<1>15. ASSUME NEW w \in Workers, WorkerThread(w) PROVE FALSE
  BY <1>2, <1>15 DEF WorkerThread, PopConnection, ReadRequest, FinishRequest,
                     WorkerUnchanged
<1>16. ASSUME NEW c \in Connections, Connect(c) PROVE FALSE
  BY <1>2, <1>16 DEF Connect
<1>17. CASE LeaveApplication \/ Killed
  BY <1>2, <1>17 DEF LeaveApplication, Killed
<1>18. CASE UNCHANGED endpointVars
  BY <1>2, <1>18 DEF endpointVars
<1> QED
  BY <1>10, <1>11, <1>12, <1>13, <1>14, <1>15, <1>16, <1>17, <1>18
     DEF EndpointNext

\* RemoveAndVerifyFile never removes a file the endpoint did not publish: only
\* Start does, an old one of the same user or one found under a name it has
\* just taken.
THEOREM ForeignFilesAreKept == EndpointSpec => ReplacedFileIsKept
<1>1. EndpointInv /\ [EndpointNext]_endpointVars => EndpointInv'
  BY EndpointStep
<1>2. EndpointInv /\ [EndpointNext]_endpointVars =>
        [\A f \in Credentials :
            creds[f] \in {"old", "unsafe"} /\ creds'[f] = "none" =>
                /\ ep.call = "start"
                /\ \/ ep.at = "stale" /\ creds[f] = "old"
                   \/ ep.at \in {"check token", "check config"}]_endpointVars
  BY ForeignStep DEF Foreign
<1> QED
  BY <1>1, <1>2, EndpointStarts, PTL DEF EndpointSpec, ReplacedFileIsKept

=============================================================================
