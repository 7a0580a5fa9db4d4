---------------------------- MODULE McpRequests ----------------------------
(***************************************************************************)
(* What one HTTP request does to one MCP session: the chain of checks of   *)
(* McpProtocol::Handle, HandlePost, HandleGet and HandleDelete, the calls  *)
(* that are in the hands of the server's threads while others cancel them  *)
(* or end the session, the event streams a client reads its notifications  *)
(* from and resumes, and the pages of the tool list.                       *)
(*                                                                         *)
(* A request is what the checks look at.  The threads that expire, close   *)
(* and clean up sessions are the subject of McpSessions.                   *)
(***************************************************************************)
EXTENDS Naturals, Sequences, FiniteSets

CONSTANTS
    MaxNotes,      \* kMcpMaximumNotificationsPerSession
    MaxStreams,    \* kMaximumRetainedSseStreamsPerSession
    MaxEnqueued,   \* bound: notifications of one behaviour
    MaxOpened,     \* bound: streams of one behaviour
    Slots,         \* bound: threads that have a call in hand
    ToolCount,     \* tools the endpoint offers
    PageSize       \* kMcpListPageSize

ASSUME RequestBounds ==
    /\ MaxNotes \in Nat \ {0} /\ MaxStreams \in Nat \ {0}
    /\ MaxEnqueued \in Nat /\ MaxOpened \in Nat
    /\ ToolCount \in Nat /\ PageSize \in Nat \ {0}

\* The first thing wrong with a request, the session and the protocol
\* version its headers name, and the JSON-RPC envelope in its body.
Flaws     == {"none", "path", "origin", "token", "media"}
Headers   == {"none", "mine", "unknown"}
Versions  == {"mine", "other", "unsupported"}
Envelopes == {"garbage", "response", "malformed notification", "malformed",
              "initialize", "initialize notification", "initialized",
              "initialized call", "cancelled", "cancelled call",
              "notification", "call", "page"}

\* Envelopes that carry an id, and so are owed a JSON-RPC answer.
Identified == {"initialize", "initialized call", "cancelled call", "call", "page"}

NoCursor == <<0, 0>>
NoStream == 0
Unseen   == MaxEnqueued + 1
Nothing  == [i \in 1..MaxOpened |-> Unseen]

\* The headers worth telling apart: a request with a flaw of the transport is
\* refused for it whatever else it says, and one flaw of the session is enough.
Attempts == {<<f, "mine", "mine">> : f \in Flaws}
            \cup {<<"none", h, "mine">> : h \in Headers}
            \cup {<<"none", h, v>> : h \in {"none", "mine"}, v \in Versions}

\* What is sent: anything with good headers, or with none of a session; of the
\* requests whose headers are refused, one that gets to each check.
Sent(a) ==
    CASE a \in {<<"none", "mine", "mine">>, <<"none", "none", "mine">>} -> Envelopes
      [] a[1] # "none" -> {"call"}
      [] OTHER         -> {"garbage", "initialize", "notification", "call"}

VARIABLES
    focus,     \* bound: a behaviour is about "calls" or about "streams"
    standing,  \* of the session: none, awaiting, initialized
    resumable, \* the session's protocol_version is 2025-11-25
    inHand,    \* the call each thread has in hand
    notes,     \* notifications: [seq, stream], oldest first
    streams,   \* identifiers of the retained streams, oldest first
    cursors,   \* retained cursors <<stream, seq>>, oldest first
    counts,    \* [next, dropped, opened]: sequence numbers and counters
    seen,      \* the last event the client received on each stream, or none
    list,      \* [at, got]: the client's walk through the tool list
    reply      \* the last answer: [call, from, kind, did, stopped]

requestVars == <<focus, standing, resumable, inHand, notes, streams, cursors, counts,
                 seen, list, reply>>
streamVars  == <<notes, streams, cursors, counts, seen>>

\* A McpActiveRequest and where HandlePost is with it: checked, not yet
\* registered; running; completed with a result or an error; or dropped.  Every
\* call carries the same id, and is mine if its session is the current one.
NoCall == [phase |-> "none", page |-> FALSE, mine |-> FALSE, stopped |-> FALSE]
Registered == {"running", "result", "error", "dropped"}

RequestsInit ==
    /\ focus \in {"calls", "streams"}
    /\ standing = "none" /\ resumable = FALSE /\ inHand = [i \in Slots |-> NoCall]
    /\ notes = <<>> /\ streams = <<>> /\ cursors = <<>>
    /\ counts = [next |-> 1, dropped |-> 0, opened |-> 0]
    /\ seen = Nothing /\ list = [at |-> 0, got |-> <<>>]
    /\ reply = [call |-> FALSE, from |-> "none", kind |-> "none",
                did |-> "nothing", stopped |-> FALSE]

\* An answer of a kind (an HTTP status, or a JSON-RPC result or error), in a
\* state of the session.  Which refusal it is makes no difference later.
Refusals == {"400", "401", "403", "404", "406", "503"}

Answer(envelope, kind, did) ==
    reply' = [call |-> envelope \in Identified, from |-> standing,
              kind |-> IF kind \in Refusals THEN "refused" ELSE kind, did |-> did,
              stopped |-> FALSE]

-----------------------------------------------------------------------------
(* The checks, in their order: "" when none of them objects.               *)

\* ValidateHttpRequest, then the media types of the method.
TransportCheck(flaw) ==
    CASE flaw = "path"   -> "404"
      [] flaw = "origin" -> "403"
      [] flaw = "token"  -> "401"
      [] flaw = "media"  -> "406"
      [] OTHER           -> ""

\* ValidProtocolVersion and RequireSession.  A version is compared with the
\* session's only if the header names a session that exists.
SessionCheck(header, version, initialized) ==
    CASE version = "unsupported"                      -> "400"
      [] header = "mine" /\ standing # "none" /\ version = "other" -> "400"
      [] header = "none"                              -> "400"
      [] header = "unknown" \/ standing = "none"         -> "404"
      [] initialized /\ standing # "initialized"         -> "404"
      [] OTHER                                        -> ""

\* initialize is checked against a session only if it names one, and is then
\* refused for naming it.
InitializeCheck(header, version) ==
    IF header = "none" THEN ""
    ELSE LET c == SessionCheck(header, version, FALSE)
         IN IF c = "" THEN "rpc error" ELSE c

-----------------------------------------------------------------------------
(* POST.                                                                   *)

\* ToolPage from a cursor, which must not lie beyond the end.
ToolPage(begin) ==
    LET end == IF begin + PageSize < ToolCount THEN begin + PageSize ELSE ToolCount
    IN [tools |-> [i \in 1..(end - begin) |-> begin + i],
        next  |-> IF end < ToolCount THEN end ELSE 0]

\* The client keeps the page and follows nextCursor, if there is one.
ReadPage ==
    LET page == ToolPage(list.at)
    IN list' = [at  |-> page.next,
                got |-> (IF list.at = 0 THEN <<>> ELSE list.got) \o page.tools]

Refused(kind) == kind # ""

\* A second initialize opens another session; either may be refused at
\* capacity.
PostInitialize(flaw, header, version, envelope) ==
    /\ envelope \in {"initialize", "initialize notification"}
    /\ LET c == InitializeCheck(header, version) IN
       CASE Refused(TransportCheck(flaw)) ->
              Answer(envelope, TransportCheck(flaw), "nothing")
              /\ UNCHANGED <<standing, resumable>>
         [] ~Refused(TransportCheck(flaw)) /\ Refused(c) ->
              Answer(envelope, c, "nothing") /\ UNCHANGED <<standing, resumable>>
         [] ~Refused(TransportCheck(flaw)) /\ ~Refused(c)
            /\ envelope = "initialize notification" ->
              Answer(envelope, "rpc error", "nothing") /\ UNCHANGED <<standing, resumable>>
         [] OTHER ->
              \/ /\ Answer(envelope, "rpc result", "opened")
                 /\ standing' = IF standing = "none" THEN "awaiting" ELSE standing
                 /\ IF standing = "none" THEN resumable' \in BOOLEAN
                    ELSE UNCHANGED resumable
              \/ Answer(envelope, "503", "nothing") /\ UNCHANGED <<standing, resumable>>
    /\ UNCHANGED <<streamVars, list, inHand>>

\* What an envelope whose session is known is answered with, if not as a call.
PostKind(envelope) ==
    CASE envelope = "initialized"      -> "202"
      [] envelope = "initialized call" -> "rpc error"
      [] standing # "initialized" /\ envelope \in {"response", "malformed notification"} -> "400"
      [] standing # "initialized" /\ envelope \in Identified -> "rpc error"
      [] envelope = "cancelled call"   -> "rpc error"
      [] OTHER                         -> "202"

IsCall(envelope) == standing = "initialized" /\ envelope \in {"call", "page"}

\* McpActiveRequest::RequestStop and Complete: whichever comes first decides.
StopCall(call) ==
    IF call.phase = "running" THEN [call EXCEPT !.stopped = TRUE] ELSE call

Complete(call, outcome) ==
    [call EXCEPT !.phase = IF call.stopped THEN "dropped" ELSE outcome]

\* CancelRequest, or the stop of a session that ends: the registered calls.
StopMine == [i \in Slots |-> IF inHand[i].mine THEN StopCall(inHand[i]) ELSE inHand[i]]

\* A client asks for the next page when it has the one before.
Admit(envelope) ==
    /\ focus = "calls"
    /\ envelope = "page" => \A i \in Slots : ~inHand[i].page
    /\ \E i \in Slots :
         /\ inHand[i] = NoCall
         /\ inHand' = [inHand EXCEPT ![i] =
              [phase |-> "checked", page |-> envelope = "page", mine |-> TRUE,
               stopped |-> FALSE]]
    /\ UNCHANGED <<standing, reply>>

PostMessage(flaw, header, version, envelope) ==
    /\ envelope \notin {"initialize", "initialize notification"}
    /\ LET t == TransportCheck(flaw)
           s == SessionCheck(header, version, FALSE)
           parsed == ~Refused(t) /\ envelope \notin {"garbage", "malformed"}
       IN
       \/ /\ Refused(t) /\ Answer(envelope, t, "nothing")
          /\ UNCHANGED <<standing, inHand>>
       \/ /\ ~Refused(t) /\ ~parsed /\ Answer(envelope, "rpc error", "nothing")
          /\ UNCHANGED <<standing, inHand>>
       \/ /\ parsed /\ Refused(s) /\ Answer(envelope, s, "nothing")
          /\ UNCHANGED <<standing, inHand>>
       \/ parsed /\ ~Refused(s) /\ IsCall(envelope) /\ Admit(envelope)
       \/ /\ parsed /\ ~Refused(s) /\ ~IsCall(envelope)
          /\ standing' = IF envelope = "initialized" THEN "initialized" ELSE standing
          /\ inHand' = IF standing = "initialized" /\ envelope = "cancelled"
                      THEN StopMine ELSE inHand
          /\ Answer(envelope, PostKind(envelope), "nothing")
    /\ UNCHANGED <<streamVars, list, resumable>>

\* A call is answered and its thread is free again.
AnswerCall(i, kind) ==
    /\ reply' = [call |-> TRUE, kind |-> kind, stopped |-> inHand[i].stopped,
                 from |-> IF kind = "refused" THEN standing ELSE "initialized",
                 did |-> IF kind = "refused" THEN "nothing" ELSE "dispatched"]
    /\ inHand' = [inHand EXCEPT ![i] = NoCall]

\* Mutant: registration trusts the check that was made before it.
TrustingRegister(i) ==
    /\ inHand[i].phase = "checked"
    /\ \E stopped \in BOOLEAN :
         inHand' = [inHand EXCEPT ![i].phase = "running", ![i].stopped = stopped]
    /\ UNCHANGED <<focus, standing, resumable, streamVars, list, reply>>

\* RegisterRequest looks the session up again, and refuses an id that is in use.
\* The transport may have been told to stop by then.
Register(i) ==
    /\ inHand[i].phase = "checked"
    /\ LET known == inHand[i].mine /\ standing = "initialized"
           taken == \E j \in Slots : inHand[j].mine /\ inHand[j].phase \in Registered
       IN \/ /\ known /\ ~taken /\ UNCHANGED reply
             /\ \E stopped \in BOOLEAN :
                  inHand' = [inHand EXCEPT ![i].phase = "running", ![i].stopped = stopped]
          \/ /\ ~known /\ AnswerCall(i, "refused")
          \/ /\ known /\ taken /\ inHand' = [inHand EXCEPT ![i] = NoCall]
             /\ Answer("call", "rpc error", "nothing")
    /\ UNCHANGED <<focus, standing, resumable, streamVars, list>>

\* The stop token of the transport calls RequestStop on its own call.
TransportStops(i) ==
    /\ inHand[i].phase = "running" /\ inHand' = [inHand EXCEPT ![i] = StopCall(@)]
    /\ UNCHANGED <<focus, standing, resumable, streamVars, list, reply>>

\* Dispatch returns or throws.
Dispatched(i) ==
    /\ inHand[i].phase = "running"
    /\ \E outcome \in {"result", "error"} :
         inHand' = [inHand EXCEPT ![i] = Complete(@, outcome)]
    /\ UNCHANGED <<focus, standing, resumable, streamVars, list, reply>>

\* FinishRequest: the call leaves the session and its client hears of it.
ReportCall(i) ==
    /\ inHand[i].phase \in {"result", "error", "dropped"}
    /\ AnswerCall(i, CASE inHand[i].phase = "result" -> "rpc result"
                       [] inHand[i].phase = "error"  -> "rpc error"
                       [] OTHER                     -> "202")
    /\ IF inHand[i].phase = "result" /\ inHand[i].page THEN ReadPage ELSE UNCHANGED list
    /\ UNCHANGED <<focus, standing, resumable, streamVars>>

-----------------------------------------------------------------------------
(* Notifications and GET.                                                  *)

\* EnqueueNotification and BroadcastNotification: the oldest makes room.
Enqueue ==
    /\ focus = "streams" /\ standing # "none" /\ counts.next <= MaxEnqueued
    /\ LET full == Len(notes) = MaxNotes IN
       /\ notes' = Append(IF full THEN Tail(notes) ELSE notes,
                          [seq |-> counts.next, stream |-> NoStream])
       /\ counts' = [counts EXCEPT !.next = @ + 1,
                                   !.dropped = IF full THEN @ + 1 ELSE @]
    /\ UNCHANGED <<focus, standing, resumable, inHand, streams, cursors, seen, list, reply>>

\* RetainSseCursorLocked: the oldest cursor makes room.
Retain(cs, new) ==
    LET all == cs \o new
        cut == IF Len(all) > MaxNotes THEN Len(all) - MaxNotes ELSE 0
    IN SubSeq(all, cut + 1, Len(all))

\* CreateSseStreamLocked when the streams are full: the oldest one goes with
\* its notifications and cursors.
Evict(id, ns, cs) ==
    LET kept == SelectSeq(ns, LAMBDA n : n.stream # id)
    IN [notes |-> kept, dropped |-> Len(ns) - Len(kept),
        cursors |-> SelectSeq(cs, LAMBDA c : c[1] # id)]

\* Every notification that has no stream yet gets this one, and a cursor.
Assign(ns, id) ==
    [n \in DOMAIN ns |-> IF ns[n].stream = NoStream
                         THEN [ns[n] EXCEPT !.stream = id] ELSE ns[n]]

NewCursors(ns, id) ==
    LET new == SelectSeq(ns, LAMBDA n : n.stream = NoStream)
    IN [n \in DOMAIN new |-> <<id, new[n].seq>>]

\* The notifications of the stream behind the cursor, in order.
Body(ns, id, after) ==
    {ns[n].seq : n \in {m \in DOMAIN ns :
                           ns[m].stream = id /\ ns[m].seq > after}}

IsRetained(c) ==
    /\ \E n \in DOMAIN streams : streams[n] = c[1]
    /\ \E n \in DOMAIN cursors : cursors[n] = c

\* A GET without Last-Event-ID opens a stream, from the newest protocol on with
\* an empty first event; one with it resumes there.  The client may lose any
\* tail of the answer.
OpenStream ==
    /\ focus = "streams" /\ counts.opened < MaxOpened
    /\ LET id   == counts.opened + 1
           full == Len(streams) = MaxStreams
           old  == IF full THEN Evict(Head(streams), notes, cursors)
                   ELSE [notes |-> notes, cursors |-> cursors, dropped |-> 0]
           zero == IF resumable THEN <<<<id, 0>>>> ELSE <<>>
       IN /\ streams' = Append(IF full THEN Tail(streams) ELSE streams, id)
          /\ notes' = Assign(old.notes, id)
          /\ cursors' = Retain(Retain(old.cursors, zero),
                               NewCursors(old.notes, id))
          /\ counts' = [counts EXCEPT !.opened = id, !.dropped = @ + old.dropped]
          /\ \E got \in {Unseen} \cup (IF resumable THEN {0} ELSE {}) \cup Body(notes', id, 0) :
               seen' = [seen EXCEPT ![id] = got]

ResumeStream(c) ==
    /\ notes' = Assign(notes, c[1])
    /\ cursors' = Retain(cursors, NewCursors(notes, c[1]))
    /\ \E got \in {c[2]} \cup Body(notes', c[1], c[2]) :
         seen' = [seen EXCEPT ![c[1]] = got]
    /\ UNCHANGED <<streams, counts>>

Get(flaw, header, version, cursor) ==
    /\ LET t == TransportCheck(flaw)
           s == SessionCheck(header, version, TRUE)
           bad == cursor # NoCursor /\ ~IsRetained(cursor)
       IN
       \/ /\ Refused(t) /\ Answer("get", t, "nothing") /\ UNCHANGED streamVars
       \/ /\ ~Refused(t) /\ Refused(s) /\ Answer("get", s, "nothing")
          /\ UNCHANGED streamVars
       \/ /\ ~Refused(t) /\ ~Refused(s) /\ bad /\ Answer("get", "400", "nothing")
          /\ UNCHANGED streamVars
       \/ /\ ~Refused(t) /\ ~Refused(s) /\ ~bad /\ Answer("get", "200", "streamed")
          /\ IF cursor = NoCursor THEN OpenStream ELSE ResumeStream(cursor)
    /\ UNCHANGED <<standing, resumable, list, inHand>>

\* DELETE ends the session, whether its cleanup succeeds or not; what it
\* retained goes with it, and its calls are asked to stop.
Delete(flaw, header, version) ==
    /\ LET t == TransportCheck(flaw)
           s == SessionCheck(header, version, FALSE)
       IN IF Refused(t) \/ Refused(s)
          THEN /\ Answer("delete", IF Refused(t) THEN t ELSE s, "nothing")
               /\ UNCHANGED <<standing, resumable, streamVars, inHand>>
          ELSE /\ \E kind \in {"200", "503"} : Answer("delete", kind, "closed")
               /\ standing' = "none" /\ resumable' = FALSE
               /\ inHand' = [i \in Slots |-> [StopMine[i] EXCEPT !.mine = FALSE]]
               /\ notes' = <<>> /\ streams' = <<>> /\ cursors' = <<>>
               /\ counts' = [counts EXCEPT !.next = 1, !.dropped = 0]
               /\ seen' = Nothing
    /\ UNCHANGED list

Received == {<<i, seen[i]>> : i \in {j \in 1..MaxOpened : seen[j] # Unseen}}

RequestsNext ==
    \/ \E a \in Attempts :
         /\ UNCHANGED focus
         /\ \/ \E e \in Sent(a) : \/ PostInitialize(a[1], a[2], a[3], e)
                                  \/ PostMessage(a[1], a[2], a[3], e)
            \/ \E c \in {NoCursor} \cup Received : Get(a[1], a[2], a[3], c)
            \/ Delete(a[1], a[2], a[3])
    \/ Enqueue
    \/ \E i \in Slots :
         Register(i) \/ TransportStops(i) \/ Dispatched(i) \/ ReportCall(i)

-----------------------------------------------------------------------------
(* Properties.                                                             *)

StreamOf(n) == notes[n].stream

\* The session's retained state is well formed and within its limits.
ReqTypeOK ==
    /\ standing \in {"none", "awaiting", "initialized"}
    /\ \A i \in Slots : inHand[i].phase \in {"none", "checked"} \cup Registered
    /\ Len(notes) <= MaxNotes /\ Len(cursors) <= MaxNotes
    /\ Len(streams) <= MaxStreams
    /\ \A n \in DOMAIN notes : notes[n].seq \in 1..(counts.next - 1)

\* A call is dispatched and a stream is opened only for a session that is
\* initialized, whatever the message and the state the session is in.
OnlyInitializedIsServed ==
    reply.did \in {"dispatched", "streamed"} => reply.from = "initialized"

\* A message with an id is answered without a body if and only if a stop of its
\* call was accepted before it completed, whoever asked: the client, a DELETE or
\* the transport.  A message without an id never gets a JSON-RPC result.
AnswerFitsTheMessage ==
    /\ reply.call => (reply.kind = "202" <=> reply.stopped)
    /\ ~reply.call => reply.kind # "rpc result"

\* The calls of a session that was ended are asked to stop, those too that had
\* passed the checks of HandlePost before the DELETE; and no two calls of a
\* session are registered under one id.
EndedSessionStopsItsCalls ==
    \A i, j \in Slots :
       /\ inHand[i].phase = "running" /\ ~inHand[i].mine => inHand[i].stopped
       /\ i # j /\ inHand[i].mine /\ inHand[j].mine =>
            ~({inHand[i].phase, inHand[j].phase} \subseteq Registered)

\* Events and cursors belong to retained streams only: a stream that is
\* evicted takes both along.
StreamOwnsItsEvents ==
    LET kept == {streams[n] : n \in DOMAIN streams} IN
    /\ \A n \in DOMAIN notes : StreamOf(n) \in kept \cup {NoStream}
    /\ \A n \in DOMAIN cursors : cursors[n][1] \in kept

\* The events of a stream keep their order: sequence numbers ascend, what
\* has no stream yet comes after everything that has one, and a stream's
\* cursors ascend without repetition.
EventsAscend ==
    /\ \A m, n \in DOMAIN notes : m < n =>
         /\ notes[m].seq < notes[n].seq
         /\ StreamOf(m) = NoStream => StreamOf(n) = NoStream
    /\ \A m, n \in DOMAIN cursors :
         m < n /\ cursors[m][1] = cursors[n][1] => cursors[m][2] < cursors[n][2]

\* Every notification is retained or counted as dropped.
LossIsCounted == counts.next - 1 = Len(notes) + counts.dropped

\* A client that follows nextCursor to the end has read every tool once.
PagingVisitsEveryTool ==
    list.at = 0 /\ list.got # <<>> => list.got = [i \in 1..ToolCount |-> i]

\* Only an initialized session is served, an answer fits its message and what
\* became of its call, a session that ends stops its calls, an event is kept by
\* the stream that owns it, in ascending order, a loss is counted, and paging
\* visits every tool once.
RequestsCorrect ==
    /\ ReqTypeOK
    /\ OnlyInitializedIsServed
    /\ AnswerFitsTheMessage
    /\ EndedSessionStopsItsCalls
    /\ StreamOwnsItsEvents
    /\ EventsAscend
    /\ LossIsCounted
    /\ PagingVisitsEveryTool

=============================================================================
