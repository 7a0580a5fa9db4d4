----------------------------- MODULE RpcProofs -----------------------------
(***************************************************************************)
(* Proofs about RpcClient for any calls, sockets, slots and bounds: slots  *)
(* and connections are conserved, a call is answered with what the node    *)
(* said to it, the node executes it at most once, and a free slot is known *)
(* to somebody who waits.                                                  *)
(***************************************************************************)
EXTENDS RpcClient, FiniteSetTheorems, TLAPS

-----------------------------------------------------------------------------
(* The inductive invariant.                                                *)

Before == Waiting \cup {"connection"}
Exchange == {"send", "reply", "check"}
Ended == {"release", "notify", "over"}

Holds(c) == call[c].socket # NoSocket
Mine(c) == socket[call[c].socket]

\* What a call has by the place it is in: attempts, a result, a connection.
Stages ==
    \A c \in Calls :
        /\ call[c].at \in Before => call[c].tries = 0
        /\ call[c].at = "send" => call[c].tries <= 2
        /\ call[c].at \in Before \cup {"send", "reply"} => call[c].result = "none"
        /\ call[c].at \in Exchange => Holds(c)
        /\ Holds(c) => call[c].at \in Leased

\* The slots in use, and room in the pool for what their calls may return.
Leases == {c \in Calls : call[c].at \in Leased}
Slots ==
    /\ active = Cardinality(Leases)
    /\ active + Len(idle) <= PerEndpoint

Pooled(s) == \E i \in DOMAIN idle : idle[i] = s

\* A connection is in the pool once or with one call, and open on this side.
Pool ==
    /\ \A i, j \in DOMAIN idle : idle[i] = idle[j] => i = j
    /\ \A i \in DOMAIN idle : socket[idle[i]].client
    /\ \A c \in Calls : Holds(c) => Mine(c).client /\ ~Pooled(call[c].socket)
    /\ \A c, d \in Calls :
          Holds(c) /\ call[c].socket = call[d].socket => c = d

\* One message is on the wire of a connection, none once this side closed it
\* but a request the node has not read.
Wire ==
    \A s \in Sockets :
        /\ Len(socket[s].asked) <= 1 /\ Len(socket[s].reply) <= 1
        /\ socket[s].asked # <<>> => socket[s].reply = <<>>
        /\ ~socket[s].client => socket[s].reply = <<>>

\* Nothing is on the wire of a connection in the pool or of a call that does
\* not wait for an answer; what a call waits for is the answer to its own
\* request, and says whether the node executed it.
Silent(s) == socket[s].asked = <<>> /\ socket[s].reply = <<>>
Answers ==
    /\ \A i \in DOMAIN idle : Silent(idle[i])
    /\ \A c \in Calls : Holds(c) /\ ~At(c, "reply") => Silent(call[c].socket)
    /\ \A c \in Calls : At(c, "reply") /\ Mine(c).reply # <<>> =>
          /\ Mine(c).reply[1].of = c
          /\ Mine(c).reply[1].status = 401 => node.ran[c] = 0
          /\ Mine(c).reply[1].status = 200 => node.ran[c] = 1

\* A request the node has not read was not executed; its call waits on this
\* connection, or gave up and closed it.
Given(s) == socket[s].asked[1].of
Unread ==
    /\ \A s \in Sockets : socket[s].asked # <<>> =>
          /\ node.ran[Given(s)] = 0
          /\ \/ At(Given(s), "reply") /\ call[Given(s)].socket = s
             \/ /\ call[Given(s)].at \in Ended
                /\ call[Given(s)].result \in {"cancelled", "failed"}
                /\ ~socket[s].client
    /\ \A s, t \in Sockets :
          socket[s].asked # <<>> /\ socket[t].asked # <<>> /\ Given(s) = Given(t)
             => s = t

\* What was executed, by the place and the result of its call.
Executed ==
    \A c \in Calls :
        /\ node.ran[c] <= 1
        /\ call[c].at \in Before \cup {"send"} => node.ran[c] = 0
        /\ call[c].result \in Refusals => node.ran[c] = 0
        /\ call[c].result = "answered" /\ setup.mode = "digest"
              => node.ran[c] = 1

\* While somebody sleeps there are as many calls on their way to a slot, or to
\* notify of one, as slots are free.
Waking == {c \in Calls : call[c].at \in {"woken", "notify"}}
Notified ==
    \A c \in Calls : At(c, "asleep") =>
        lost \/ PerEndpoint <= active + Cardinality(Waking)

RpcInv ==
    /\ RpcTypeOK /\ Stages /\ Slots /\ Pool /\ Wire /\ Answers
    /\ Unread /\ Executed /\ OwnAnswer /\ Notified

-----------------------------------------------------------------------------
(* The steps, by what they do.                                             *)

Requested == [of : Calls, nonce : Nat]
Answered == [of : Calls, status : {200, 401}, stale : BOOLEAN,
             schemes : ChallengeLists, nonce : Nat, realm : Nat, keep : BOOLEAN]

\* A call is moved on, and the others are left alone.
Moved(c, at, own, tries, result) ==
    /\ \A d \in Calls \ {c} : call'[d] = call[d]
    /\ call'[c].at = at /\ call'[c].socket = own
    /\ call'[c].tries = tries /\ call'[c].result = result

\* The same, but for where it is.
MovedTo(c, at) ==
    Moved(c, at, call[c].socket, call[c].tries, call[c].result)

\* A connection carries other messages, and the others are left alone.
Carries(s, asked, reply) ==
    /\ \A t \in Sockets \ {s} : socket'[t] = socket[t]
    /\ socket'[s].client = socket[s].client
    /\ socket'[s].asked = asked /\ socket'[s].reply = reply

\* The connection of a call is closed, if it has one.
Dropped(c) ==
    /\ \A t \in Sockets : t # call[c].socket => socket'[t] = socket[t]
    /\ Holds(c) => /\ socket'[call[c].socket].client = FALSE
                   /\ socket'[call[c].socket].asked = Mine(c).asked
                   /\ socket'[call[c].socket].reply = <<>>

SameSlots == UNCHANGED <<setup, active, idle, lost>>
SameRuns == node'.ran = node.ran
Apart == SameSlots /\ SameRuns /\ UNCHANGED socket

Entered(c) == At(c, "new") /\ MovedTo(c, "admission") /\ Apart

Declined(c) ==
    /\ call[c].at \in {"new", "admission", "woken"}
    /\ \E result \in {"credentials", "admission", "cancelled"} :
          Moved(c, "over", NoSocket, 0, result)
    /\ UNCHANGED <<setup, active, idle, socket>> /\ SameRuns
    /\ lost => lost'
    /\ At(c, "woken") /\ active < PerEndpoint => lost'

Acquired(c) ==
    /\ call[c].at \in {"admission", "woken"}
    /\ active < PerEndpoint /\ active' = active + 1
    /\ \/ /\ idle = <<>> /\ idle' = idle
          /\ Moved(c, "connection", NoSocket, call[c].tries, call[c].result)
       \/ /\ idle # <<>> /\ idle' = SubSeq(idle, 1, Len(idle) - 1)
          /\ Moved(c, "connection", idle[Len(idle)], call[c].tries,
                   call[c].result)
    /\ UNCHANGED <<setup, socket, lost>> /\ SameRuns

Slept(c) ==
    /\ call[c].at \in {"admission", "woken"} /\ active >= PerEndpoint
    /\ MovedTo(c, "asleep") /\ Apart

Reused(c) ==
    /\ At(c, "connection") /\ Holds(c)
    /\ MovedTo(c, "send") /\ Apart

\* A socket that this side has closed and the node has read to the end, its
\* own included, becomes the connection of the call.
Connected(c) ==
    /\ At(c, "connection")
    /\ \E s \in Sockets :
          /\ s = call[c].socket \/ ~socket[s].client
          /\ Moved(c, "send", s, call[c].tries, call[c].result)
          /\ socket'[s].client /\ socket'[s].asked = <<>>
          /\ socket'[s].reply = <<>>
          /\ \A t \in Sockets \ {s, call[c].socket} : socket'[t] = socket[t]
          /\ Holds(c) /\ call[c].socket # s =>
                /\ socket'[call[c].socket].client = FALSE
                /\ socket'[call[c].socket].asked = Mine(c).asked
                /\ socket'[call[c].socket].reply = <<>>
    /\ SameSlots /\ SameRuns

\* The call fails with its connection, before or after it was sent.
Failed(c) ==
    /\ \E result \in {"connect", "cancelled", "failed", "rejected"} :
          /\ Moved(c, "release", NoSocket, call[c].tries, result)
          /\ result = "connect" => At(c, "connection")
          /\ result = "rejected" => HasReply(c)
    /\ call[c].at \in {"connection", "send", "reply"}
    /\ Dropped(c) /\ SameSlots /\ SameRuns

Sent(c) ==
    /\ At(c, "send")
    /\ Moved(c, "reply", call[c].socket, call[c].tries + 1, call[c].result)
    /\ \/ UNCHANGED socket
       \/ \E request \in Requested :
             /\ request.of = c
             /\ Carries(call[c].socket, Append(Mine(c).asked, request),
                        Mine(c).reply)
    /\ SameSlots /\ SameRuns

\* The answer is read from the connection.
Read(c) == Carries(call[c].socket, Mine(c).asked, Tail(Mine(c).reply))

\* The request was refused and is sent again with what the refusal offers.
Resent(c) ==
    /\ HasReply(c) /\ Reply(c).status = 401 /\ call[c].tries <= 2
    /\ MovedTo(c, "send") /\ Read(c) /\ SameSlots /\ SameRuns

Delivered(c) ==
    /\ HasReply(c)
    /\ setup.mode = "digest" => Reply(c).status # 401
    /\ \/ /\ Reply(c).of = c
          /\ Moved(c, "check", call[c].socket, call[c].tries, "answered")
       \/ /\ Reply(c).of # c
          /\ Moved(c, "check", call[c].socket, call[c].tries, "alien")
    /\ Read(c) /\ SameSlots /\ SameRuns

Checked(c) ==
    /\ At(c, "check")
    /\ \/ MovedTo(c, "release") /\ UNCHANGED socket
       \/ /\ Moved(c, "release", NoSocket, call[c].tries, call[c].result)
          /\ Dropped(c)
    /\ SameSlots /\ SameRuns

Released(c) ==
    /\ At(c, "release")
    /\ Moved(c, "notify", NoSocket, call[c].tries, call[c].result)
    /\ active' = active - 1
    /\ \/ ~Holds(c) /\ idle' = idle
       \/ Holds(c) /\ idle' = Append(idle, call[c].socket)
    /\ UNCHANGED <<setup, socket, lost>> /\ SameRuns

\* The call is over, and a sleeper is woken if there is one.
Told(c) ==
    /\ At(c, "notify") /\ call'[c].at = "over" /\ call'[c].socket = NoSocket
    /\ call'[c].tries = 0 /\ call'[c].result = call[c].result
    /\ \/ /\ \A d \in Calls : ~At(d, "asleep")
          /\ \A d \in Calls \ {c} : call'[d] = call[d]
       \/ \E e \in Calls :
             /\ At(e, "asleep") /\ call'[e].at = "woken"
             /\ call'[e].socket = call[e].socket
             /\ call'[e].tries = call[e].tries
             /\ call'[e].result = call[e].result
             /\ \A d \in Calls \ {c, e} : call'[d] = call[d]
    /\ Apart

\* The executions, once the node has read a request and answers with a status.
Ran(s, status) ==
    [node.ran EXCEPT ![Given(s)] = IF status = 200 THEN @ + 1 ELSE @]

\* The node reads a request and answers it, executed or not, if the connection
\* is still there.
Served(s) ==
    /\ socket[s].asked # <<>>
    /\ \E answer \in Answered :
          /\ answer.of = Given(s) /\ node'.ran = Ran(s, answer.status)
          /\ \/ Carries(s, Tail(socket[s].asked), socket[s].reply)
             \/ /\ socket[s].client
                /\ Carries(s, Tail(socket[s].asked),
                           Append(socket[s].reply, answer))
    /\ UNCHANGED call /\ SameSlots

\* Time, stops and the rest of what the node does: sleepers may wake up.
Elsewhere ==
    /\ \A d \in Calls :
          /\ call'[d].at = call[d].at \/ (At(d, "asleep") /\ call'[d].at = "woken")
          /\ call'[d].socket = call[d].socket
          /\ call'[d].tries = call[d].tries /\ call'[d].result = call[d].result
    /\ \A s \in Sockets :
          /\ socket'[s].client = socket[s].client
          /\ socket'[s].asked = socket[s].asked
          /\ socket'[s].reply = socket[s].reply
    /\ SameSlots /\ SameRuns

\* The parts of the type of the state.
LEMMA Fields ==
  ASSUME RpcTypeOK
  PROVE  /\ setup.mode \in {"basic", "cookie", "digest"}
         /\ PerEndpoint \in Nat \ {0} /\ active \in Nat
         /\ NoSocket \notin Sockets
         /\ \A c \in Calls :
              /\ call[c].at \in Waiting \cup Leased \cup {"notify", "over"}
              /\ call[c].late \in BOOLEAN /\ call[c].stopped \in BOOLEAN
              /\ call[c].socket \in Sockets \cup {NoSocket}
              /\ call[c].tries \in 0 .. 3
              /\ call[c].nonce \in Nat /\ call[c].realm \in Nat
              /\ call[c].result \in Results
         /\ \A s \in Sockets :
              /\ socket[s].client \in BOOLEAN /\ socket[s].peer \in BOOLEAN
              /\ socket[s].keep \in BOOLEAN
              /\ socket[s].asked \in Seq(Requested)
              /\ socket[s].reply \in Seq(Answered)
         /\ node.nonce \in Nat \ {0} /\ node.realm \in Nat
         /\ node.faults \in Nat /\ node.stops \in Nat
         /\ node.ran \in [Calls -> Nat]
<1>1. setup \in [mode : {"basic", "cookie", "digest"}, calls : SUBSET Calls,
                 slots : Nat \ {0}, faults : Nat, stops : Nat]
  BY RpcAssumption DEF RpcTypeOK
<1>2. PerEndpoint \in Nat \ {0} /\ setup.mode \in {"basic", "cookie", "digest"}
  BY <1>1 DEF PerEndpoint
<1>3. NoSocket \notin Sockets
  BY RpcAssumption DEF NoSocket
<1>4. active \in Nat
  BY <1>2 DEF RpcTypeOK
<1>5. ASSUME NEW c \in Calls
      PROVE  /\ call[c].at \in Waiting \cup Leased \cup {"notify", "over"}
             /\ call[c].late \in BOOLEAN /\ call[c].stopped \in BOOLEAN
             /\ call[c].socket \in Sockets \cup {NoSocket}
             /\ call[c].tries \in 0 .. 3
             /\ call[c].nonce \in Nat /\ call[c].realm \in Nat
             /\ call[c].result \in Results
  BY <1>5 DEF RpcTypeOK
<1>6. ASSUME NEW s \in Sockets
      PROVE  /\ socket[s].client \in BOOLEAN /\ socket[s].peer \in BOOLEAN
             /\ socket[s].keep \in BOOLEAN
             /\ socket[s].asked \in Seq(Requested)
             /\ socket[s].reply \in Seq(Answered)
  <2> DEFINE asks == Seq(Requested)
             replies == Seq(Answered)
  <2>1. socket \in [Sockets -> [client : BOOLEAN, peer : BOOLEAN,
                                keep : BOOLEAN, asked : asks, reply : replies]]
    BY DEF RpcTypeOK, Requested, Answered
  <2> HIDE DEF asks, replies
  <2>2. socket[s] \in [client : BOOLEAN, peer : BOOLEAN, keep : BOOLEAN,
                       asked : asks, reply : replies]
    BY <1>6, <2>1
  <2>3. /\ socket[s].client \in BOOLEAN /\ socket[s].peer \in BOOLEAN
        /\ socket[s].keep \in BOOLEAN
        /\ socket[s].asked \in asks /\ socket[s].reply \in replies
    BY <2>2
  <2> QED
    BY <2>3 DEF asks, replies
<1>7. /\ node.nonce \in Nat \ {0} /\ node.realm \in Nat
      /\ node.faults \in Nat /\ node.stops \in Nat
      /\ node.ran \in [Calls -> Nat]
  BY DEF RpcTypeOK
<1> QED
  BY <1>2, <1>3, <1>4, <1>5, <1>6, <1>7

\* A message on the wire is a message, and there are no others behind it.
LEMMA Messages ==
  ASSUME RpcTypeOK, NEW s \in Sockets
  PROVE  /\ socket[s].asked # <<>> =>
               /\ Asked(s) = socket[s].asked[1] /\ Asked(s) \in Requested
               /\ Given(s) \in Calls
         /\ socket[s].reply # <<>> => socket[s].reply[1] \in Answered
         /\ Wire /\ socket[s].asked # <<>> => Tail(socket[s].asked) = <<>>
         /\ Wire /\ socket[s].reply # <<>> => Tail(socket[s].reply) = <<>>
<1>1. socket[s].asked \in Seq(Requested) /\ socket[s].reply \in Seq(Answered)
  BY Fields
<1>2. ASSUME NEW S, NEW q \in Seq(S), q # <<>>
      PROVE  Head(q) = q[1] /\ q[1] \in S /\ (Len(q) <= 1 => Tail(q) = <<>>)
  BY <1>2
<1>3. socket[s].asked # <<>> =>
         /\ Asked(s) = socket[s].asked[1] /\ Asked(s) \in Requested
         /\ Given(s) \in Calls
  <2>1. socket[s].asked # <<>> =>
           Asked(s) = socket[s].asked[1] /\ socket[s].asked[1] \in Requested
    BY <1>1, <1>2 DEF Asked
  <2> QED
    BY <2>1 DEF Given, Requested
<1>4. socket[s].reply # <<>> => socket[s].reply[1] \in Answered
  BY <1>1, <1>2
<1>5. Wire => Len(socket[s].asked) <= 1 /\ Len(socket[s].reply) <= 1
  BY DEF Wire
<1> QED
  BY <1>1, <1>2, <1>3, <1>4, <1>5

\* A call that waits for an answer has a connection, and an answer is one.
LEMMA ReplyType ==
  ASSUME RpcTypeOK, Stages, NEW c \in Calls
  PROVE  /\ call[c].at \in Exchange => call[c].socket \in Sockets
         /\ HasReply(c) => Reply(c) \in Answered
<1>1. call[c].at \in Exchange => call[c].socket \in Sockets
  BY Fields DEF Stages, Holds
<1>2. HasReply(c) => /\ call[c].socket \in Sockets
                     /\ socket[call[c].socket].reply # <<>>
  BY <1>1 DEF HasReply, At, Exchange
<1> QED
  BY <1>1, <1>2, Messages DEF Reply

\* The ways the node answers.
LEMMA NodeAnswers ==
  ASSUME RpcTypeOK, NEW s \in Sockets,
         NodeExecutes(s) \/ NodeChallenges(s) \/ NodeMisanswers(s)
  PROVE  \E answer \in Answered : /\ answer.of = Given(s) /\ Put(s, answer)
                                  /\ node'.ran = Ran(s, answer.status)
<1> DEFINE Goal == \E answer \in Answered :
                      /\ answer.of = Given(s) /\ Put(s, answer)
                      /\ node'.ran = Ran(s, answer.status)
<1>1. /\ Asked(s) = socket[s].asked[1] /\ Given(s) \in Calls
      /\ Asked(s).of = Given(s) /\ socket[s].asked # <<>>
  BY Messages DEF NodeExecutes, NodeChallenges, NodeMisanswers, Given
<1>2. node.ran \in [Calls -> Nat] /\ node.nonce \in Nat /\ node.realm \in Nat
  BY Fields
<1>3. <<>> \in ChallengeLists /\ <<"digest">> \in ChallengeLists
  BY DEF ChallengeLists
<1>4. Ran(s, 401) = node.ran
  BY <1>1, <1>2 DEF Ran
<1>5. Ran(s, 200) = [node.ran EXCEPT ![Given(s)] = @ + 1]
  BY DEF Ran
<1>6. ASSUME NodeExecutes(s) PROVE  Goal
  <2>1. PICK keep \in BOOLEAN :
           Put(s, Answer(s, 200, FALSE, <<>>, node.realm, keep))
    BY <1>6 DEF NodeExecutes
  <2>2. node'.ran = Ran(s, 200)
    BY <1>1, <1>5, <1>6 DEF NodeExecutes, RpcTypeOK
  <2>3. PICK answer : answer = Answer(s, 200, FALSE, <<>>, node.realm, keep)
    OBVIOUS
  <2>4. answer \in Answered /\ answer.of = Given(s) /\ answer.status = 200
    BY <1>1, <1>2, <1>3, <2>3 DEF Answer, Answered
  <2>5. Put(s, answer)
    BY <2>1, <2>3, Zenon
  <2> QED
    BY <2>2, <2>4, <2>5
<1>7. ASSUME NodeChallenges(s) PROVE  Goal
  <2>1. PICK schemes \in OfferedLists :
           Put(s, Answer(s, 401, Asked(s).nonce # 0, schemes, node.realm, TRUE))
    BY <1>7 DEF NodeChallenges
  <2>2. PICK answer : answer =
           Answer(s, 401, Asked(s).nonce # 0, schemes, node.realm, TRUE)
    OBVIOUS
  <2>3. node'.ran = Ran(s, 401)
    BY <1>4, <1>7 DEF NodeChallenges
  <2>4. answer \in Answered /\ answer.of = Given(s) /\ answer.status = 401
    BY <1>1, <1>2, <2>2 DEF Answer, Answered, ChallengeLists
  <2>5. Put(s, answer)
    BY <2>1, <2>2, Zenon
  <2> QED
    BY <2>3, <2>4, <2>5
<1>8. ASSUME NodeMisanswers(s) PROVE  Goal
  <2>1. CASE /\ node' = [node EXCEPT !.faults = @ + 1, !.ran[Asked(s).of] = @ + 1]
             /\ Put(s, Answer(s, 200, FALSE, <<>>, node.realm, TRUE))
    <3>1. node'.ran = Ran(s, 200)
      BY <1>1, <1>5, <2>1 DEF RpcTypeOK
    <3>2. PICK answer : answer = Answer(s, 200, FALSE, <<>>, node.realm, TRUE)
      OBVIOUS
    <3>3. answer \in Answered /\ answer.of = Given(s) /\ answer.status = 200
      BY <1>1, <1>2, <1>3, <3>2 DEF Answer, Answered
    <3>4. Put(s, answer)
      BY <2>1, <3>2, Zenon
    <3> QED
      BY <3>1, <3>3, <3>4
  <2>2. CASE /\ node' = [node EXCEPT !.faults = @ + 1]
             /\ Put(s, Answer(s, 401, FALSE, <<"digest">>, node.realm, TRUE))
    <3>1. node'.ran = Ran(s, 401)
      BY <1>4, <2>2 DEF RpcTypeOK
    <3>2. PICK answer : answer =
             Answer(s, 401, FALSE, <<"digest">>, node.realm, TRUE)
      OBVIOUS
    <3>3. answer \in Answered /\ answer.of = Given(s) /\ answer.status = 401
      BY <1>1, <1>2, <1>3, <3>2 DEF Answer, Answered
    <3>4. Put(s, answer)
      BY <2>2, <3>2, Zenon
    <3> QED
      BY <3>1, <3>3, <3>4
  <2> QED
    BY <1>8, <2>1, <2>2 DEF NodeMisanswers
<1> QED
  BY <1>6, <1>7, <1>8

-----------------------------------------------------------------------------
(* The type of the state.                                                  *)

Places == Waiting \cup Leased \cup {"notify", "over"}
Owned == Sockets \cup {NoSocket}
Attempts == 0 .. 3
CallType == [at : Places, late : BOOLEAN, stopped : BOOLEAN, socket : Owned,
             tries : Attempts, nonce : Nat, realm : Nat, result : Results]
SocketType == [client : BOOLEAN, peer : BOOLEAN, keep : BOOLEAN,
               asked : Seq(Requested), reply : Seq(Answered)]
NodeType == [nonce : Nat \ {0}, cookie : {"ok", "torn"}, realm : Nat,
             faults : Nat, stops : Nat, ran : [Calls -> Nat]]

\* The parts of the type, and the values of the operators over them.
LEMMA Parts ==
  RpcTypeOK <=> /\ setup \in RpcSetups /\ active \in 0 .. PerEndpoint
                /\ idle \in Seq(Sockets) /\ call \in [Calls -> CallType]
                /\ socket \in [Sockets -> SocketType] /\ node \in NodeType
                /\ lost \in BOOLEAN
BY DEF RpcTypeOK, CallType, SocketType, NodeType, Requested, Answered, Places,
  Owned, Attempts

\* The values the steps give to the fields of a call.
LEMMA Values ==
  /\ {"new", "admission", "asleep", "woken", "connection", "send", "reply",
      "check", "release", "notify", "over"} \subseteq Places
  /\ {"none", "answered", "alien", "cancelled", "failed", "rejected",
      "credentials", "admission", "connect"} \subseteq Results
  /\ NoSocket \in Owned /\ Sockets \subseteq Owned
  /\ 0 \in Attempts
BY DEF Places, Waiting, Leased, Results, Refusals, Owned, Attempts

\* Initially.
LEMMA InitTypes == RpcInit => RpcTypeOK
<1> SUFFICES ASSUME RpcInit PROVE  RpcTypeOK
  OBVIOUS
<1>1. setup \in RpcSetups /\ active \in 0 .. PerEndpoint
  BY RpcAssumption DEF RpcInit, PerEndpoint
<1>2. NewCall \in CallType
  BY Values DEF NewCall, CallType
<1>3. Closed \in SocketType
  BY DEF Closed, SocketType
<1>4. node \in NodeType
  BY DEF RpcInit, NodeType
<1>5. call \in [Calls -> CallType] /\ socket \in [Sockets -> SocketType]
  BY <1>2, <1>3 DEF RpcInit
<1>6. idle \in Seq(Sockets)
  BY DEF RpcInit
<1>7. lost \in BOOLEAN
  BY DEF RpcInit
<1> QED
  BY <1>1, <1>4, <1>5, <1>6, <1>7, Parts

\* What a step of a call leaves of the type of the calls.
LEMMA CallTypes ==
  ASSUME RpcTypeOK, Stages, NEW c \in Calls,
         CallStep(c) \/ DeadlinePasses(c) \/ Stop(c)
  PROVE  call' \in [Calls -> CallType]
<1>1. call \in [Calls -> CallType]
  BY Parts
<1>2. \A r \in Results : CallOver(r) \in CallType
  BY Values DEF CallOver, NewCall, CallType
<1>3. \A r \in Results : EndCall(c, r) \in [Calls -> CallType]
  BY <1>1, <1>2 DEF EndCall
<1>4. call[c].result \in Results
  BY Fields
<1>5. ASSUME PostJson(c) PROVE  call' \in [Calls -> CallType]
  <2>1. "credentials" \in Results
    BY Values
  <2>2. CASE ResolveCredentials
    BY <1>1, <1>5, <2>2, Values DEF PostJson, CallType
  <2>3. CASE ~ResolveCredentials
    BY <1>3, <1>5, <2>1, <2>3 DEF PostJson
  <2> QED
    BY <2>2, <2>3
<1>6. ASSUME Acquire(c) PROVE  call' \in [Calls -> CallType]
  <2>1. idle # <<>> => Last(idle) \in Sockets
    BY Parts DEF Last
  <2> QED
    BY <1>1, <1>6, <2>1, Values, ZenonT(60) DEF Acquire, CallType
<1>7. ASSUME WaitForSlot(c) PROVE  call' \in [Calls -> CallType]
  BY <1>1, <1>7, Values DEF WaitForSlot, CallType
<1>8. ASSUME GiveUpAdmission(c) PROVE  call' \in [Calls -> CallType]
  <2>1. "cancelled" \in Results /\ "admission" \in Results
    BY Values
  <2> QED
    BY <1>3, <1>8, <2>1 DEF GiveUpAdmission
<1>9. ASSUME Reuse(c) PROVE  call' \in [Calls -> CallType]
  BY <1>1, <1>9, Values DEF Reuse, CallType
<1>10. ASSUME Connect(c) PROVE  call' \in [Calls -> CallType]
  <2> DEFINE free == {s \in Sockets : /\ ~Drop(call[c].socket)[s].client
                                      /\ Drop(call[c].socket)[s].asked = <<>>}
  <2>1. PICK s \in Sockets :
           call' = [call EXCEPT ![c].at = "send", ![c].socket = s]
    <3>1. free # {}
      BY <1>10 DEF Connect
    <3>2. (CHOOSE x \in free : TRUE) \in Sockets
      BY <3>1
    <3> QED
      BY <1>10, <3>2 DEF Connect
  <2> QED
    BY <1>1, <2>1, Values, ZenonT(60) DEF CallType
<1>11. ASSUME ConnectFails(c) PROVE  call' \in [Calls -> CallType]
  <2>1. PICK r \in Results :
           call' = [call EXCEPT ![c].at = "release", ![c].socket = NoSocket,
                                ![c].result = r]
    BY <1>11, Values DEF ConnectFails
  <2> QED
    BY <1>1, <2>1, Values, ZenonT(60) DEF CallType
<1>12. ASSUME Send(c) PROVE  call' \in [Calls -> CallType]
  <2>1. call[c].tries + 1 \in Attempts
    BY <1>12, Fields DEF Send, Stages, At, Attempts
  <2> QED
    BY <1>1, <1>12, <2>1, Values, ZenonT(60) DEF Send, CallType
<1>13. ASSUME NEW r \in Results, Abandon(c, r) PROVE  call' \in [Calls -> CallType]
  BY <1>1, <1>13, Values, ZenonT(60) DEF Abandon, CallType
<1>14. ASSUME GiveUpExchange(c) \/ ConnectionLost(c)
       PROVE  call' \in [Calls -> CallType]
  <2>1. "cancelled" \in Results /\ "failed" \in Results
    BY Values
  <2> QED
    BY <1>13, <1>14, <2>1 DEF GiveUpExchange, ConnectionLost
<1>15. HasReply(c) => Reply(c).nonce \in Nat /\ Reply(c).realm \in Nat
  BY ReplyType DEF Answered
<1>16. "rejected" \in Results
  BY Values
<1>17. ASSUME TakeChallenge(c) PROVE  call' \in [Calls -> CallType]
  <2>1. CASE Abandon(c, "rejected")
    BY <1>13, <1>16, <2>1
  <2>2. CASE ~Abandon(c, "rejected")
    <3>1. call' = [call EXCEPT ![c].at = "send", ![c].nonce = Reply(c).nonce,
                               ![c].realm = Reply(c).realm]
      BY <1>17, <2>2 DEF TakeChallenge
    <3>2. Reply(c).nonce \in Nat /\ Reply(c).realm \in Nat
      BY <1>15, <1>17 DEF TakeChallenge
    <3> QED
      BY <1>1, <3>1, <3>2, Values, ZenonT(60) DEF CallType
  <2> QED
    BY <2>1, <2>2
<1>18. ASSUME RefreshChallenge(c) PROVE  call' \in [Calls -> CallType]
  <2>1. CASE Abandon(c, "rejected")
    BY <1>13, <1>16, <2>1
  <2>2. CASE ~Abandon(c, "rejected")
    <3>1. call' = [call EXCEPT ![c].at = "send", ![c].nonce = Reply(c).nonce]
      BY <1>18, <2>2 DEF RefreshChallenge
    <3>2. Reply(c).nonce \in Nat
      BY <1>15, <1>18 DEF RefreshChallenge
    <3> QED
      BY <1>1, <3>1, <3>2, Values, ZenonT(60) DEF CallType
  <2> QED
    BY <2>1, <2>2
<1>19. ASSUME Deliver(c) PROVE  call' \in [Calls -> CallType]
  <2>1. PICK r \in Results :
           call' = [call EXCEPT ![c].at = "check", ![c].result = r]
    BY <1>19, Values DEF Deliver
  <2> QED
    BY <1>1, <2>1, Values, ZenonT(60) DEF CallType
<1>20. ASSUME CheckConnection(c) PROVE  call' \in [Calls -> CallType]
  BY <1>1, <1>20, Values, ZenonT(60) DEF CheckConnection, CallType
<1>21. ASSUME Release(c) PROVE  call' \in [Calls -> CallType]
  BY <1>1, <1>21, Values, ZenonT(60) DEF Release, CallType
<1>22. ASSUME Notify(c) PROVE  call' \in [Calls -> CallType]
  <2>1. PICK over \in [Calls -> CallType] : over = EndCall(c, call[c].result)
    BY <1>3, <1>4
  <2>2. \/ call' = over
        \/ \E d \in Calls : call' = [over EXCEPT ![d].at = "woken"]
    BY <1>22, <2>1 DEF Notify
  <2>3. ASSUME NEW d \in Calls
        PROVE  [over EXCEPT ![d].at = "woken"] \in [Calls -> CallType]
    BY <2>1, Values DEF CallType
  <2> QED
    BY <2>1, <2>2, <2>3
<1>23. ASSUME DeadlinePasses(c) PROVE  call' \in [Calls -> CallType]
  BY <1>1, <1>23, Values, ZenonT(60) DEF DeadlinePasses, CallType
<1>24. ASSUME Stop(c) PROVE  call' \in [Calls -> CallType]
  <2>1. PICK all \in BOOLEAN :
           call' = [d \in Calls |->
                      [call[d] EXCEPT !.stopped = @ \/ (d = c),
                          !.at = IF all /\ @ = "asleep" THEN "woken" ELSE @]]
    BY <1>24 DEF Stop
  <2>2. ASSUME NEW d \in Calls
        PROVE  [call[d] EXCEPT !.stopped = @ \/ (d = c),
                   !.at = IF all /\ @ = "asleep" THEN "woken" ELSE @] \in CallType
    BY <1>1, <2>2, Values DEF CallType
  <2> QED
    BY <2>1, <2>2
<1> QED
  BY <1>5, <1>6, <1>7, <1>8, <1>9, <1>10, <1>11, <1>12, <1>14, <1>17, <1>18,
    <1>19, <1>20, <1>21, <1>22, <1>23, <1>24 DEF CallStep

\* A connection that this side closes.
LEMMA DropType ==
  ASSUME RpcTypeOK, NEW own \in Owned
  PROVE  Drop(own) \in [Sockets -> SocketType]
<1>1. socket \in [Sockets -> SocketType]
  BY Parts
<1>2. <<>> \in Seq(Answered)
  OBVIOUS
<1> QED
  BY <1>1, <1>2 DEF Drop, SocketType, Owned

\* The type of the connections.
LEMMA SocketTypes ==
  ASSUME RpcTypeOK, Stages, RpcNext
  PROVE  socket' \in [Sockets -> SocketType]
<1>1. socket \in [Sockets -> SocketType]
  BY Parts
<1>2. ASSUME NEW own \in Owned PROVE  Drop(own) \in [Sockets -> SocketType]
  BY DropType
<1>3. \A c \in Calls : call[c].socket \in Owned
  BY Fields DEF Owned
<1>4. ASSUME NEW c \in Calls, NEW r, Abandon(c, r)
      PROVE  socket' \in [Sockets -> SocketType]
  BY <1>2, <1>3, <1>4 DEF Abandon
<1>5. ASSUME NEW c \in Calls, HasReply(c),
             socket' = [socket EXCEPT ![call[c].socket].reply = Tail(@),
                                      ![call[c].socket].keep = Reply(c).keep]
      PROVE  socket' \in [Sockets -> SocketType]
  <2>1. /\ call[c].socket \in Sockets /\ Reply(c) \in Answered
        /\ socket[call[c].socket].reply # <<>>
    BY <1>5, ReplyType DEF HasReply, At, Exchange
  <2>2. Reply(c).keep \in BOOLEAN
    BY <2>1 DEF Answered
  <2>3. Tail(socket[call[c].socket].reply) \in Seq(Answered)
    BY <2>1, Fields
  <2>4. ASSUME NEW e \in SocketType, NEW rest \in Seq(Answered),
               NEW keep \in BOOLEAN
        PROVE  [e EXCEPT !.reply = rest, !.keep = keep] \in SocketType
    BY <2>4, ZenonT(60) DEF SocketType
  <2>5. PICK e \in SocketType : e = [socket[call[c].socket] EXCEPT
           !.reply = Tail(socket[call[c].socket].reply),
           !.keep = Reply(c).keep]
    BY <1>1, <2>1, <2>2, <2>3, <2>4
  <2>6. socket' = [socket EXCEPT ![call[c].socket] = e]
    BY <1>1, <1>5, <2>1, <2>5 DEF SocketType
  <2> QED
    BY <1>1, <2>1, <2>6
<1>6. ASSUME NEW c \in Calls, Connect(c)
      PROVE  socket' \in [Sockets -> SocketType]
  <2> DEFINE dropped == Drop(call[c].socket)
             free == {s \in Sockets : /\ ~dropped[s].client
                                      /\ dropped[s].asked = <<>>}
             fresh == [Closed EXCEPT !.client = TRUE, !.peer = TRUE]
  <2>1. free # {} /\ (CHOOSE x \in free : TRUE) \in Sockets
    <3>1. free # {}
      BY <1>6 DEF Connect
    <3> QED
      BY <3>1
  <2>2. PICK s \in Sockets : socket' = [dropped EXCEPT ![s] = fresh]
    BY <1>6, <2>1 DEF Connect
  <2>3. dropped \in [Sockets -> SocketType]
    BY <1>2, <1>3
  <2>4. fresh \in SocketType
    <3>1. Closed \in SocketType
      BY DEF Closed, SocketType
    <3>2. \A z \in SocketType :
             [z EXCEPT !.client = TRUE, !.peer = TRUE] \in SocketType
      BY DEF SocketType
    <3> QED
      BY <3>1, <3>2
  <2> HIDE DEF dropped, fresh
  <2> QED
    BY <2>2, <2>3, <2>4
<1>7. ASSUME NEW c \in Calls, ConnectFails(c) \/ CheckConnection(c)
      PROVE  socket' \in [Sockets -> SocketType]
  BY <1>1, <1>2, <1>3, <1>7 DEF ConnectFails, CheckConnection
<1>8. ASSUME NEW c \in Calls, Send(c)
      PROVE  socket' \in [Sockets -> SocketType]
  <2>1. CASE socket' = socket
    BY <1>1, <2>1
  <2>2. CASE socket' # socket
    <3>1. call[c].socket \in Sockets
      BY <1>8, ReplyType DEF Send, At, Exchange
    <3>2. Authorization(c) \in Nat
      BY Fields DEF Authorization
    <3>3. PICK x \in Requested :
             socket' = [socket EXCEPT ![call[c].socket].asked = Append(@, x)]
      <4>1. [of |-> c, nonce |-> Authorization(c)] \in Requested
        BY <3>2 DEF Requested
      <4> QED
        BY <1>8, <2>2, <4>1 DEF Send
    <3>4. Append(socket[call[c].socket].asked, x) \in Seq(Requested)
      BY <3>1, Fields
    <3> QED
      BY <1>1, <3>1, <3>3, <3>4 DEF SocketType
  <2> QED
    BY <2>1, <2>2
<1>9. ASSUME NEW c \in Calls, Deliver(c)
      PROVE  socket' \in [Sockets -> SocketType]
  BY <1>5, <1>9 DEF Deliver
<1>10. ASSUME NEW c \in Calls, TakeChallenge(c)
       PROVE  socket' \in [Sockets -> SocketType]
  BY <1>4, <1>5, <1>10 DEF TakeChallenge
<1>11. ASSUME NEW c \in Calls, RefreshChallenge(c)
       PROVE  socket' \in [Sockets -> SocketType]
  BY <1>4, <1>5, <1>11 DEF RefreshChallenge
<1>12. ASSUME NEW c \in Calls, GiveUpExchange(c) \/ ConnectionLost(c)
       PROVE  socket' \in [Sockets -> SocketType]
  BY <1>4, <1>12 DEF GiveUpExchange, ConnectionLost
<1>13. ASSUME NEW c \in Calls,
              \/ PostJson(c) \/ Acquire(c) \/ WaitForSlot(c)
              \/ GiveUpAdmission(c) \/ Reuse(c) \/ Release(c) \/ Notify(c)
              \/ DeadlinePasses(c) \/ Stop(c)
       PROVE  socket' \in [Sockets -> SocketType]
  BY <1>1, <1>13 DEF PostJson, Acquire, WaitForSlot, GiveUpAdmission, Reuse,
    Release, Notify, DeadlinePasses, Stop
<1>14. ASSUME NEW s \in Sockets, NodeCloses(s)
       PROVE  socket' \in [Sockets -> SocketType]
  BY <1>1, <1>14 DEF NodeCloses, SocketType
<1>15. ASSUME NEW s \in Sockets, NEW answer \in Answered,
              socket[s].asked # <<>>, Put(s, answer)
       PROVE  socket' \in [Sockets -> SocketType]
  <2>1. /\ Tail(socket[s].asked) \in Seq(Requested)
        /\ Append(socket[s].reply, answer) \in Seq(Answered)
        /\ socket[s].reply \in Seq(Answered)
    BY <1>15, Fields
  <2>2. PICK reply \in Seq(Answered) :
           socket' = [socket EXCEPT ![s].asked = Tail(@), ![s].reply = reply]
    BY <1>15, <2>1 DEF Put
  <2> QED
    BY <1>1, <2>1, <2>2 DEF SocketType
<1>16. ASSUME NEW s \in Sockets,
              NodeExecutes(s) \/ NodeChallenges(s) \/ NodeMisanswers(s)
       PROVE  socket' \in [Sockets -> SocketType]
  <2>1. \E answer \in Answered : Put(s, answer)
    BY <1>16, NodeAnswers
  <2> QED
    BY <1>15, <1>16, <2>1 DEF NodeExecutes, NodeChallenges, NodeMisanswers
<1>17. ASSUME NodeExpiresNonce \/ NodeRewritesCookie
       PROVE  socket' \in [Sockets -> SocketType]
  BY <1>1, <1>17 DEF NodeExpiresNonce, NodeRewritesCookie
<1> QED
  BY <1>6, <1>7, <1>8, <1>9, <1>10, <1>11, <1>12, <1>13, <1>14, <1>16, <1>17
    DEF RpcNext, CallStep, NodeStep

\* The rest of the type.
LEMMA OtherTypes ==
  ASSUME RpcTypeOK, Slots, RpcNext
  PROVE  /\ setup' \in RpcSetups /\ active' \in 0 .. PerEndpoint'
         /\ idle' \in Seq(Sockets) /\ node' \in NodeType /\ lost' \in BOOLEAN
<1>1. /\ setup \in RpcSetups /\ active \in 0 .. PerEndpoint
      /\ idle \in Seq(Sockets) /\ node \in NodeType /\ lost \in BOOLEAN
  BY Parts
<1> node \in NodeType
  BY Parts
<1>2. PerEndpoint \in Nat
  BY Fields
<1>3. ASSUME NEW f \in Nat
      PROVE  /\ [node EXCEPT !.faults = f] \in NodeType
             /\ [node EXCEPT !.stops = f] \in NodeType
             /\ [node EXCEPT !.cookie = "torn", !.faults = f] \in NodeType
             /\ [node EXCEPT !.cookie = "ok"] \in NodeType
  BY DEF NodeType
<1>4. ASSUME NEW f \in Nat, NEW k \in Nat \ {0}, NEW r \in Nat
      PROVE  [node EXCEPT !.faults = f, !.nonce = k, !.realm = r] \in NodeType
  BY DEF NodeType
<1>6. ASSUME UNCHANGED <<setup, active, idle>>
      PROVE  /\ setup' \in RpcSetups /\ active' \in 0 .. PerEndpoint'
             /\ idle' \in Seq(Sockets)
  BY <1>1, <1>6 DEF PerEndpoint
<1>7. ASSUME NEW c \in Calls, Acquire(c)
      PROVE  /\ setup' \in RpcSetups /\ active' \in 0 .. PerEndpoint'
             /\ idle' \in Seq(Sockets) /\ node' \in NodeType
             /\ lost' \in BOOLEAN
  <2>1. setup' = setup /\ active' = active + 1 /\ active < PerEndpoint
    BY <1>7 DEF Acquire
  <2>2. idle' \in Seq(Sockets)
    BY <1>1, <1>7 DEF Acquire, Front
  <2>3. node' = node /\ lost' = lost
    BY <1>7 DEF Acquire
  <2>4. active' \in 0 .. PerEndpoint'
    BY <1>1, <1>2, <2>1 DEF PerEndpoint
  <2> QED
    BY <1>1, <2>1, <2>2, <2>3, <2>4
<1>8. ASSUME NEW c \in Calls, Release(c)
      PROVE  /\ setup' \in RpcSetups /\ active' \in 0 .. PerEndpoint'
             /\ idle' \in Seq(Sockets) /\ node' \in NodeType
             /\ lost' \in BOOLEAN
  <2>1. setup' = setup /\ active' = active - 1
    BY <1>8 DEF Release
  <2>2. active >= 1
    <3>1. c \in Leases
      BY <1>8 DEF Leases, Leased, Release, At
    <3>2. IsFiniteSet(Leases)
      BY RpcAssumption, FS_Subset DEF Leases
    <3>3. Cardinality(Leases) # 0
      BY <3>1, <3>2, FS_EmptySet
    <3> QED
      BY <1>1, <1>2, <3>3 DEF Slots
  <2>3. idle' \in Seq(Sockets)
    <3>1. call[c].socket # NoSocket => call[c].socket \in Sockets
      BY Fields
    <3> QED
      BY <1>1, <1>8, <3>1 DEF Release
  <2>4. node' = node /\ lost' = lost
    BY <1>8 DEF Release
  <2>5. active' \in 0 .. PerEndpoint'
    BY <1>1, <1>2, <2>1, <2>2 DEF PerEndpoint
  <2> QED
    BY <1>1, <2>1, <2>3, <2>4, <2>5
<1>9. ASSUME NEW c \in Calls,
             \/ PostJson(c) \/ WaitForSlot(c) \/ GiveUpAdmission(c)
             \/ Reuse(c) \/ Connect(c) \/ Send(c) \/ GiveUpExchange(c)
             \/ ConnectionLost(c) \/ Deliver(c) \/ TakeChallenge(c)
             \/ RefreshChallenge(c) \/ CheckConnection(c) \/ Notify(c)
             \/ DeadlinePasses(c)
      PROVE  /\ UNCHANGED <<setup, active, idle, node>>
             /\ lost' \in BOOLEAN
  <2>1. UNCHANGED <<setup, active, idle, node>>
    BY <1>9 DEF PostJson, WaitForSlot, GiveUpAdmission, Reuse, Connect, Send,
      GiveUpExchange, ConnectionLost, Deliver, TakeChallenge,
      RefreshChallenge, CheckConnection, Notify, DeadlinePasses
  <2>2. lost' = lost \/ GiveUpAdmission(c)
    BY <1>9 DEF PostJson, WaitForSlot, Reuse, Connect, Send,
      GiveUpExchange, ConnectionLost, Deliver, TakeChallenge,
      RefreshChallenge, CheckConnection, Notify, DeadlinePasses
  <2>3. GiveUpAdmission(c) => lost' \in BOOLEAN
    BY DEF GiveUpAdmission
  <2> QED
    BY <1>1, <2>1, <2>2, <2>3
<1>10. ASSUME NEW c \in Calls, ConnectFails(c) \/ Stop(c)
      PROVE  UNCHANGED <<setup, active, idle, lost>> /\ node' \in NodeType
  <2>1. UNCHANGED <<setup, active, idle, lost>>
    BY <1>10 DEF ConnectFails, Stop
  <2>2. \/ node' = node \/ node' = [node EXCEPT !.faults = @ + 1]
        \/ node' = [node EXCEPT !.stops = @ + 1]
    BY <1>10 DEF ConnectFails, Stop
  <2>3. node.faults + 1 \in Nat /\ node.stops + 1 \in Nat
    BY Fields
  <2>4. node' \in NodeType
    BY <1>3, <2>2, <2>3
  <2> QED
    BY <2>1, <2>4
<1>11. ASSUME NEW s \in Sockets, NodeStep(s)
      PROVE  UNCHANGED <<setup, active, idle, lost>> /\ node' \in NodeType
  <2>1. UNCHANGED <<setup, active, idle, lost>>
    BY <1>11 DEF NodeStep, NodeExecutes, NodeChallenges, NodeCloses,
      NodeMisanswers
  <2>2. socket[s].asked # <<>> => Asked(s).of \in Calls
    BY Messages DEF Requested
  <2>3. CASE NodeExecutes(s)
    <3>1. Asked(s).of \in Calls
      BY <2>2, <2>3 DEF NodeExecutes
    <3>2. node' = [node EXCEPT !.ran[Asked(s).of] = @ + 1]
      BY <2>3 DEF NodeExecutes
    <3>3. node' \in NodeType
      BY <3>1, <3>2 DEF NodeType
    <3> QED
      BY <2>1, <3>3
  <2>4. CASE NodeChallenges(s)
    BY <1>1, <2>1, <2>4 DEF NodeChallenges
  <2>5. CASE NodeCloses(s)
    <3>1. node' = [node EXCEPT !.faults = @ + 1]
      BY <2>5 DEF NodeCloses
    <3>2. node' \in NodeType
      BY <3>1 DEF NodeType
    <3> QED
      BY <2>1, <3>2
  <2>6. CASE NodeMisanswers(s)
    <3>1. Asked(s).of \in Calls
      BY <2>2, <2>6 DEF NodeMisanswers
    <3>2. \/ node' = [node EXCEPT !.faults = @ + 1]
          \/ node' = [node EXCEPT !.faults = @ + 1, !.ran[Asked(s).of] = @ + 1]
      BY <2>6 DEF NodeMisanswers
    <3>3. node.faults + 1 \in Nat /\ node.ran[Asked(s).of] + 1 \in Nat
      BY <3>1, Fields
    <3>4. node' \in NodeType
      <4>1. CASE node' = [node EXCEPT !.faults = @ + 1]
        BY <1>3, <3>3, <4>1
      <4>2. CASE node' = [node EXCEPT !.faults = @ + 1,
                                      !.ran[Asked(s).of] = @ + 1]
        <5>1. PICK c \in Calls : c = Asked(s).of
          BY <3>1
        <5>2. PICK n \in NodeType : n = [node EXCEPT !.faults = @ + 1]
          BY <1>3, <3>3
        <5>3. node' = [n EXCEPT !.ran[c] = @ + 1]
          BY <4>2, <5>1, <5>2
        <5> QED
          BY <5>3 DEF NodeType
      <4> QED
        BY <3>2, <4>1, <4>2
    <3> QED
      BY <2>1, <3>4
  <2> QED
    BY <1>11, <2>3, <2>4, <2>5, <2>6 DEF NodeStep
<1>12. ASSUME NodeExpiresNonce \/ NodeRewritesCookie
      PROVE  UNCHANGED <<setup, active, idle, lost>> /\ node' \in NodeType
  <2>1. UNCHANGED <<setup, active, idle, lost>>
    BY <1>12 DEF NodeExpiresNonce, NodeRewritesCookie
  <2>2. CASE NodeExpiresNonce
    <3>1. PICK realm \in Nat :
             node' = [node EXCEPT !.faults = @ + 1, !.nonce = @ + 1,
                                  !.realm = realm]
      BY <1>1, <2>2 DEF NodeExpiresNonce, NodeType
    <3>2. node.faults + 1 \in Nat /\ node.nonce + 1 \in Nat \ {0}
      BY Fields
    <3>3. node' \in NodeType
      BY <1>4, <3>1, <3>2
    <3> QED
      BY <2>1, <3>3
  <2>3. CASE NodeRewritesCookie
    <3>1. \/ node' = [node EXCEPT !.cookie = "torn", !.faults = @ + 1]
          \/ node' = [node EXCEPT !.cookie = "ok"]
      BY <2>3 DEF NodeRewritesCookie
    <3>2. node.faults + 1 \in Nat
      BY Fields
    <3>3. node' \in NodeType
      BY <1>3, <3>1, <3>2
    <3> QED
      BY <2>1, <3>3
  <2> QED
    BY <1>12, <2>2, <2>3
<1> QED
  BY <1>1, <1>6, <1>7, <1>8, <1>9, <1>10, <1>11, <1>12 DEF RpcNext, CallStep

\* Every step keeps the type of the state.
LEMMA TypeStep ==
  ASSUME RpcTypeOK, Stages, Slots, RpcNext
  PROVE  RpcTypeOK'
<1>1. call' \in [Calls -> CallType]
  <2>1. CASE \E c \in Calls : CallStep(c) \/ DeadlinePasses(c) \/ Stop(c)
    BY <2>1, CallTypes
  <2>2. CASE \/ \E s \in Sockets : NodeStep(s)
             \/ NodeExpiresNonce \/ NodeRewritesCookie
    <3>1. call' = call
      BY <2>2 DEF NodeStep, NodeExecutes, NodeChallenges, NodeCloses,
        NodeMisanswers, NodeExpiresNonce, NodeRewritesCookie
    <3> QED
      BY <3>1, Parts
  <2> QED
    BY <2>1, <2>2 DEF RpcNext
<1>2. socket' \in [Sockets -> SocketType]
  BY SocketTypes
<1>3. /\ setup' \in RpcSetups /\ active' \in 0 .. PerEndpoint'
      /\ idle' \in Seq(Sockets) /\ node' \in NodeType /\ lost' \in BOOLEAN
  BY OtherTypes
<1> QED
  BY <1>1, <1>2, <1>3 DEF RpcTypeOK, CallType, SocketType, NodeType, Requested,
    Answered, Places, Owned, Attempts

-----------------------------------------------------------------------------
(* Every step is one of the kinds above.                                   *)

\* What the updates of a call come to.
LEMMA CallUpdates ==
  ASSUME RpcTypeOK, NEW c \in Calls, NEW at, NEW own, NEW result, NEW tries
  PROVE  /\ call' = [call EXCEPT ![c].at = at] => MovedTo(c, at)
         /\ call' = [call EXCEPT ![c].at = at, ![c].socket = own] =>
               Moved(c, at, own, call[c].tries, call[c].result)
         /\ call' = [call EXCEPT ![c].at = at, ![c].result = result] =>
               Moved(c, at, call[c].socket, call[c].tries, result)
         /\ call' = [call EXCEPT ![c].at = at, ![c].tries = tries] =>
               Moved(c, at, call[c].socket, tries, call[c].result)
         /\ call' = [call EXCEPT ![c].at = at, ![c].socket = own,
                                 ![c].result = result] =>
               Moved(c, at, own, call[c].tries, result)
         /\ call' = EndCall(c, result) => Moved(c, "over", NoSocket, 0, result)
<1>1. call \in [Calls -> CallType]
  BY Parts
<1>2. ASSUME call' = [call EXCEPT ![c].at = at] PROVE  MovedTo(c, at)
  BY <1>1, <1>2 DEF MovedTo, Moved, CallType
<1>3. ASSUME call' = [call EXCEPT ![c].at = at, ![c].socket = own]
      PROVE  Moved(c, at, own, call[c].tries, call[c].result)
  BY <1>1, <1>3 DEF Moved, CallType
<1>4. ASSUME call' = [call EXCEPT ![c].at = at, ![c].result = result]
      PROVE  Moved(c, at, call[c].socket, call[c].tries, result)
  BY <1>1, <1>4 DEF Moved, CallType
<1>5. ASSUME call' = [call EXCEPT ![c].at = at, ![c].tries = tries]
      PROVE  Moved(c, at, call[c].socket, tries, call[c].result)
  BY <1>1, <1>5 DEF Moved, CallType
<1>6. ASSUME call' = [call EXCEPT ![c].at = at, ![c].socket = own,
                                  ![c].result = result]
      PROVE  Moved(c, at, own, call[c].tries, result)
  BY <1>1, <1>6 DEF Moved, CallType
<1>7. ASSUME call' = EndCall(c, result)
      PROVE  Moved(c, "over", NoSocket, 0, result)
  <2>1. /\ CallOver(result).at = "over" /\ CallOver(result).socket = NoSocket
        /\ CallOver(result).tries = 0 /\ CallOver(result).result = result
    BY DEF CallOver, NewCall
  <2>2. call'[c] = CallOver(result) /\ \A d \in Calls \ {c} : call'[d] = call[d]
    BY <1>1, <1>7 DEF EndCall
  <2> QED
    BY <2>1, <2>2 DEF Moved
<1> QED
  BY <1>2, <1>3, <1>4, <1>5, <1>6, <1>7

\* What the updates of a connection come to.
LEMMA SocketUpdates ==
  ASSUME RpcTypeOK, NEW c \in Calls
  PROVE  /\ socket' = Drop(call[c].socket) => Dropped(c)
         /\ \A keep : call[c].socket \in Sockets =>
               (socket' = [socket EXCEPT ![call[c].socket].reply = Tail(@),
                                         ![call[c].socket].keep = keep]
                   => Read(c))
<1>1. socket \in [Sockets -> SocketType]
  BY Parts
<1>2. call[c].socket \in Sockets \/ call[c].socket = NoSocket
  BY Fields
<1>3. ASSUME socket' = Drop(call[c].socket) PROVE  Dropped(c)
  <2>1. CASE ~Holds(c)
    BY <1>3, <2>1 DEF Dropped, Drop, Holds
  <2>2. CASE Holds(c)
    <3>1. call[c].socket \in Sockets
      BY <1>2, <2>2 DEF Holds
    <3>2. socket' = [socket EXCEPT ![call[c].socket].client = FALSE,
                                   ![call[c].socket].reply = <<>>]
      BY <1>3, <2>2 DEF Drop, Holds
    <3> QED
      BY <1>1, <3>1, <3>2 DEF Dropped, Mine, SocketType
  <2> QED
    BY <2>1, <2>2
<1>4. ASSUME NEW keep, call[c].socket \in Sockets,
             socket' = [socket EXCEPT ![call[c].socket].reply = Tail(@),
                                      ![call[c].socket].keep = keep]
      PROVE  Read(c)
  BY <1>1, <1>4 DEF Read, Carries, Mine, SocketType
<1> QED
  BY <1>3, <1>4

\* Admission.
LEMMA AdmissionSteps ==
  ASSUME RpcTypeOK, NEW c \in Calls
  PROVE  /\ PostJson(c) => Entered(c) \/ Declined(c)
         /\ Acquire(c) => Acquired(c)
         /\ WaitForSlot(c) => Slept(c)
         /\ GiveUpAdmission(c) => Declined(c)
<1>1. ASSUME PostJson(c) PROVE  Entered(c) \/ Declined(c)
  <2>1. /\ At(c, "new") /\ node' = node
        /\ UNCHANGED <<setup, active, idle, socket, lost>>
    BY <1>1 DEF PostJson
  <2>2. \/ call' = [call EXCEPT ![c].at = "admission"]
        \/ call' = EndCall(c, "credentials")
    BY <1>1 DEF PostJson
  <2>3. CASE call' = [call EXCEPT ![c].at = "admission"]
    <3>1. MovedTo(c, "admission")
      BY <2>3, CallUpdates
    <3> QED
      BY <2>1, <3>1 DEF Entered, Apart, SameSlots, SameRuns
  <2>4. CASE call' = EndCall(c, "credentials")
    <3>1. Moved(c, "over", NoSocket, 0, "credentials")
      BY <2>4, CallUpdates
    <3> QED
      BY <2>1, <3>1 DEF Declined, SameRuns, At
  <2> QED
    BY <2>2, <2>3, <2>4
<1>2. ASSUME Acquire(c) PROVE  Acquired(c)
  <2>1. /\ call[c].at \in {"admission", "woken"} /\ node' = node
        /\ active < PerEndpoint /\ active' = active + 1
        /\ UNCHANGED <<setup, socket, lost>>
    BY <1>2 DEF Acquire
  <2>2. CASE idle = <<>>
    <3>1. /\ idle' = idle
          /\ call' = [call EXCEPT ![c].at = "connection", ![c].socket = NoSocket]
      BY <1>2, <2>2 DEF Acquire
    <3>2. Moved(c, "connection", NoSocket, call[c].tries, call[c].result)
      BY <3>1, CallUpdates
    <3> QED
      BY <2>1, <2>2, <3>1, <3>2 DEF Acquired, SameRuns
  <2>3. CASE idle # <<>>
    <3>1. /\ idle' = SubSeq(idle, 1, Len(idle) - 1)
          /\ call' = [call EXCEPT ![c].at = "connection",
                                  ![c].socket = idle[Len(idle)]]
      BY <1>2, <2>3 DEF Acquire, Front, Last
    <3>2. Moved(c, "connection", idle[Len(idle)], call[c].tries, call[c].result)
      BY <3>1, CallUpdates
    <3> QED
      BY <2>1, <2>3, <3>1, <3>2 DEF Acquired, SameRuns
  <2> QED
    BY <2>2, <2>3
<1>3. ASSUME WaitForSlot(c) PROVE  Slept(c)
  <2>1. MovedTo(c, "asleep")
    BY <1>3, CallUpdates DEF WaitForSlot
  <2> QED
    BY <1>3, <2>1 DEF WaitForSlot, Slept, Apart, SameSlots, SameRuns
<1>4. ASSUME GiveUpAdmission(c) PROVE  Declined(c)
  <2>1. /\ call[c].at \in {"admission", "woken"} /\ node' = node
        /\ UNCHANGED <<setup, active, idle, socket>>
    BY <1>4 DEF GiveUpAdmission
  <2>2. (lost => lost') /\ (At(c, "woken") /\ active < PerEndpoint => lost')
    BY <1>4 DEF GiveUpAdmission
  <2>3. \/ call' = EndCall(c, "cancelled") \/ call' = EndCall(c, "admission")
    BY <1>4 DEF GiveUpAdmission
  <2>4. \/ Moved(c, "over", NoSocket, 0, "cancelled")
        \/ Moved(c, "over", NoSocket, 0, "admission")
    BY <2>3, CallUpdates
  <2> QED
    BY <2>1, <2>2, <2>4 DEF Declined, SameRuns
<1> QED
  BY <1>1, <1>2, <1>3, <1>4

\* The connection.
LEMMA ConnectionSteps ==
  ASSUME RpcTypeOK, NEW c \in Calls
  PROVE  /\ Reuse(c) => Reused(c)
         /\ Connect(c) => Connected(c)
         /\ ConnectFails(c) => Failed(c)
<1>1. ASSUME Reuse(c) PROVE  Reused(c)
  <2>1. MovedTo(c, "send")
    BY <1>1, CallUpdates DEF Reuse
  <2> QED
    BY <1>1, <2>1 DEF Reuse, Reused, Holds, Apart, SameSlots, SameRuns
<1>2. ASSUME Connect(c) PROVE  Connected(c)
  <2> DEFINE dropped == Drop(call[c].socket)
             free == {s \in Sockets : /\ ~dropped[s].client
                                      /\ dropped[s].asked = <<>>}
             fresh == [Closed EXCEPT !.client = TRUE, !.peer = TRUE]
  <2>1. free # {} /\ (CHOOSE x \in free : TRUE) \in free
    <3>1. free # {}
      BY <1>2 DEF Connect
    <3> QED
      BY <3>1
  <2>2. PICK s \in free :
           /\ socket' = [dropped EXCEPT ![s] = fresh]
           /\ call' = [call EXCEPT ![c].at = "send", ![c].socket = s]
    BY <1>2, <2>1 DEF Connect
  <2>3. /\ dropped \in [Sockets -> SocketType]
        /\ \A t \in Sockets : t # call[c].socket => dropped[t] = socket[t]
        /\ Holds(c) => /\ dropped[call[c].socket].client = FALSE
                       /\ dropped[call[c].socket].asked = Mine(c).asked
                       /\ dropped[call[c].socket].reply = <<>>
    <3>1. socket \in [Sockets -> SocketType]
      BY Parts
    <3>2. CASE ~Holds(c)
      BY <3>1, <3>2 DEF Drop, Holds
    <3>3. CASE Holds(c)
      <4>1. call[c].socket \in Sockets
        BY <3>3, Fields DEF Holds
      <4>2. dropped = [socket EXCEPT ![call[c].socket].client = FALSE,
                                     ![call[c].socket].reply = <<>>]
        BY <3>3 DEF Drop, Holds
      <4>3. dropped \in [Sockets -> SocketType]
        BY <4>1, DropType DEF Owned
      <4> HIDE DEF dropped
      <4>4. /\ \A t \in Sockets : t # call[c].socket => dropped[t] = socket[t]
            /\ dropped[call[c].socket].client = FALSE
        BY <3>1, <4>1, <4>2 DEF SocketType
      <4>5. /\ dropped[call[c].socket].asked = Mine(c).asked
            /\ dropped[call[c].socket].reply = <<>>
        BY <3>1, <4>1, <4>2 DEF Mine, SocketType
      <4> QED
        BY <4>3, <4>4, <4>5
    <3> QED
      BY <3>2, <3>3
  <2>4. fresh.client = TRUE /\ fresh.asked = <<>> /\ fresh.reply = <<>>
    BY DEF Closed
  <2>5. Moved(c, "send", s, call[c].tries, call[c].result)
    BY <2>2, CallUpdates
  <2>6. s \in Sockets /\ (s = call[c].socket \/ ~socket[s].client)
    BY <2>2, <2>3
  <2> HIDE DEF dropped, fresh
  <2>7. /\ socket'[s] = fresh
        /\ \A t \in Sockets \ {s} : socket'[t] = dropped[t]
    BY <2>2, <2>3, <2>6
  <2>8. /\ socket'[s].client /\ socket'[s].asked = <<>>
        /\ socket'[s].reply = <<>>
    BY <2>4, <2>7
  <2>9. \A t \in Sockets \ {s, call[c].socket} : socket'[t] = socket[t]
    BY <2>3, <2>7
  <2>10. Holds(c) /\ call[c].socket # s =>
            /\ socket'[call[c].socket].client = FALSE
            /\ socket'[call[c].socket].asked = Mine(c).asked
            /\ socket'[call[c].socket].reply = <<>>
    BY <2>3, <2>7, Fields DEF Holds
  <2>11. At(c, "connection") /\ SameSlots /\ SameRuns
    BY <1>2 DEF Connect, SameSlots, SameRuns
  <2> QED
    BY <2>5, <2>6, <2>8, <2>9, <2>10, <2>11 DEF Connected
<1>3. ASSUME ConnectFails(c) PROVE  Failed(c)
  <2>1. \E result \in {"connect", "cancelled"} :
           call' = [call EXCEPT ![c].at = "release", ![c].socket = NoSocket,
                                ![c].result = result]
    BY <1>3 DEF ConnectFails
  <2>2. \E result \in {"connect", "cancelled"} :
           Moved(c, "release", NoSocket, call[c].tries, result)
    BY <2>1, CallUpdates
  <2>3. Dropped(c)
    BY <1>3, SocketUpdates DEF ConnectFails
  <2>4. SameSlots /\ At(c, "connection")
    BY <1>3 DEF ConnectFails, SameSlots
  <2>5. SameRuns
    <3>1. node' = node \/ node' = [node EXCEPT !.faults = @ + 1]
      BY <1>3 DEF ConnectFails
    <3> QED
      BY <3>1, Parts DEF SameRuns, NodeType
  <2> QED
    BY <2>2, <2>3, <2>4, <2>5 DEF Failed, At
<1> QED
  BY <1>1, <1>2, <1>3

\* The exchange.
LEMMA ExchangeSteps ==
  ASSUME RpcTypeOK, Stages, NEW c \in Calls
  PROVE  /\ Send(c) => Sent(c)
         /\ GiveUpExchange(c) \/ ConnectionLost(c) => Failed(c)
         /\ TakeChallenge(c) \/ RefreshChallenge(c) => Failed(c) \/ Resent(c)
         /\ Deliver(c) => Delivered(c)
         /\ CheckConnection(c) => Checked(c)
<1>1. call \in [Calls -> CallType] /\ socket \in [Sockets -> SocketType]
  BY Parts
<1>2. ASSUME Send(c) PROVE  Sent(c)
  <2>1. Moved(c, "reply", call[c].socket, call[c].tries + 1, call[c].result)
    BY <1>2, CallUpdates DEF Send
  <2>2. At(c, "send") /\ SameSlots /\ SameRuns
    BY <1>2 DEF Send, SameSlots, SameRuns
  <2>3. CASE socket' = socket
    BY <2>1, <2>2, <2>3 DEF Sent
  <2>4. CASE socket' # socket
    <3>1. call[c].socket \in Sockets
      BY <2>2, ReplyType DEF At, Exchange
    <3>2. Authorization(c) \in Nat
      BY Fields DEF Authorization
    <3>3. PICK x \in Requested :
             /\ x.of = c
             /\ socket' = [socket EXCEPT ![call[c].socket].asked = Append(@, x)]
      <4>1. [of |-> c, nonce |-> Authorization(c)] \in Requested
        BY <3>2 DEF Requested
      <4> QED
        BY <1>2, <2>4, <4>1 DEF Send
    <3>4. Carries(call[c].socket, Append(Mine(c).asked, x), Mine(c).reply)
      BY <1>1, <3>1, <3>3 DEF Carries, Mine, SocketType
    <3> QED
      BY <2>1, <2>2, <3>3, <3>4 DEF Sent
  <2> QED
    BY <2>3, <2>4
<1>3. ASSUME NEW result \in {"cancelled", "failed", "rejected"},
             Abandon(c, result), call[c].at \in {"send", "reply"},
             result = "rejected" => HasReply(c),
             UNCHANGED <<setup, active, idle, node, lost>>
      PROVE  Failed(c)
  <2>1. Moved(c, "release", NoSocket, call[c].tries, result)
    BY <1>3, CallUpdates DEF Abandon
  <2>2. Dropped(c)
    BY <1>3, SocketUpdates DEF Abandon
  <2> QED
    BY <1>3, <2>1, <2>2 DEF Failed, SameSlots, SameRuns
<1>4. ASSUME GiveUpExchange(c) \/ ConnectionLost(c) PROVE  Failed(c)
  <2>1. /\ call[c].at \in {"send", "reply"}
        /\ UNCHANGED <<setup, active, idle, node, lost>>
    BY <1>4 DEF GiveUpExchange, ConnectionLost, At
  <2>2. Abandon(c, "cancelled") \/ Abandon(c, "failed")
    BY <1>4 DEF GiveUpExchange, ConnectionLost
  <2> QED
    BY <1>3, <2>1, <2>2
<1>5. ASSUME TakeChallenge(c) \/ RefreshChallenge(c)
      PROVE  Failed(c) \/ Resent(c)
  <2>1. /\ HasReply(c) /\ call[c].at = "reply"
        /\ UNCHANGED <<setup, active, idle, node, lost>>
    BY <1>5 DEF TakeChallenge, RefreshChallenge, HasReply, At
  <2>2. CASE Abandon(c, "rejected")
    BY <1>3, <2>1, <2>2
  <2>3. CASE ~Abandon(c, "rejected")
    <3>1. /\ Reply(c).status = 401 /\ call[c].tries \in {1, 2}
          /\ \/ call' = [call EXCEPT ![c].at = "send",
                                     ![c].nonce = Reply(c).nonce,
                                     ![c].realm = Reply(c).realm]
             \/ call' = [call EXCEPT ![c].at = "send",
                                     ![c].nonce = Reply(c).nonce]
          /\ socket' = [socket EXCEPT ![call[c].socket].reply = Tail(@),
                                      ![call[c].socket].keep = Reply(c).keep]
      BY <1>5, <2>3 DEF TakeChallenge, RefreshChallenge
    <3>2. MovedTo(c, "send")
      BY <1>1, <3>1 DEF MovedTo, Moved, CallType
    <3>3. Read(c)
      <4>1. call[c].socket \in Sockets
        BY <2>1, ReplyType DEF Exchange
      <4> QED
        BY <3>1, <4>1, SocketUpdates
    <3> QED
      BY <2>1, <3>1, <3>2, <3>3 DEF Resent, SameSlots, SameRuns
  <2> QED
    BY <2>2, <2>3
<1>6. ASSUME Deliver(c) PROVE  Delivered(c)
  <2>1. /\ HasReply(c) /\ call[c].at = "reply"
        /\ setup.mode = "digest" => Reply(c).status # 401
        /\ UNCHANGED <<setup, active, idle, node, lost>>
    BY <1>6 DEF Deliver, HasReply, At
  <2>2. Read(c)
    <3>1. call[c].socket \in Sockets
      BY <2>1, ReplyType DEF Exchange
    <3> QED
      BY <1>6, <3>1, SocketUpdates DEF Deliver
  <2>3. CASE Reply(c).of = c
    <3>1. Moved(c, "check", call[c].socket, call[c].tries, "answered")
      BY <1>6, <2>3, CallUpdates DEF Deliver
    <3> QED
      BY <2>1, <2>2, <2>3, <3>1 DEF Delivered, SameSlots, SameRuns
  <2>4. CASE Reply(c).of # c
    <3>1. Moved(c, "check", call[c].socket, call[c].tries, "alien")
      BY <1>6, <2>4, CallUpdates DEF Deliver
    <3> QED
      BY <2>1, <2>2, <2>4, <3>1 DEF Delivered, SameSlots, SameRuns
  <2> QED
    BY <2>3, <2>4
<1>7. ASSUME CheckConnection(c) PROVE  Checked(c)
  <2>1. At(c, "check") /\ SameSlots /\ SameRuns
    BY <1>7 DEF CheckConnection, SameSlots, SameRuns
  <2>2. CASE Reusable(call[c].socket)
    <3>1. /\ call' = [call EXCEPT ![c].at = "release",
                                  ![c].socket = call[c].socket]
          /\ socket' = socket
      BY <1>7, <2>2 DEF CheckConnection
    <3>2. MovedTo(c, "release")
      BY <3>1, CallUpdates DEF MovedTo
    <3> QED
      BY <2>1, <3>1, <3>2 DEF Checked
  <2>3. CASE ~Reusable(call[c].socket)
    <3>1. /\ call' = [call EXCEPT ![c].at = "release", ![c].socket = NoSocket]
          /\ socket' = Drop(call[c].socket)
      BY <1>7, <2>3 DEF CheckConnection
    <3>2. Moved(c, "release", NoSocket, call[c].tries, call[c].result)
      BY <3>1, CallUpdates
    <3>3. Dropped(c)
      BY <3>1, SocketUpdates
    <3> QED
      BY <2>1, <3>2, <3>3 DEF Checked
  <2> QED
    BY <2>2, <2>3
<1> QED
  BY <1>2, <1>4, <1>5, <1>6, <1>7

\* Release and notification.
LEMMA ReleaseSteps ==
  ASSUME RpcTypeOK, NEW c \in Calls
  PROVE  /\ Release(c) => Released(c)
         /\ Notify(c) => Told(c)
<1>1. ASSUME Release(c) PROVE  Released(c)
  <2>1. Moved(c, "notify", NoSocket, call[c].tries, call[c].result)
    BY <1>1, CallUpdates DEF Release
  <2>2. \/ ~Holds(c) /\ idle' = idle
        \/ Holds(c) /\ idle' = Append(idle, call[c].socket)
    BY <1>1 DEF Release, Holds
  <2> QED
    BY <1>1, <2>1, <2>2 DEF Release, Released, SameRuns
<1>2. ASSUME Notify(c) PROVE  Told(c)
  <2>1. At(c, "notify") /\ Apart
    BY <1>2 DEF Notify, Apart, SameSlots, SameRuns
  <2>2. CASE \A d \in Calls : ~At(d, "asleep")
    <3>1. call' = EndCall(c, call[c].result)
      BY <1>2, <2>2 DEF Notify
    <3>2. Moved(c, "over", NoSocket, 0, call[c].result)
      BY <3>1, CallUpdates
    <3> QED
      BY <2>1, <2>2, <3>2 DEF Told, Moved
  <2>3. CASE \E d \in Calls : At(d, "asleep")
    <3>1. PICK e \in Calls :
             /\ At(e, "asleep")
             /\ call' = [EndCall(c, call[c].result) EXCEPT ![e].at = "woken"]
      BY <1>2, <2>3 DEF Notify
    <3>2. e # c
      BY <2>1, <3>1 DEF At
    <3>3. call \in [Calls -> CallType] /\ CallOver(call[c].result) \in CallType
      BY Parts, Fields, Values DEF CallOver, NewCall, CallType
    <3>4. PICK over \in [Calls -> CallType] : over = EndCall(c, call[c].result)
      BY <3>3 DEF EndCall
    <3>5. /\ over[c] = CallOver(call[c].result)
          /\ \A d \in Calls \ {c} : over[d] = call[d]
      BY <3>3, <3>4 DEF EndCall
    <3>6. /\ over[c].at = "over" /\ over[c].socket = NoSocket
          /\ over[c].tries = 0 /\ over[c].result = call[c].result
      BY <3>5 DEF CallOver, NewCall
    <3>7. call' = [over EXCEPT ![e].at = "woken"]
      BY <3>1, <3>4
    <3>8. /\ call'[e].at = "woken" /\ call'[e].socket = over[e].socket
          /\ call'[e].tries = over[e].tries /\ call'[e].result = over[e].result
          /\ \A d \in Calls \ {e} : call'[d] = over[d]
      BY <3>7 DEF CallType
    <3>9. /\ call'[e].socket = call[e].socket
          /\ call'[e].tries = call[e].tries /\ call'[e].result = call[e].result
          /\ \A d \in Calls \ {c, e} : call'[d] = call[d]
          /\ call'[c].at = "over" /\ call'[c].socket = NoSocket
          /\ call'[c].tries = 0 /\ call'[c].result = call[c].result
      BY <3>2, <3>5, <3>6, <3>8
    <3> QED
      BY <2>1, <3>1, <3>8, <3>9 DEF Told
  <2> QED
    BY <2>2, <2>3
<1> QED
  BY <1>1, <1>2

\* The node reads a request.
LEMMA ServingSteps ==
  ASSUME RpcTypeOK, NEW s \in Sockets,
         NodeExecutes(s) \/ NodeChallenges(s) \/ NodeMisanswers(s)
  PROVE  Served(s)
<1>1. PICK answer \in Answered : /\ answer.of = Given(s) /\ Put(s, answer)
                                 /\ node'.ran = Ran(s, answer.status)
  BY NodeAnswers
<1>2. socket[s].asked # <<>> /\ call' = call /\ SameSlots
  BY DEF NodeExecutes, NodeChallenges, NodeMisanswers, SameSlots
<1>3. socket \in [Sockets -> SocketType]
  BY Parts
<1>4. CASE socket[s].client /\ socket[s].peer
  <2>1. socket' = [socket EXCEPT ![s].asked = Tail(@),
                                 ![s].reply = Append(@, answer)]
    BY <1>1, <1>4 DEF Put
  <2>2. Carries(s, Tail(socket[s].asked), Append(socket[s].reply, answer))
    BY <1>3, <2>1 DEF Carries, SocketType
  <2> QED
    BY <1>1, <1>2, <1>4, <2>2 DEF Served
<1>5. CASE ~(socket[s].client /\ socket[s].peer)
  <2>1. socket' = [socket EXCEPT ![s].asked = Tail(@), ![s].reply = @]
    BY <1>1, <1>5 DEF Put
  <2>2. Carries(s, Tail(socket[s].asked), socket[s].reply)
    BY <1>3, <2>1 DEF Carries, SocketType
  <2> QED
    BY <1>1, <1>2, <2>2 DEF Served
<1> QED
  BY <1>4, <1>5

\* Time, stops, and a node that does not read.
LEMMA OtherSteps ==
  ASSUME RpcTypeOK,
         \/ \E c \in Calls : DeadlinePasses(c) \/ Stop(c)
         \/ \E s \in Sockets : NodeCloses(s)
         \/ NodeExpiresNonce \/ NodeRewritesCookie
  PROVE  Elsewhere
<1>1. /\ call \in [Calls -> CallType] /\ socket \in [Sockets -> SocketType]
      /\ node \in NodeType
  BY Parts
<1> DEFINE Keeps(d) ==
             /\ call'[d].at = call[d].at
                   \/ (At(d, "asleep") /\ call'[d].at = "woken")
             /\ call'[d].socket = call[d].socket
             /\ call'[d].tries = call[d].tries
             /\ call'[d].result = call[d].result
<1>2. SameSlots
  BY DEF DeadlinePasses, Stop, NodeCloses, NodeExpiresNonce,
    NodeRewritesCookie, SameSlots
<1>3. ASSUME NEW c \in Calls, DeadlinePasses(c)
      PROVE  Elsewhere
  <2>1. /\ call'[c].socket = call[c].socket /\ call'[c].tries = call[c].tries
        /\ call'[c].result = call[c].result
        /\ \A d \in Calls \ {c} : call'[d] = call[d]
    BY <1>1, <1>3 DEF DeadlinePasses, CallType
  <2>2. call'[c].at = IF call[c].at = "asleep" THEN "woken" ELSE call[c].at
    BY <1>1, <1>3 DEF DeadlinePasses, CallType
  <2>3. UNCHANGED <<socket, node>>
    BY <1>3 DEF DeadlinePasses
  <2> QED
    BY <1>2, <2>1, <2>2, <2>3 DEF Elsewhere, SameRuns, At
<1>4. ASSUME NEW c \in Calls, Stop(c)
      PROVE  Elsewhere
  <2>1. PICK all \in BOOLEAN :
           call' = [d \in Calls |->
                      [call[d] EXCEPT !.stopped = @ \/ (d = c),
                          !.at = IF all /\ @ = "asleep" THEN "woken" ELSE @]]
    BY <1>4 DEF Stop
  <2>2. ASSUME NEW d \in Calls
        PROVE  Keeps(d)
    BY <1>1, <2>1, <2>2 DEF CallType, At
  <2>3. socket' = socket /\ SameRuns
    BY <1>1, <1>4 DEF Stop, SameRuns, NodeType
  <2> QED
    BY <1>2, <2>2, <2>3 DEF Elsewhere
<1>5. ASSUME NEW s \in Sockets, NodeCloses(s)
      PROVE  Elsewhere
  <2>1. \A t \in Sockets : /\ socket'[t].client = socket[t].client
                           /\ socket'[t].asked = socket[t].asked
                           /\ socket'[t].reply = socket[t].reply
    BY <1>1, <1>5 DEF NodeCloses, SocketType
  <2>2. call' = call /\ SameRuns
    BY <1>1, <1>5 DEF NodeCloses, SameRuns, NodeType
  <2> QED
    BY <1>2, <2>1, <2>2 DEF Elsewhere
<1>6. ASSUME NodeExpiresNonce \/ NodeRewritesCookie
      PROVE  Elsewhere
  <2>1. UNCHANGED <<call, socket>>
    BY <1>6 DEF NodeExpiresNonce, NodeRewritesCookie
  <2>2. CASE NodeExpiresNonce
    <3>1. PICK realm :
             node' = [node EXCEPT !.faults = @ + 1, !.nonce = @ + 1,
                                  !.realm = realm]
      BY <2>2 DEF NodeExpiresNonce
    <3>2. SameRuns
      BY <1>1, <3>1 DEF SameRuns, NodeType
    <3> QED
      BY <1>2, <2>1, <3>2 DEF Elsewhere
  <2>3. CASE NodeRewritesCookie
    <3>1. \/ node' = [node EXCEPT !.cookie = "torn", !.faults = @ + 1]
          \/ node' = [node EXCEPT !.cookie = "ok"]
      BY <2>3 DEF NodeRewritesCookie
    <3>2. SameRuns
      BY <1>1, <3>1 DEF SameRuns, NodeType
    <3> QED
      BY <1>2, <2>1, <3>2 DEF Elsewhere
  <2> QED
    BY <1>6, <2>2, <2>3
<1> QED
  BY <1>3, <1>4, <1>5, <1>6

\* What a step may be.
LEMMA StepKinds ==
  ASSUME RpcTypeOK, Stages, RpcNext
  PROVE  \/ \E c \in Calls :
               \/ Entered(c) \/ Declined(c) \/ Acquired(c) \/ Slept(c)
               \/ Reused(c) \/ Connected(c) \/ Failed(c) \/ Sent(c)
               \/ Resent(c) \/ Delivered(c) \/ Checked(c) \/ Released(c)
               \/ Told(c)
         \/ \E s \in Sockets : Served(s)
         \/ Elsewhere
BY AdmissionSteps, ConnectionSteps, ExchangeSteps, ReleaseSteps, ServingSteps,
  OtherSteps DEF RpcNext, CallStep, NodeStep

-----------------------------------------------------------------------------
(* The parts of the invariant.                                             *)

\* What a call that notifies does to the others: it may wake up a sleeper.
LEMMA ToldOthers ==
  ASSUME NEW c \in Calls, Told(c), NEW d \in Calls \ {c}
  PROVE  /\ \/ call'[d].at = call[d].at
            \/ call[d].at = "asleep" /\ call'[d].at = "woken"
         /\ call'[d].socket = call[d].socket
         /\ call'[d].tries = call[d].tries
         /\ call'[d].result = call[d].result
<1>1. CASE \A e \in Calls \ {c} : call'[e] = call[e]
  BY <1>1
<1>2. CASE ~\A e \in Calls \ {c} : call'[e] = call[e]
  <2>1. PICK e \in Calls :
           /\ At(e, "asleep") /\ call'[e].at = "woken"
           /\ call'[e].socket = call[e].socket
           /\ call'[e].tries = call[e].tries
           /\ call'[e].result = call[e].result
           /\ \A f \in Calls \ {c, e} : call'[f] = call[f]
    BY <1>2 DEF Told
  <2> QED
    BY <2>1 DEF At
<1> QED
  BY <1>1, <1>2

\* What a call may have at a place, when it is moved there.
Fits(at, own, tries, result) ==
    /\ at \in Before => tries = 0
    /\ at = "send" => tries <= 2
    /\ at \in Before \cup {"send", "reply"} => result = "none"
    /\ at \in Exchange => own # NoSocket
    /\ own # NoSocket => at \in Leased

\* A call that fits where it is moved keeps the places in order.
LEMMA StagesMoved ==
  ASSUME Stages, NEW c \in Calls, NEW at, NEW own, NEW tries, NEW result,
         Moved(c, at, own, tries, result), Fits(at, own, tries, result)
  PROVE  Stages'
<1>1. /\ call'[c].at \in Before => call'[c].tries = 0
      /\ call'[c].at = "send" => call'[c].tries <= 2
      /\ call'[c].at \in Before \cup {"send", "reply"} =>
            call'[c].result = "none"
      /\ call'[c].at \in Exchange => call'[c].socket # NoSocket
      /\ call'[c].socket # NoSocket => call'[c].at \in Leased
  BY DEF Moved, Fits
<1>2. \A d \in Calls \ {c} : call'[d] = call[d]
  BY DEF Moved
<1> QED
  BY <1>1, <1>2 DEF Stages, Holds

\* What a call has by the place it is in.
LEMMA StagesStep ==
  ASSUME RpcTypeOK, Stages, RpcNext
  PROVE  Stages'
<1>0. /\ \A c \in Calls : call[c].at \in Before =>
            call[c].tries = 0 /\ call[c].result = "none"
      /\ \A c \in Calls : call[c].at \in {"send", "reply"} =>
            call[c].result = "none" /\ Holds(c)
      /\ \A c \in Calls : call[c].at = "check" => Holds(c)
      /\ \A c \in Calls : Holds(c) => call[c].at \in Leased
  BY DEF Stages, Exchange
<1>1. ASSUME NEW c \in Calls, Entered(c) PROVE  Stages'
  <2>1. MovedTo(c, "admission") /\ call[c].at = "new"
    BY <1>1 DEF Entered, At
  <2>2. Fits("admission", call[c].socket, call[c].tries, call[c].result)
    BY <1>0, <2>1 DEF Fits, Before, Waiting, Exchange, Leased, Holds
  <2> QED
    BY <2>1, <2>2, StagesMoved DEF MovedTo
<1>2. ASSUME NEW c \in Calls, Declined(c) PROVE  Stages'
  <2>1. PICK result : Moved(c, "over", NoSocket, 0, result)
    BY <1>2 DEF Declined
  <2>2. Fits("over", NoSocket, 0, result)
    BY DEF Fits, Before, Waiting, Exchange
  <2> QED
    BY <2>1, <2>2, StagesMoved
<1>3. ASSUME NEW c \in Calls, Acquired(c) PROVE  Stages'
  <2>1. PICK own : Moved(c, "connection", own, call[c].tries, call[c].result)
    BY <1>3 DEF Acquired
  <2>2. call[c].at \in {"admission", "woken"}
    BY <1>3 DEF Acquired
  <2>3. Fits("connection", own, call[c].tries, call[c].result)
    BY <1>0, <2>2 DEF Fits, Before, Waiting, Exchange, Leased
  <2> QED
    BY <2>1, <2>3, StagesMoved
<1>4. ASSUME NEW c \in Calls, Slept(c) PROVE  Stages'
  <2>1. MovedTo(c, "asleep") /\ call[c].at \in {"admission", "woken"}
    BY <1>4 DEF Slept
  <2>2. Fits("asleep", call[c].socket, call[c].tries, call[c].result)
    BY <1>0, <2>1 DEF Fits, Before, Waiting, Exchange, Leased, Holds
  <2> QED
    BY <2>1, <2>2, StagesMoved DEF MovedTo
<1>5. ASSUME NEW c \in Calls, Reused(c) PROVE  Stages'
  <2>1. MovedTo(c, "send") /\ call[c].at = "connection" /\ Holds(c)
    BY <1>5 DEF Reused, At
  <2>2. Fits("send", call[c].socket, call[c].tries, call[c].result)
    BY <1>0, <2>1 DEF Fits, Before, Waiting, Exchange, Leased, Holds
  <2> QED
    BY <2>1, <2>2, StagesMoved DEF MovedTo
<1>6. ASSUME NEW c \in Calls, Connected(c) PROVE  Stages'
  <2>1. PICK s \in Sockets :
           Moved(c, "send", s, call[c].tries, call[c].result)
    BY <1>6 DEF Connected
  <2>2. call[c].at = "connection" /\ s # NoSocket
    BY <1>6, Fields DEF Connected, At
  <2>3. Fits("send", s, call[c].tries, call[c].result)
    BY <1>0, <2>2 DEF Fits, Before, Waiting, Exchange, Leased
  <2> QED
    BY <2>1, <2>3, StagesMoved
<1>7. ASSUME NEW c \in Calls, Failed(c) PROVE  Stages'
  <2>1. PICK result : Moved(c, "release", NoSocket, call[c].tries, result)
    BY <1>7 DEF Failed
  <2>2. Fits("release", NoSocket, call[c].tries, result)
    BY DEF Fits, Before, Waiting, Exchange
  <2> QED
    BY <2>1, <2>2, StagesMoved
<1>8. ASSUME NEW c \in Calls, Sent(c) PROVE  Stages'
  <2>1. /\ Moved(c, "reply", call[c].socket, call[c].tries + 1, call[c].result)
        /\ call[c].at = "send"
    BY <1>8 DEF Sent, At
  <2>2. Fits("reply", call[c].socket, call[c].tries + 1, call[c].result)
    BY <1>0, <2>1 DEF Fits, Before, Waiting, Leased, Holds
  <2> QED
    BY <2>1, <2>2, StagesMoved
<1>9. ASSUME NEW c \in Calls, Resent(c) PROVE  Stages'
  <2>1. MovedTo(c, "send") /\ call[c].at = "reply" /\ call[c].tries <= 2
    BY <1>9 DEF Resent, HasReply, At
  <2>2. Fits("send", call[c].socket, call[c].tries, call[c].result)
    BY <1>0, <2>1 DEF Fits, Before, Waiting, Leased, Holds
  <2> QED
    BY <2>1, <2>2, StagesMoved DEF MovedTo
<1>10. ASSUME NEW c \in Calls, Delivered(c) PROVE  Stages'
  <2>1. call[c].at = "reply"
    BY <1>10 DEF Delivered, HasReply, At
  <2>2. PICK result :
           Moved(c, "check", call[c].socket, call[c].tries, result)
    BY <1>10 DEF Delivered
  <2>3. Fits("check", call[c].socket, call[c].tries, result)
    BY <1>0, <2>1 DEF Fits, Before, Waiting, Leased, Holds
  <2> QED
    BY <2>2, <2>3, StagesMoved
<1>11. ASSUME NEW c \in Calls, Checked(c) PROVE  Stages'
  <2>1. PICK own : Moved(c, "release", own, call[c].tries, call[c].result)
    BY <1>11 DEF Checked, MovedTo
  <2>2. Fits("release", own, call[c].tries, call[c].result)
    BY DEF Fits, Before, Waiting, Exchange, Leased
  <2> QED
    BY <2>1, <2>2, StagesMoved
<1>12. ASSUME NEW c \in Calls, Released(c) PROVE  Stages'
  <2>1. Moved(c, "notify", NoSocket, call[c].tries, call[c].result)
    BY <1>12 DEF Released
  <2>2. Fits("notify", NoSocket, call[c].tries, call[c].result)
    BY DEF Fits, Before, Waiting, Exchange, Leased
  <2> QED
    BY <2>1, <2>2, StagesMoved
<1>13. ASSUME NEW c \in Calls, Told(c) PROVE  Stages'
  <2>1. /\ call'[c].at = "over" /\ call'[c].socket = NoSocket
        /\ call'[c].tries = 0 /\ call'[c].result = call[c].result
    BY <1>13 DEF Told
  <2>2. \A d \in Calls \ {c} :
           /\ \/ call'[d].at = call[d].at
              \/ call[d].at = "asleep" /\ call'[d].at = "woken"
           /\ call'[d].socket = call[d].socket
           /\ call'[d].tries = call[d].tries
           /\ call'[d].result = call[d].result
    BY <1>13, ToldOthers
  <2> QED
    BY <2>1, <2>2 DEF Stages, Holds, Before, Waiting, Exchange, Leased
<1>14. ASSUME NEW s \in Sockets, Served(s) PROVE  Stages'
  BY <1>14, Fields DEF Served, Carries, SameSlots, Stages, Holds, At,
    HasReply, Before, Waiting, Exchange, Leased
<1>15. ASSUME Elsewhere PROVE  Stages'
  BY <1>15, Fields DEF Elsewhere, SameSlots, SameRuns, Stages, Holds, At,
    HasReply, Before, Waiting, Exchange, Leased
<1> QED
  BY <1>1, <1>2, <1>3, <1>4, <1>5, <1>6, <1>7, <1>8, <1>9, <1>10, <1>11,
    <1>12, <1>13, <1>14, <1>15, StepKinds

\* How a step changes the number of the calls at some places.
LEMMA Counting ==
  ASSUME NEW S, IsFiniteSet(S), NEW T, NEW c
  PROVE  /\ Cardinality(S) \in Nat
         /\ T = S \cup {c} /\ c \notin S =>
               IsFiniteSet(T) /\ Cardinality(T) = Cardinality(S) + 1
         /\ T = S \ {c} /\ c \in S =>
               /\ IsFiniteSet(T) /\ Cardinality(T) = Cardinality(S) - 1
               /\ Cardinality(S) >= 1
BY FS_CardinalityType, FS_AddElement, FS_RemoveElement, FS_EmptySet

\* The slots in use, and room for what their calls may return.
LEMMA SlotsStep ==
  ASSUME RpcTypeOK, Stages, Slots, RpcNext
  PROVE  Slots'
<1>1. /\ idle \in Seq(Sockets) /\ Len(idle) \in Nat /\ active \in Nat
      /\ PerEndpoint \in Nat /\ IsFiniteSet(Leases)
  <2>1. IsFiniteSet(Leases)
    BY RpcAssumption, FS_Subset DEF Leases
  <2> QED
    BY <2>1, Parts, Fields
<1>2. ASSUME NEW c \in Calls, Entered(c) PROVE  Slots'
  <2>1. Leases' = Leases
    BY <1>2, <1>1 DEF Entered, MovedTo, Moved, Apart, SameSlots, SameRuns,
      Leases, Leased, At, HasReply
  <2>2. UNCHANGED <<setup, active, idle>>
    BY <1>2 DEF Entered, MovedTo, Moved, Apart, SameSlots, SameRuns
  <2> QED
    BY <1>1, <2>1, <2>2 DEF Slots, PerEndpoint
<1>3. ASSUME NEW c \in Calls, Declined(c) PROVE  Slots'
  <2>1. Leases' = Leases
    BY <1>3, <1>1 DEF Declined, Moved, SameRuns, Leases, Leased, At, HasReply
  <2>2. UNCHANGED <<setup, active, idle>>
    BY <1>3 DEF Declined, Moved, SameRuns
  <2> QED
    BY <1>1, <2>1, <2>2 DEF Slots, PerEndpoint
<1>4. ASSUME NEW c \in Calls, Acquired(c) PROVE  Slots'
  <2>1. Leases' = Leases \cup {c} /\ c \notin Leases
    BY <1>4 DEF Acquired, Moved, Leases, Leased
  <2>2. Cardinality(Leases') = Cardinality(Leases) + 1
    BY <1>1, <2>1, Counting
  <2>3. setup' = setup /\ active' = active + 1 /\ active < PerEndpoint
    BY <1>4 DEF Acquired
  <2>4. \/ idle = <<>> /\ idle' = <<>>
        \/ Len(idle) # 0 /\ Len(idle') = Len(idle) - 1
    BY <1>4, <1>1 DEF Acquired
  <2> QED
    BY <1>1, <2>2, <2>3, <2>4 DEF Slots, PerEndpoint
<1>5. ASSUME NEW c \in Calls, Slept(c) PROVE  Slots'
  <2>1. Leases' = Leases
    BY <1>5, <1>1 DEF Slept, MovedTo, Moved, Apart, SameSlots, SameRuns,
      Leases, Leased, At, HasReply
  <2>2. UNCHANGED <<setup, active, idle>>
    BY <1>5 DEF Slept, MovedTo, Moved, Apart, SameSlots, SameRuns
  <2> QED
    BY <1>1, <2>1, <2>2 DEF Slots, PerEndpoint
<1>6. ASSUME NEW c \in Calls, Reused(c) PROVE  Slots'
  <2>1. Leases' = Leases
    BY <1>6, <1>1 DEF Reused, MovedTo, Moved, Apart, SameSlots, SameRuns,
      Leases, Leased, At, HasReply
  <2>2. UNCHANGED <<setup, active, idle>>
    BY <1>6 DEF Reused, MovedTo, Moved, Apart, SameSlots, SameRuns
  <2> QED
    BY <1>1, <2>1, <2>2 DEF Slots, PerEndpoint
<1>7. ASSUME NEW c \in Calls, Connected(c) PROVE  Slots'
  <2>1. Leases' = Leases
    BY <1>7, <1>1 DEF Connected, Moved, SameSlots, SameRuns, Leases, Leased,
      At, HasReply
  <2>2. UNCHANGED <<setup, active, idle>>
    BY <1>7 DEF Connected, Moved, SameSlots, SameRuns
  <2> QED
    BY <1>1, <2>1, <2>2 DEF Slots, PerEndpoint
<1>8. ASSUME NEW c \in Calls, Failed(c) PROVE  Slots'
  <2>1. Leases' = Leases
    BY <1>8, <1>1 DEF Failed, Moved, Dropped, SameSlots, SameRuns, Leases,
      Leased, At, HasReply
  <2>2. UNCHANGED <<setup, active, idle>>
    BY <1>8 DEF Failed, Moved, Dropped, SameSlots, SameRuns
  <2> QED
    BY <1>1, <2>1, <2>2 DEF Slots, PerEndpoint
<1>9. ASSUME NEW c \in Calls, Sent(c) PROVE  Slots'
  <2>1. Leases' = Leases
    BY <1>9, <1>1 DEF Sent, Moved, Carries, SameSlots, SameRuns, Leases,
      Leased, At, HasReply
  <2>2. UNCHANGED <<setup, active, idle>>
    BY <1>9 DEF Sent, Moved, Carries, SameSlots, SameRuns
  <2> QED
    BY <1>1, <2>1, <2>2 DEF Slots, PerEndpoint
<1>10. ASSUME NEW c \in Calls, Resent(c) PROVE  Slots'
  <2>1. Leases' = Leases
    BY <1>10, <1>1 DEF Resent, MovedTo, Moved, Read, Carries, SameSlots,
      SameRuns, Leases, Leased, At, HasReply
  <2>2. UNCHANGED <<setup, active, idle>>
    BY <1>10 DEF Resent, MovedTo, Moved, Read, Carries, SameSlots, SameRuns
  <2> QED
    BY <1>1, <2>1, <2>2 DEF Slots, PerEndpoint
<1>11. ASSUME NEW c \in Calls, Delivered(c) PROVE  Slots'
  <2>1. Leases' = Leases
    BY <1>11, <1>1 DEF Delivered, Moved, Read, Carries, SameSlots, SameRuns,
      Leases, Leased, At, HasReply
  <2>2. UNCHANGED <<setup, active, idle>>
    BY <1>11 DEF Delivered, Moved, Read, Carries, SameSlots, SameRuns
  <2> QED
    BY <1>1, <2>1, <2>2 DEF Slots, PerEndpoint
<1>12. ASSUME NEW c \in Calls, Checked(c) PROVE  Slots'
  <2>1. Leases' = Leases
    BY <1>12, <1>1 DEF Checked, MovedTo, Moved, Dropped, SameSlots, SameRuns,
      Leases, Leased, At, HasReply
  <2>2. UNCHANGED <<setup, active, idle>>
    BY <1>12 DEF Checked, MovedTo, Moved, Dropped, SameSlots, SameRuns
  <2> QED
    BY <1>1, <2>1, <2>2 DEF Slots, PerEndpoint
<1>13. ASSUME NEW c \in Calls, Released(c) PROVE  Slots'
  <2>1. Leases' = Leases \ {c} /\ c \in Leases
    BY <1>13 DEF Released, Moved, Leases, Leased, At
  <2>2. Cardinality(Leases') = Cardinality(Leases) - 1
    BY <1>1, <2>1, Counting
  <2>3. setup' = setup /\ active' = active - 1
    BY <1>13 DEF Released
  <2>4. Len(idle') <= Len(idle) + 1 /\ Len(idle') \in Nat
    BY <1>13, <1>1, Fields DEF Released, Holds
  <2> QED
    BY <1>1, <2>2, <2>3, <2>4 DEF Slots, PerEndpoint
<1>14. ASSUME NEW c \in Calls, Told(c) PROVE  Slots'
  <2>1. Leases' = Leases
    BY <1>14, <1>1 DEF Told, Apart, SameSlots, SameRuns, Leases, Leased, At,
      HasReply
  <2>2. UNCHANGED <<setup, active, idle>>
    BY <1>14 DEF Told, Apart, SameSlots, SameRuns
  <2> QED
    BY <1>1, <2>1, <2>2 DEF Slots, PerEndpoint
<1>15. ASSUME NEW s \in Sockets, Served(s) PROVE  Slots'
  <2>1. Leases' = Leases
    BY <1>15, <1>1 DEF Served, Carries, SameSlots, Leases, Leased, At, HasReply
  <2>2. UNCHANGED <<setup, active, idle>>
    BY <1>15 DEF Served, Carries, SameSlots
  <2> QED
    BY <1>1, <2>1, <2>2 DEF Slots, PerEndpoint
<1>16. ASSUME Elsewhere PROVE  Slots'
  <2>1. Leases' = Leases
    BY <1>16, <1>1 DEF Elsewhere, SameSlots, SameRuns, Leases, Leased, At,
      HasReply
  <2>2. UNCHANGED <<setup, active, idle>>
    BY <1>16 DEF Elsewhere, SameSlots, SameRuns
  <2> QED
    BY <1>1, <2>1, <2>2 DEF Slots, PerEndpoint
<1> QED
  BY <1>2, <1>3, <1>4, <1>5, <1>6, <1>7, <1>8, <1>9, <1>10, <1>11, <1>12,
    <1>13, <1>14, <1>15, <1>16, StepKinds

\* A connection is in the pool once or with one call, and open.
LEMMA PoolStep ==
  ASSUME RpcTypeOK, Stages, Pool, RpcNext
  PROVE  Pool'
<1>1. /\ idle \in Seq(Sockets)
      /\ \A c \in Calls : Holds(c) => call[c].socket \in Sockets
      /\ \A c \in Calls : call[c].at \notin Leased => ~Holds(c)
      /\ \A c \in Calls : call[c].at \in Exchange =>
            Holds(c) /\ call[c].socket \in Sockets
      /\ \A i \in DOMAIN idle : idle[i] \in Sockets
  BY Parts, Fields DEF Stages, Holds
<1>2. ASSUME NEW c \in Calls, Entered(c) PROVE  Pool'
  BY <1>2, <1>1 DEF Entered, MovedTo, Moved, Apart, SameSlots, SameRuns, Pool,
    Holds, Mine, Pooled, At, HasReply, Leased, Exchange
<1>3. ASSUME NEW c \in Calls, Declined(c) PROVE  Pool'
  BY <1>3, <1>1 DEF Declined, Moved, SameRuns, Pool, Holds, Mine, Pooled, At,
    HasReply, Leased, Exchange
<1>4. ASSUME NEW c \in Calls, Acquired(c) PROVE  Pool'
  <2>1. socket' = socket /\ ~Holds(c)
    BY <1>1, <1>4 DEF Acquired, Leased
  <2>2. CASE idle = <<>>
    BY <1>4, <2>1, <2>2 DEF Acquired, Moved, Pool, Holds, Mine, Pooled
  <2>3. CASE idle # <<>>
    <3>1. /\ idle' = SubSeq(idle, 1, Len(idle) - 1)
          /\ call'[c].socket = idle[Len(idle)]
          /\ \A d \in Calls \ {c} : call'[d].socket = call[d].socket
      BY <1>4, <2>3 DEF Acquired, Moved
    <3>2. /\ DOMAIN idle' = 1 .. (Len(idle) - 1) /\ DOMAIN idle = 1 .. Len(idle)
          /\ \A i \in DOMAIN idle' : idle'[i] = idle[i]
          /\ Len(idle) \in Nat /\ Len(idle) # 0
      BY <1>1, <2>3, <3>1
    <3>3. \A i \in DOMAIN idle' : i \in DOMAIN idle /\ i # Len(idle)
      BY <3>2
    <3>4. Len(idle) \in DOMAIN idle
      BY <3>2
    <3>5. Pooled(idle[Len(idle)]) /\ idle[Len(idle)] \in Sockets
      BY <1>1, <3>4 DEF Pooled
    <3>6. /\ \A i, j \in DOMAIN idle' : idle'[i] = idle'[j] => i = j
          /\ \A i \in DOMAIN idle' : socket'[idle'[i]].client
      BY <2>1, <3>2, <3>3 DEF Pool
    <3>7. \A i \in DOMAIN idle' : idle'[i] # idle[Len(idle)]
      BY <3>2, <3>3, <3>4 DEF Pool
    <3>8. \A d \in Calls \ {c} : Holds(d) => call[d].socket # idle[Len(idle)]
      BY <3>5 DEF Pool
    <3>9. \A d \in Calls : Holds(d)' => Mine(d).client' /\ ~Pooled(call[d].socket)'
      BY <2>1, <3>1, <3>2, <3>3, <3>4, <3>7 DEF Pool, Holds, Mine, Pooled
    <3>10. \A d, e \in Calls :
              Holds(d)' /\ call'[d].socket = call'[e].socket => d = e
      BY <3>1, <3>5, <3>8, Fields, SMTT(60) DEF Pool, Holds
    <3> QED
      BY <3>6, <3>9, <3>10 DEF Pool
  <2> QED
    BY <2>2, <2>3
<1>5. ASSUME NEW c \in Calls, Slept(c) PROVE  Pool'
  BY <1>5, <1>1 DEF Slept, MovedTo, Moved, Apart, SameSlots, SameRuns, Pool,
    Holds, Mine, Pooled, At, HasReply, Leased, Exchange
<1>6. ASSUME NEW c \in Calls, Reused(c) PROVE  Pool'
  BY <1>6, <1>1 DEF Reused, MovedTo, Moved, Apart, SameSlots, SameRuns, Pool,
    Holds, Mine, Pooled, At, HasReply, Leased, Exchange
<1>7. ASSUME NEW c \in Calls, Connected(c) PROVE  Pool'
  <2>1. PICK s \in Sockets :
           /\ s = call[c].socket \/ ~socket[s].client
           /\ Moved(c, "send", s, call[c].tries, call[c].result)
           /\ socket'[s].client
           /\ \A t \in Sockets \ {s, call[c].socket} : socket'[t] = socket[t]
    BY <1>7 DEF Connected
  <2>2. /\ call'[c].socket = s
        /\ \A d \in Calls \ {c} : call'[d].socket = call[d].socket
    BY <2>1 DEF Moved
  <2>3. idle' = idle
    BY <1>7 DEF Connected, SameSlots
  <2>4. \A i \in DOMAIN idle : idle[i] # call[c].socket /\ idle[i] # s
    <3>1. \A i \in DOMAIN idle : idle[i] # call[c].socket
      BY <1>1, Fields DEF Pool, Pooled, Holds
    <3>2. \A i \in DOMAIN idle : socket[idle[i]].client
      BY DEF Pool
    <3> QED
      BY <2>1, <3>1, <3>2
  <2>5. \A d \in Calls \ {c} : Holds(d) =>
           call[d].socket # call[c].socket /\ call[d].socket # s
    <3>1. \A d \in Calls \ {c} : Holds(d) => call[d].socket # call[c].socket
      BY DEF Pool
    <3>2. \A d \in Calls : Holds(d) => socket[call[d].socket].client
      BY DEF Pool, Mine
    <3> QED
      BY <2>1, <3>1, <3>2
  <2>6. \A i \in DOMAIN idle : socket'[idle[i]].client
    BY <1>1, <2>1, <2>4 DEF Pool
  <2>7. \A d \in Calls \ {c} : Holds(d) => socket'[call[d].socket].client
    BY <1>1, <2>1, <2>5 DEF Pool, Mine
  <2>8. s # NoSocket
    BY <2>1, Fields
  <2>9. \A d \in Calls : Holds(d)' => Mine(d).client' /\ ~Pooled(call[d].socket)'
    BY <2>1, <2>2, <2>3, <2>4, <2>7 DEF Pool, Holds, Mine, Pooled
  <2>10. \A d, e \in Calls :
            Holds(d)' /\ call'[d].socket = call'[e].socket => d = e
    BY <2>2, <2>5, <2>8 DEF Pool, Holds
  <2> QED
    BY <2>3, <2>6, <2>9, <2>10 DEF Pool
<1>8. ASSUME NEW c \in Calls, Failed(c) PROVE  Pool'
  <2>1. \A t \in Sockets : t # call[c].socket => socket'[t] = socket[t]
    BY <1>8 DEF Failed, Dropped
  <2>2. /\ call'[c].socket = NoSocket
        /\ \A d \in Calls \ {c} : call'[d].socket = call[d].socket
    BY <1>8 DEF Failed, Moved
  <2>3. idle' = idle
    BY <1>8 DEF Failed, SameSlots
  <2>4. \A i \in DOMAIN idle : idle[i] # call[c].socket
    BY <1>1, Fields DEF Pool, Pooled, Holds
  <2>5. \A d \in Calls \ {c} : Holds(d) => call[d].socket # call[c].socket
    BY DEF Pool
  <2> QED
    BY <1>1, <2>1, <2>2, <2>3, <2>4, <2>5 DEF Pool, Holds, Mine, Pooled
<1>9. ASSUME NEW c \in Calls, Sent(c) PROVE  Pool'
  <2>1. call[c].socket \in Sockets
    BY <1>1, <1>9 DEF Sent, At, Exchange
  <2>2. \A t \in Sockets : socket'[t].client = socket[t].client
    BY <1>9, <2>1 DEF Sent, Carries
  <2>3. \A d \in Calls : call'[d].socket = call[d].socket
    BY <1>9 DEF Sent, Moved
  <2>4. idle' = idle
    BY <1>9 DEF Sent, SameSlots
  <2> QED
    BY <1>1, <2>2, <2>3, <2>4 DEF Pool, Holds, Mine, Pooled
<1>10. ASSUME NEW c \in Calls, Resent(c) PROVE  Pool'
  BY <1>10, <1>1 DEF Resent, MovedTo, Moved, Read, Carries, SameSlots,
    SameRuns, Pool, Holds, Mine, Pooled, At, HasReply, Leased, Exchange
<1>11. ASSUME NEW c \in Calls, Delivered(c) PROVE  Pool'
  BY <1>11, <1>1 DEF Delivered, Moved, Read, Carries, SameSlots, SameRuns,
    Pool, Holds, Mine, Pooled, At, HasReply, Leased, Exchange
<1>12. ASSUME NEW c \in Calls, Checked(c) PROVE  Pool'
  BY <1>12, <1>1 DEF Checked, MovedTo, Moved, Dropped, SameSlots, SameRuns,
    Pool, Holds, Mine, Pooled, At, HasReply, Leased, Exchange
<1>13. ASSUME NEW c \in Calls, Released(c) PROVE  Pool'
  <2>1. /\ call'[c].socket = NoSocket
        /\ \A d \in Calls \ {c} : call'[d].socket = call[d].socket
    BY <1>13 DEF Released, Moved
  <2>2. socket' = socket
    BY <1>13 DEF Released
  <2>3. CASE ~Holds(c)
    <3>1. idle' = idle
      BY <1>13, <2>3 DEF Released
    <3> QED
      BY <2>1, <2>2, <3>1 DEF Pool, Holds, Mine, Pooled
  <2>4. CASE Holds(c)
    <3>1. idle' = Append(idle, call[c].socket) /\ call[c].socket \in Sockets
      BY <1>1, <1>13, <2>4 DEF Released
    <3>2. /\ DOMAIN idle' = 1 .. (Len(idle) + 1) /\ DOMAIN idle = 1 .. Len(idle)
          /\ \A i \in DOMAIN idle : idle'[i] = idle[i]
          /\ idle'[Len(idle) + 1] = call[c].socket /\ Len(idle) \in Nat
      BY <1>1, <3>1
    <3>3. \A i \in DOMAIN idle : idle[i] # call[c].socket
      BY <2>4 DEF Pool, Pooled
    <3>4. \A i, j \in DOMAIN idle' : idle'[i] = idle'[j] => i = j
      BY <3>2, <3>3 DEF Pool
    <3>5. \A i \in DOMAIN idle' : idle'[i] = call[c].socket \/ Pooled(idle'[i])
      BY <3>2 DEF Pooled
    <3>6. \A i \in DOMAIN idle' : socket'[idle'[i]].client
      BY <2>2, <2>4, <3>5 DEF Pool, Pooled, Mine
    <3>7. \A d \in Calls \ {c} : Holds(d) => call[d].socket # call[c].socket
      BY DEF Pool
    <3>8. \A d \in Calls : Holds(d)' => ~Pooled(call[d].socket)'
      BY <2>1, <3>5, <3>7 DEF Pool, Holds, Pooled
    <3> QED
      BY <2>1, <2>2, <3>4, <3>6, <3>8 DEF Pool, Holds, Mine
  <2> QED
    BY <2>3, <2>4
<1>14. ASSUME NEW c \in Calls, Told(c) PROVE  Pool'
  BY <1>14, <1>1 DEF Told, Apart, SameSlots, SameRuns, Pool, Holds, Mine,
    Pooled, At, HasReply, Leased, Exchange
<1>15. ASSUME NEW s \in Sockets, Served(s) PROVE  Pool'
  BY <1>15, <1>1 DEF Served, Carries, SameSlots, Pool, Holds, Mine, Pooled,
    At, HasReply, Leased, Exchange
<1>16. ASSUME Elsewhere PROVE  Pool'
  BY <1>16, <1>1 DEF Elsewhere, SameSlots, SameRuns, Pool, Holds, Mine,
    Pooled, At, HasReply, Leased, Exchange
<1> QED
  BY <1>2, <1>3, <1>4, <1>5, <1>6, <1>7, <1>8, <1>9, <1>10, <1>11, <1>12,
    <1>13, <1>14, <1>15, <1>16, StepKinds

\* One message is on the wire of a connection.
LEMMA WireStep ==
  ASSUME RpcTypeOK, Stages, Pool, Wire, Answers, RpcNext
  PROVE  Wire'
<1>1. /\ \A c \in Calls : Holds(c) => call[c].socket \in Sockets
      /\ \A c \in Calls : call[c].at \in Exchange =>
            Holds(c) /\ call[c].socket \in Sockets
      /\ \A q : q = <<>> => Len(q) <= 1
  BY Fields DEF Stages, Holds
<1>2. ASSUME NEW c \in Calls, Entered(c) PROVE  Wire'
  BY <1>2, <1>1 DEF Entered, MovedTo, Moved, Apart, SameSlots, SameRuns, Wire,
    Holds, Mine, At, HasReply, Exchange
<1>3. ASSUME NEW c \in Calls, Declined(c) PROVE  Wire'
  BY <1>3, <1>1 DEF Declined, Moved, SameRuns, Wire, Holds, Mine, At,
    HasReply, Exchange
<1>4. ASSUME NEW c \in Calls, Acquired(c) PROVE  Wire'
  BY <1>4, <1>1 DEF Acquired, Moved, SameRuns, Wire, Holds, Mine, At,
    HasReply, Exchange
<1>5. ASSUME NEW c \in Calls, Slept(c) PROVE  Wire'
  BY <1>5, <1>1 DEF Slept, MovedTo, Moved, Apart, SameSlots, SameRuns, Wire,
    Holds, Mine, At, HasReply, Exchange
<1>6. ASSUME NEW c \in Calls, Reused(c) PROVE  Wire'
  BY <1>6, <1>1 DEF Reused, MovedTo, Moved, Apart, SameSlots, SameRuns, Wire,
    Holds, Mine, At, HasReply, Exchange
<1>7. ASSUME NEW c \in Calls, Connected(c) PROVE  Wire'
  <2>1. PICK s \in Sockets :
           /\ socket'[s].asked = <<>> /\ socket'[s].reply = <<>>
           /\ \A t \in Sockets \ {s, call[c].socket} : socket'[t] = socket[t]
           /\ Holds(c) /\ call[c].socket # s =>
                 /\ socket'[call[c].socket].asked = Mine(c).asked
                 /\ socket'[call[c].socket].reply = <<>>
    BY <1>7 DEF Connected
  <2>2. ASSUME NEW t \in Sockets
        PROVE  \/ socket'[t] = socket[t]
               \/ /\ socket'[t].reply = <<>>
                  /\ socket'[t].asked \in {<<>>, socket[t].asked}
    BY <2>1, Fields DEF Holds, Mine
  <2> QED
    BY <1>1, <2>2 DEF Wire
<1>8. ASSUME NEW c \in Calls, Failed(c) PROVE  Wire'
  <2>1. /\ \A t \in Sockets : t # call[c].socket => socket'[t] = socket[t]
        /\ call[c].socket \in Sockets =>
              /\ socket'[call[c].socket].asked = socket[call[c].socket].asked
              /\ socket'[call[c].socket].reply = <<>>
    BY <1>8, Fields DEF Failed, Dropped, Holds, Mine
  <2> QED
    BY <1>1, <2>1 DEF Wire
<1>9. ASSUME NEW c \in Calls, Sent(c) PROVE  Wire'
  <2>1. call[c].socket \in Sockets /\ Silent(call[c].socket)
    BY <1>1, <1>9 DEF Sent, At, Exchange, Answers
  <2>2. CASE socket' = socket
    BY <2>2 DEF Wire
  <2>3. CASE socket' # socket
    <3>1. PICK request \in Requested :
             Carries(call[c].socket, Append(Mine(c).asked, request),
                     Mine(c).reply)
      BY <1>9, <2>3 DEF Sent
    <3>2. Mine(c).asked = <<>> /\ Mine(c).reply = <<>>
      BY <2>1 DEF Silent, Mine
    <3>3. Len(Append(Mine(c).asked, request)) <= 1
      BY <3>2
    <3>4. /\ \A t \in Sockets \ {call[c].socket} : socket'[t] = socket[t]
          /\ Len(socket'[call[c].socket].asked) <= 1
          /\ socket'[call[c].socket].reply = <<>>
      BY <3>1, <3>2, <3>3 DEF Carries
    <3>5. ASSUME NEW t \in Sockets
          PROVE  /\ Len(socket'[t].asked) <= 1 /\ Len(socket'[t].reply) <= 1
                 /\ socket'[t].asked # <<>> => socket'[t].reply = <<>>
                 /\ ~socket'[t].client => socket'[t].reply = <<>>
      <4>1. CASE t = call[c].socket
        <5>1. Len(socket'[t].asked) <= 1 /\ Len(socket'[t].reply) <= 1
          BY <1>1, <3>4, <4>1
        <5>2. socket'[t].reply = <<>>
          BY <3>4, <4>1
        <5> QED
          BY <5>1, <5>2
      <4>2. CASE t # call[c].socket
        BY <3>4, <4>2 DEF Wire
      <4> QED
        BY <4>1, <4>2
    <3> QED
      BY <3>5 DEF Wire
  <2> QED
    BY <2>2, <2>3
<1>10. ASSUME NEW c \in Calls, Resent(c) PROVE  Wire'
  <2>1. /\ call[c].socket \in Sockets /\ Mine(c).reply # <<>>
        /\ Read(c)
    BY <1>1, <1>10 DEF Resent, HasReply, At, Exchange, Mine
  <2>2. Tail(Mine(c).reply) = <<>>
    BY <2>1, Messages DEF Mine
  <2> QED
    BY <1>1, <2>1, <2>2 DEF Read, Carries, Mine, Wire
<1>11. ASSUME NEW c \in Calls, Delivered(c) PROVE  Wire'
  <2>1. /\ call[c].socket \in Sockets /\ Mine(c).reply # <<>>
        /\ Read(c)
    BY <1>1, <1>11 DEF Delivered, HasReply, At, Exchange, Mine
  <2>2. Tail(Mine(c).reply) = <<>>
    BY <2>1, Messages DEF Mine
  <2> QED
    BY <1>1, <2>1, <2>2 DEF Read, Carries, Mine, Wire
<1>12. ASSUME NEW c \in Calls, Checked(c) PROVE  Wire'
  BY <1>12, <1>1 DEF Checked, MovedTo, Moved, Dropped, SameSlots, SameRuns,
    Wire, Holds, Mine, At, HasReply, Exchange
<1>13. ASSUME NEW c \in Calls, Released(c) PROVE  Wire'
  BY <1>13, <1>1 DEF Released, Moved, SameRuns, Wire, Holds, Mine, At,
    HasReply, Exchange
<1>14. ASSUME NEW c \in Calls, Told(c) PROVE  Wire'
  BY <1>14, <1>1 DEF Told, Apart, SameSlots, SameRuns, Wire, Holds, Mine, At,
    HasReply, Exchange
<1>15. ASSUME NEW s \in Sockets, Served(s) PROVE  Wire'
  <2>1. PICK answer \in Answered :
           \/ Carries(s, Tail(socket[s].asked), socket[s].reply)
           \/ /\ socket[s].client
              /\ Carries(s, Tail(socket[s].asked),
                         Append(socket[s].reply, answer))
    BY <1>15 DEF Served
  <2>2. Tail(socket[s].asked) = <<>> /\ socket[s].reply = <<>>
    BY <1>15, Messages DEF Served, Wire
  <2>3. Len(Append(socket[s].reply, answer)) <= 1
    BY <2>2
  <2>4. CASE Carries(s, Tail(socket[s].asked), socket[s].reply)
    BY <1>1, <2>2, <2>4 DEF Wire, Carries
  <2>5. CASE /\ socket[s].client
             /\ Carries(s, Tail(socket[s].asked),
                        Append(socket[s].reply, answer))
    <3>1. /\ \A t \in Sockets \ {s} : socket'[t] = socket[t]
          /\ socket'[s].client = socket[s].client /\ socket'[s].asked = <<>>
          /\ Len(socket'[s].reply) <= 1
      BY <2>2, <2>3, <2>5 DEF Carries
    <3>2. ASSUME NEW t \in Sockets
          PROVE  /\ Len(socket'[t].asked) <= 1 /\ Len(socket'[t].reply) <= 1
                 /\ socket'[t].asked # <<>> => socket'[t].reply = <<>>
                 /\ ~socket'[t].client => socket'[t].reply = <<>>
      <4>1. CASE t = s
        <5>1. Len(socket'[t].asked) <= 1 /\ Len(socket'[t].reply) <= 1
          BY <1>1, <3>1, <4>1
        <5>2. socket'[t].client /\ socket'[t].asked = <<>>
          BY <2>5, <3>1, <4>1
        <5> QED
          BY <5>1, <5>2
      <4>2. CASE t # s
        BY <3>1, <4>2 DEF Wire
      <4> QED
        BY <4>1, <4>2
    <3> QED
      BY <3>2 DEF Wire
  <2> QED
    BY <2>1, <2>4, <2>5
<1>16. ASSUME Elsewhere PROVE  Wire'
  BY <1>16, <1>1 DEF Elsewhere, SameSlots, SameRuns, Wire, Holds, Mine, At,
    HasReply, Exchange
<1> QED
  BY <1>2, <1>3, <1>4, <1>5, <1>6, <1>7, <1>8, <1>9, <1>10, <1>11, <1>12,
    <1>13, <1>14, <1>15, <1>16, StepKinds

\* Nobody reads the answer to another's request.
LEMMA OwnStep ==
  ASSUME RpcTypeOK, Stages, Answers, OwnAnswer, RpcNext
  PROVE  OwnAnswer'
<1>1. ASSUME NEW c \in Calls, Entered(c) PROVE  OwnAnswer'
  BY <1>1 DEF Entered, MovedTo, Moved, OwnAnswer
<1>2. ASSUME NEW c \in Calls, Declined(c) PROVE  OwnAnswer'
  BY <1>2 DEF Declined, Moved, OwnAnswer
<1>3. ASSUME NEW c \in Calls, Acquired(c) PROVE  OwnAnswer'
  BY <1>3 DEF Acquired, Moved, OwnAnswer
<1>4. ASSUME NEW c \in Calls, Slept(c) PROVE  OwnAnswer'
  BY <1>4 DEF Slept, MovedTo, Moved, OwnAnswer
<1>5. ASSUME NEW c \in Calls, Reused(c) PROVE  OwnAnswer'
  BY <1>5 DEF Reused, MovedTo, Moved, OwnAnswer
<1>6. ASSUME NEW c \in Calls, Connected(c) PROVE  OwnAnswer'
  BY <1>6 DEF Connected, Moved, OwnAnswer
<1>7. ASSUME NEW c \in Calls, Failed(c) PROVE  OwnAnswer'
  BY <1>7 DEF Failed, Moved, OwnAnswer
<1>8. ASSUME NEW c \in Calls, Sent(c) PROVE  OwnAnswer'
  BY <1>8 DEF Sent, Moved, OwnAnswer
<1>9. ASSUME NEW c \in Calls, Resent(c) PROVE  OwnAnswer'
  BY <1>9 DEF Resent, MovedTo, Moved, OwnAnswer
<1>10. ASSUME NEW c \in Calls, Delivered(c) PROVE  OwnAnswer'
  <2>1. HasReply(c) /\ Reply(c).of = c
    BY <1>10 DEF Delivered, Answers, HasReply, Reply, Mine
  <2>2. Moved(c, "check", call[c].socket, call[c].tries, "answered")
    BY <1>10, <2>1 DEF Delivered
  <2> QED
    BY <2>2 DEF Moved, OwnAnswer
<1>11. ASSUME NEW c \in Calls, Checked(c) PROVE  OwnAnswer'
  BY <1>11 DEF Checked, MovedTo, Moved, OwnAnswer
<1>12. ASSUME NEW c \in Calls, Released(c) PROVE  OwnAnswer'
  BY <1>12 DEF Released, Moved, OwnAnswer
<1>13. ASSUME NEW c \in Calls, Told(c) PROVE  OwnAnswer'
  BY <1>13 DEF Told, OwnAnswer
<1>14. ASSUME NEW s \in Sockets, Served(s) PROVE  OwnAnswer'
  BY <1>14 DEF Served, Carries, SameSlots, OwnAnswer
<1>15. ASSUME Elsewhere PROVE  OwnAnswer'
  BY <1>15 DEF Elsewhere, SameSlots, SameRuns, OwnAnswer
<1> QED
  BY <1>1, <1>2, <1>3, <1>4, <1>5, <1>6, <1>7, <1>8, <1>9, <1>10, <1>11,
    <1>12, <1>13, <1>14, <1>15, StepKinds

\* What is on the wire is for the call that waits for it.
LEMMA AnswersStep ==
  ASSUME RpcTypeOK, Stages, Pool, Wire, Answers, Unread, RpcNext
  PROVE  Answers'
<1>1. /\ idle \in Seq(Sockets)
      /\ \A c \in Calls : Holds(c) => call[c].socket \in Sockets
      /\ \A c \in Calls : call[c].at \notin Leased => ~Holds(c)
      /\ \A c \in Calls : call[c].at \in Exchange =>
            Holds(c) /\ call[c].socket \in Sockets
      /\ \A c \in Calls : At(c, "reply") => Holds(c)
      /\ \A i \in DOMAIN idle : idle[i] \in Sockets
  BY Parts, Fields DEF Stages, Holds, Exchange, At
<1>2. /\ \A c \in Calls : \A i \in DOMAIN idle : idle[i] # call[c].socket
      /\ \A c, d \in Calls : c # d /\ Holds(d) => call[d].socket # call[c].socket
  <2>1. \A i \in DOMAIN idle : idle[i] # NoSocket
    BY <1>1, Fields
  <2> QED
    BY <2>1 DEF Pool, Pooled, Holds
<1>3. ASSUME NEW c \in Calls, Entered(c) PROVE  Answers'
  BY <1>3, <1>1 DEF Entered, MovedTo, Moved, Apart, SameSlots, SameRuns,
    Answers, Silent, Holds, Mine, At, Leased
<1>4. ASSUME NEW c \in Calls, Declined(c) PROVE  Answers'
  BY <1>4, <1>1 DEF Declined, Moved, SameRuns, Answers, Silent, Holds, Mine,
    At, Leased
<1>5. ASSUME NEW c \in Calls, Acquired(c) PROVE  Answers'
  <2>1. socket' = socket /\ node'.ran = node.ran
    BY <1>5 DEF Acquired, SameRuns
  <2>2. \A d \in Calls \ {c} : call'[d] = call[d]
    BY <1>5 DEF Acquired, Moved
  <2>3. call'[c].at = "connection"
    BY <1>5 DEF Acquired, Moved
  <2>4. CASE idle = <<>>
    BY <1>5, <2>1, <2>2, <2>3, <2>4 DEF Acquired, Moved, Answers, Holds, Silent,
      At, Mine
  <2>5. CASE idle # <<>>
    <3>1. /\ idle' = SubSeq(idle, 1, Len(idle) - 1)
          /\ call'[c].socket = idle[Len(idle)]
      BY <1>5, <2>5 DEF Acquired, Moved
    <3>2. /\ \A i \in DOMAIN idle' : i \in DOMAIN idle /\ idle'[i] = idle[i]
          /\ Len(idle) \in DOMAIN idle
      BY <1>1, <2>5, <3>1
    <3>3. Silent(idle[Len(idle)])
      BY <3>2 DEF Answers
    <3>4. \A i \in DOMAIN idle' : Silent(idle[i])'
      BY <2>1, <3>2 DEF Answers, Silent
    <3>5. \A d \in Calls : Holds(d)' /\ ~At(d, "reply")' =>
             Silent(call[d].socket)'
      BY <2>1, <2>2, <3>1, <3>3 DEF Answers, Silent, Holds, At
    <3> QED
      BY <2>1, <2>2, <2>3, <3>4, <3>5 DEF Answers, At, Mine
  <2> QED
    BY <2>4, <2>5
<1>6. ASSUME NEW c \in Calls, Slept(c) PROVE  Answers'
  BY <1>6, <1>1 DEF Slept, MovedTo, Moved, Apart, SameSlots, SameRuns,
    Answers, Silent, Holds, Mine, At, Leased
<1>7. ASSUME NEW c \in Calls, Reused(c) PROVE  Answers'
  BY <1>7, <1>1 DEF Reused, MovedTo, Moved, Apart, SameSlots, SameRuns,
    Answers, Silent, Holds, Mine, At, Leased
<1>8. ASSUME NEW c \in Calls, Connected(c) PROVE  Answers'
  <2>1. PICK s \in Sockets :
           /\ s = call[c].socket \/ ~socket[s].client
           /\ Moved(c, "send", s, call[c].tries, call[c].result)
           /\ socket'[s].asked = <<>> /\ socket'[s].reply = <<>>
           /\ \A t \in Sockets \ {s, call[c].socket} : socket'[t] = socket[t]
    BY <1>8 DEF Connected
  <2>2. /\ call'[c].socket = s /\ call'[c].at = "send"
        /\ \A d \in Calls \ {c} : call'[d] = call[d]
    BY <2>1 DEF Moved
  <2>3. idle' = idle /\ node'.ran = node.ran
    BY <1>8 DEF Connected, SameSlots, SameRuns
  <2>4. \A i \in DOMAIN idle : idle[i] # s /\ idle[i] # call[c].socket
    BY <1>2, <2>1 DEF Pool
  <2>5. \A d \in Calls \ {c} : Holds(d) =>
           call[d].socket # s /\ call[d].socket # call[c].socket
    BY <1>2, <2>1 DEF Pool, Mine
  <2>6. \A i \in DOMAIN idle : socket'[idle[i]] = socket[idle[i]]
    BY <1>1, <2>1, <2>4
  <2>7. \A d \in Calls \ {c} : Holds(d) =>
           socket'[call[d].socket] = socket[call[d].socket]
    BY <1>1, <2>1, <2>5
  <2>8. \A i \in DOMAIN idle' : Silent(idle[i])'
    BY <2>3, <2>6 DEF Answers, Silent
  <2>9. \A d \in Calls : Holds(d)' /\ ~At(d, "reply")' => Silent(call[d].socket)'
    BY <2>1, <2>2, <2>7 DEF Answers, Silent, Holds, At
  <2>10. ASSUME NEW d \in Calls, At(d, "reply")'
         PROVE  d # c /\ At(d, "reply") /\ Holds(d) /\ Mine(d)' = Mine(d)
    BY <1>1, <2>2, <2>7, <2>10 DEF At, Mine, Exchange
  <2> QED
    BY <2>3, <2>8, <2>9, <2>10 DEF Answers
<1>9. ASSUME NEW c \in Calls, Failed(c) PROVE  Answers'
  <2>1. \A t \in Sockets : t # call[c].socket => socket'[t] = socket[t]
    BY <1>9 DEF Failed, Dropped
  <2>2. /\ call'[c].socket = NoSocket /\ call'[c].at = "release"
        /\ \A d \in Calls \ {c} : call'[d] = call[d]
    BY <1>9 DEF Failed, Moved
  <2>3. idle' = idle /\ node'.ran = node.ran
    BY <1>9 DEF Failed, SameSlots, SameRuns
  <2> QED
    BY <1>1, <1>2, <2>1, <2>2, <2>3 DEF Answers, Silent, Holds, At, Mine
<1>10. ASSUME NEW c \in Calls, Sent(c) PROVE  Answers'
  <2>1. /\ call[c].socket \in Sockets /\ Silent(call[c].socket) /\ Holds(c)
        /\ At(c, "send")
    BY <1>1, <1>10 DEF Sent, At, Exchange, Answers
  <2>2. /\ call'[c].socket = call[c].socket /\ call'[c].at = "reply"
        /\ \A d \in Calls \ {c} : call'[d] = call[d]
    BY <1>10 DEF Sent, Moved
  <2>3. idle' = idle /\ node'.ran = node.ran
    BY <1>10 DEF Sent, SameSlots, SameRuns
  <2>4. /\ \A t \in Sockets : t # call[c].socket => socket'[t] = socket[t]
        /\ socket'[call[c].socket].reply = <<>>
    BY <1>10, <2>1 DEF Sent, Carries, Silent, Mine
  <2> QED
    BY <1>1, <1>2, <2>1, <2>2, <2>3, <2>4 DEF Answers, Silent, Holds, At, Mine
<1>11. ASSUME NEW c \in Calls, Resent(c) PROVE  Answers'
  <2>1. /\ call[c].socket \in Sockets /\ Mine(c).reply # <<>> /\ Holds(c)
        /\ Read(c)
    BY <1>1, <1>11 DEF Resent, HasReply, At, Exchange, Mine
  <2>2. Tail(Mine(c).reply) = <<>> /\ Mine(c).asked = <<>>
    BY <2>1, Messages DEF Mine, Wire
  <2>3. /\ \A t \in Sockets : t # call[c].socket => socket'[t] = socket[t]
        /\ socket'[call[c].socket].asked = <<>>
        /\ socket'[call[c].socket].reply = <<>>
    BY <2>1, <2>2 DEF Read, Carries
  <2>4. /\ call'[c].socket = call[c].socket /\ call'[c].at # "reply"
        /\ \A d \in Calls \ {c} : call'[d] = call[d]
    BY <1>11 DEF Resent, MovedTo, Moved
  <2>5. idle' = idle /\ node'.ran = node.ran
    BY <1>11 DEF Resent, SameSlots, SameRuns
  <2> QED
    BY <1>1, <1>2, <2>1, <2>3, <2>4, <2>5 DEF Answers, Silent, Holds, At, Mine
<1>12. ASSUME NEW c \in Calls, Delivered(c) PROVE  Answers'
  <2>1. /\ call[c].socket \in Sockets /\ Mine(c).reply # <<>> /\ Holds(c)
        /\ Read(c)
    BY <1>1, <1>12 DEF Delivered, HasReply, At, Exchange, Mine
  <2>2. Tail(Mine(c).reply) = <<>> /\ Mine(c).asked = <<>>
    BY <2>1, Messages DEF Mine, Wire
  <2>3. /\ \A t \in Sockets : t # call[c].socket => socket'[t] = socket[t]
        /\ socket'[call[c].socket].asked = <<>>
        /\ socket'[call[c].socket].reply = <<>>
    BY <2>1, <2>2 DEF Read, Carries
  <2>4. /\ call'[c].socket = call[c].socket /\ call'[c].at # "reply"
        /\ \A d \in Calls \ {c} : call'[d] = call[d]
    BY <1>12 DEF Delivered, Moved
  <2>5. idle' = idle /\ node'.ran = node.ran
    BY <1>12 DEF Delivered, SameSlots, SameRuns
  <2> QED
    BY <1>1, <1>2, <2>1, <2>3, <2>4, <2>5 DEF Answers, Silent, Holds, At, Mine
<1>13. ASSUME NEW c \in Calls, Checked(c) PROVE  Answers'
  <2>1. idle' = idle /\ node'.ran = node.ran /\ At(c, "check")
    BY <1>13 DEF Checked, SameSlots, SameRuns
  <2>2. CASE MovedTo(c, "release") /\ socket' = socket
    BY <1>1, <2>1, <2>2 DEF MovedTo, Moved, Answers, Silent, Holds, At, Mine
  <2>3. CASE /\ Moved(c, "release", NoSocket, call[c].tries, call[c].result)
             /\ Dropped(c)
    <3>1. \A t \in Sockets : t # call[c].socket => socket'[t] = socket[t]
      BY <2>3 DEF Dropped
    <3>2. /\ call'[c].socket = NoSocket /\ call'[c].at = "release"
          /\ \A d \in Calls \ {c} : call'[d] = call[d]
      BY <2>3 DEF Moved
    <3> QED
      BY <1>1, <1>2, <2>1, <3>1, <3>2 DEF Answers, Silent, Holds, At, Mine
  <2> QED
    BY <1>13, <2>2, <2>3 DEF Checked
<1>14. ASSUME NEW c \in Calls, Released(c) PROVE  Answers'
  <2>1. /\ call'[c].socket = NoSocket /\ call'[c].at = "notify"
        /\ \A d \in Calls \ {c} : call'[d] = call[d]
    BY <1>14 DEF Released, Moved
  <2>2. socket' = socket /\ node'.ran = node.ran /\ At(c, "release")
    BY <1>14 DEF Released, SameRuns
  <2>3. \A i \in DOMAIN idle' : Silent(idle'[i])
    <3>1. CASE idle' = idle
      BY <3>1 DEF Answers
    <3>2. CASE idle' # idle
      <4>1. Holds(c) /\ idle' = Append(idle, call[c].socket)
        BY <1>14, <3>2 DEF Released
      <4>2. ASSUME NEW i \in DOMAIN idle'
            PROVE  \/ i \in DOMAIN idle /\ idle'[i] = idle[i]
                   \/ idle'[i] = call[c].socket
        BY <1>1, <4>1
      <4>3. Silent(call[c].socket)
        BY <2>2, <4>1 DEF Answers, At
      <4> QED
        BY <4>2, <4>3 DEF Answers
    <3> QED
      BY <3>1, <3>2
  <2> QED
    BY <2>1, <2>2, <2>3 DEF Answers, Silent, Holds, At, Mine
<1>15. ASSUME NEW c \in Calls, Told(c) PROVE  Answers'
  BY <1>15, <1>1 DEF Told, Apart, SameSlots, SameRuns, Answers, Silent, Holds,
    Mine, At, Leased
<1>16. ASSUME NEW s \in Sockets, Served(s) PROVE  Answers'
  <2> DEFINE g == Given(s)
  <2>1. PICK answer \in Answered :
           /\ answer.of = g /\ node'.ran = Ran(s, answer.status)
           /\ \/ Carries(s, Tail(socket[s].asked), socket[s].reply)
              \/ Carries(s, Tail(socket[s].asked),
                         Append(socket[s].reply, answer))
    BY <1>16 DEF Served
  <2>2. /\ socket[s].asked # <<>> /\ call' = call /\ idle' = idle
        /\ g \in Calls /\ node.ran[g] = 0
    BY <1>16, Messages DEF Served, SameSlots, Unread
  <2>3. socket[s].reply = <<>> /\ answer.status \in {200, 401}
    BY <2>2 DEF Wire, Answered
  <2>4. /\ node.ran \in [Calls -> Nat]
        /\ \A d \in Calls \ {g} : node'.ran[d] = node.ran[d]
        /\ answer.status = 401 => node'.ran[g] = 0
        /\ answer.status = 200 => node'.ran[g] = 1
    BY <2>1, <2>2, Fields DEF Ran
  <2>5. /\ \A t \in Sockets : t # s => socket'[t] = socket[t]
        /\ socket'[s].reply # <<>> => socket'[s].reply[1] = answer
    <3>1. <<>> \in Seq(Answered) /\ Append(<<>>, answer)[1] = answer
      OBVIOUS
    <3>2. CASE Carries(s, Tail(socket[s].asked), socket[s].reply)
      BY <2>3, <3>2 DEF Carries
    <3>3. CASE Carries(s, Tail(socket[s].asked), Append(socket[s].reply, answer))
      BY <2>3, <3>1, <3>3 DEF Carries
    <3> QED
      BY <2>1, <3>2, <3>3
  <2>6. \A i \in DOMAIN idle : idle[i] # s
    BY <2>2 DEF Answers, Silent
  <2>7. \A d \in Calls : Holds(d) /\ call[d].socket = s =>
           d = g /\ At(d, "reply")
    <3>1. \/ At(g, "reply") /\ call[g].socket = s
          \/ ~socket[s].client
      BY <2>2 DEF Unread
    <3> QED
      BY <2>2, <3>1 DEF Answers, Silent, Pool, Mine, Holds
  <2>8. \A d \in Calls : At(d, "reply") /\ call[d].socket # s => d # g
    BY <2>2 DEF Unread, At, Ended
  <2>9. \A i \in DOMAIN idle' : Silent(idle[i])'
    BY <1>1, <2>2, <2>5, <2>6 DEF Answers, Silent
  <2>10. \A d \in Calls : Holds(d)' /\ ~At(d, "reply")' => Silent(call[d].socket)'
    BY <1>1, <2>2, <2>5, <2>7 DEF Answers, Silent, Holds, At
  <2>11. ASSUME NEW d \in Calls, At(d, "reply")', Mine(d).reply' # <<>>
         PROVE  /\ Mine(d).reply[1].of' = d
                /\ Mine(d).reply[1].status' = 401 => node'.ran[d] = 0
                /\ Mine(d).reply[1].status' = 200 => node'.ran[d] = 1
    <3>1. At(d, "reply") /\ Holds(d) /\ call'[d].socket = call[d].socket
      BY <1>1, <2>2, <2>11 DEF At, Exchange
    <3>2. CASE call[d].socket = s
      <4>1. d = g
        BY <2>7, <3>1, <3>2
      <4>2. Mine(d).reply[1]' = answer
        BY <2>5, <2>11, <3>1, <3>2 DEF Mine
      <4> QED
        BY <2>1, <2>4, <4>1, <4>2
    <3>3. CASE call[d].socket # s
      <4>1. Mine(d)' = Mine(d)
        BY <1>1, <2>5, <3>1, <3>3 DEF Mine
      <4>2. node'.ran[d] = node.ran[d]
        BY <2>4, <2>8, <3>1, <3>3
      <4> QED
        BY <2>11, <3>1, <4>1, <4>2 DEF Answers
    <3> QED
      BY <3>2, <3>3
  <2> QED
    BY <2>9, <2>10, <2>11 DEF Answers
<1>17. ASSUME Elsewhere PROVE  Answers'
  BY <1>17, <1>1 DEF Elsewhere, SameSlots, SameRuns, Answers, Silent, Holds,
    Mine, At, Leased
<1> QED
  BY <1>3, <1>4, <1>5, <1>6, <1>7, <1>8, <1>9, <1>10, <1>11, <1>12, <1>13,
    <1>14, <1>15, <1>16, <1>17, StepKinds

\* A request the node has not read was not executed.
LEMMA UnreadStep ==
  ASSUME RpcTypeOK, Stages, Pool, Wire, Answers, Unread, Executed, RpcNext
  PROVE  Unread'
<1>1. /\ \A t \in Sockets : socket[t].asked # <<>> => Given(t) \in Calls
      /\ \A c \in Calls : call[c].at \in Exchange =>
            Holds(c) /\ call[c].socket \in Sockets
  BY Messages, Fields DEF Stages, Holds
<1>2. \A t \in Sockets : socket[t].asked # <<>> =>
         call[Given(t)].at \in {"reply"} \cup Ended
  BY DEF Unread, At
<1>3. \A c \in Calls : Holds(c) => Mine(c).client
  BY DEF Pool
<1>0. ASSUME node'.ran = node.ran,
             \A t \in Sockets : socket'[t].asked # <<>> =>
                socket'[t] = socket[t],
             \A t \in Sockets : socket[t].asked # <<>> =>
                \/ call'[Given(t)] = call[Given(t)]
                \/ /\ call[Given(t)].at \in Ended
                   /\ call'[Given(t)].at \in Ended
                   /\ call'[Given(t)].result = call[Given(t)].result
      PROVE  Unread'
  <2>1. ASSUME NEW t \in Sockets, socket'[t].asked # <<>>
        PROVE  /\ socket'[t] = socket[t] /\ socket[t].asked # <<>>
               /\ Given(t)' = Given(t)
    BY <1>0, <2>1 DEF Given
  <2>2. ASSUME NEW t \in Sockets, socket'[t].asked # <<>>
        PROVE  /\ node'.ran[Given(t)'] = 0
               /\ \/ At(Given(t), "reply")' /\ call'[Given(t)'].socket = t
                  \/ /\ call'[Given(t)'].at \in Ended
                     /\ call'[Given(t)'].result \in {"cancelled", "failed"}
                     /\ ~socket'[t].client
    <3>1. /\ socket'[t] = socket[t] /\ socket[t].asked # <<>>
          /\ Given(t)' = Given(t)
      BY <2>1, <2>2
    <3>2. /\ node.ran[Given(t)] = 0
          /\ \/ call[Given(t)].at = "reply" /\ call[Given(t)].socket = t
             \/ /\ call[Given(t)].at \in Ended
                /\ call[Given(t)].result \in {"cancelled", "failed"}
                /\ ~socket[t].client
      BY <3>1 DEF Unread, At
    <3>3. \/ call'[Given(t)] = call[Given(t)]
          \/ /\ call[Given(t)].at \in Ended
             /\ call'[Given(t)].at \in Ended
             /\ call'[Given(t)].result = call[Given(t)].result
      BY <1>0, <3>1
    <3>4. call[Given(t)].at \in Ended => call[Given(t)].at # "reply"
      BY DEF Ended
    <3> QED
      BY <1>0, <3>1, <3>2, <3>3, <3>4 DEF At
  <2>3. \A t, u \in Sockets :
           /\ socket'[t].asked # <<>> /\ socket'[u].asked # <<>>
           /\ Given(t)' = Given(u)'
           => t = u
    BY <2>1 DEF Unread
  <2> QED
    BY <2>2, <2>3 DEF Unread
<1>4. ASSUME NEW c \in Calls, Entered(c) PROVE  Unread'
  <2>1. call[c].at \notin {"reply"} \cup Ended
    BY <1>4 DEF Entered, At, Ended
  <2>2. \A d \in Calls \ {c} : call'[d] = call[d]
    BY <1>4 DEF Entered, MovedTo, Moved
  <2>3. socket' = socket /\ node'.ran = node.ran
    BY <1>4 DEF Entered, Apart, SameSlots, SameRuns
  <2>4. \A t \in Sockets : socket[t].asked # <<>> =>
           call'[Given(t)] = call[Given(t)]
    BY <1>1, <1>2, <2>1, <2>2
  <2> QED
    BY <1>0, <2>3, <2>4
<1>5. ASSUME NEW c \in Calls, Declined(c) PROVE  Unread'
  <2>1. call[c].at \notin {"reply"} \cup Ended
    BY <1>5 DEF Declined, At, Ended
  <2>2. \A d \in Calls \ {c} : call'[d] = call[d]
    BY <1>5 DEF Declined, Moved
  <2>3. socket' = socket /\ node'.ran = node.ran
    BY <1>5 DEF Declined, SameRuns
  <2>4. \A t \in Sockets : socket[t].asked # <<>> =>
           call'[Given(t)] = call[Given(t)]
    BY <1>1, <1>2, <2>1, <2>2
  <2> QED
    BY <1>0, <2>3, <2>4
<1>6. ASSUME NEW c \in Calls, Acquired(c) PROVE  Unread'
  <2>1. call[c].at \notin {"reply"} \cup Ended
    BY <1>6 DEF Acquired, At, Ended
  <2>2. \A d \in Calls \ {c} : call'[d] = call[d]
    BY <1>6 DEF Acquired, Moved
  <2>3. socket' = socket /\ node'.ran = node.ran
    BY <1>6 DEF Acquired, SameRuns
  <2>4. \A t \in Sockets : socket[t].asked # <<>> =>
           call'[Given(t)] = call[Given(t)]
    BY <1>1, <1>2, <2>1, <2>2
  <2> QED
    BY <1>0, <2>3, <2>4
<1>7. ASSUME NEW c \in Calls, Slept(c) PROVE  Unread'
  <2>1. call[c].at \notin {"reply"} \cup Ended
    BY <1>7 DEF Slept, At, Ended
  <2>2. \A d \in Calls \ {c} : call'[d] = call[d]
    BY <1>7 DEF Slept, MovedTo, Moved
  <2>3. socket' = socket /\ node'.ran = node.ran
    BY <1>7 DEF Slept, Apart, SameSlots, SameRuns
  <2>4. \A t \in Sockets : socket[t].asked # <<>> =>
           call'[Given(t)] = call[Given(t)]
    BY <1>1, <1>2, <2>1, <2>2
  <2> QED
    BY <1>0, <2>3, <2>4
<1>8. ASSUME NEW c \in Calls, Reused(c) PROVE  Unread'
  <2>1. call[c].at \notin {"reply"} \cup Ended
    BY <1>8 DEF Reused, At, Ended
  <2>2. \A d \in Calls \ {c} : call'[d] = call[d]
    BY <1>8 DEF Reused, MovedTo, Moved
  <2>3. socket' = socket /\ node'.ran = node.ran
    BY <1>8 DEF Reused, Apart, SameSlots, SameRuns
  <2>4. \A t \in Sockets : socket[t].asked # <<>> =>
           call'[Given(t)] = call[Given(t)]
    BY <1>1, <1>2, <2>1, <2>2
  <2> QED
    BY <1>0, <2>3, <2>4
<1>9. ASSUME NEW c \in Calls, Connected(c) PROVE  Unread'
  <2>1. PICK s \in Sockets :
           /\ s = call[c].socket \/ ~socket[s].client
           /\ Moved(c, "send", s, call[c].tries, call[c].result)
           /\ socket'[s].asked = <<>>
           /\ \A t \in Sockets \ {s, call[c].socket} : socket'[t] = socket[t]
           /\ Holds(c) /\ call[c].socket # s =>
                 socket'[call[c].socket].asked = Mine(c).asked
    BY <1>9 DEF Connected
  <2>2. node'.ran = node.ran /\ \A d \in Calls \ {c} : call'[d] = call[d]
    BY <1>9, <2>1 DEF Connected, Moved, SameRuns
  <2>3. call[c].at \notin {"reply"} \cup Ended /\ ~At(c, "reply")
    BY <1>9 DEF Connected, At, Ended
  <2>4. Holds(c) => Mine(c).asked = <<>>
    BY <2>3 DEF Answers, Silent, Mine
  <2>5. \A t \in Sockets : socket'[t].asked # <<>> => socket'[t] = socket[t]
    BY <2>1, <2>4, Fields DEF Holds
  <2>6. \A t \in Sockets : socket[t].asked # <<>> =>
           call'[Given(t)] = call[Given(t)]
    BY <1>1, <1>2, <2>2, <2>3
  <2> QED
    BY <1>0, <2>2, <2>5, <2>6
<1>10. ASSUME NEW c \in Calls, Failed(c) PROVE  Unread'
  <2>1. PICK result \in {"connect", "cancelled", "failed", "rejected"} :
           /\ Moved(c, "release", NoSocket, call[c].tries, result)
           /\ result = "connect" => At(c, "connection")
           /\ result = "rejected" => HasReply(c)
    BY <1>10 DEF Failed
  <2>2. /\ \A d \in Calls \ {c} : call'[d] = call[d]
        /\ call'[c].at \in Ended /\ call'[c].result = result
    BY <2>1 DEF Moved, Ended
  <2>3. /\ call[c].at \in {"connection", "send", "reply"} /\ Dropped(c)
        /\ node'.ran = node.ran
    BY <1>10 DEF Failed, SameRuns
  <2>4. \A t \in Sockets : /\ socket'[t].asked = socket[t].asked
                           /\ t # call[c].socket => socket'[t] = socket[t]
    BY <2>3, Fields DEF Dropped, Mine, Holds
  <2>5. \A t \in Sockets : socket[t].asked # <<>> /\ Given(t) # c =>
           t # call[c].socket \/ ~Holds(c)
    BY <1>1, <1>3 DEF Unread, Pool, Holds, Mine
  <2>6. \A t \in Sockets : socket[t].asked # <<>> /\ Given(t) = c =>
           /\ call[c].socket = t /\ Holds(c) /\ At(c, "reply")
           /\ socket'[t].client = FALSE
    <3>1. \A t \in Sockets : socket[t].asked # <<>> /\ Given(t) = c =>
             call[c].socket = t /\ At(c, "reply")
      BY <2>3 DEF Unread, Ended
    <3> QED
      BY <2>3, <3>1, Fields DEF Dropped, Holds
  <2>7. \A t \in Sockets : socket[t].asked # <<>> /\ Given(t) = c =>
           result \in {"cancelled", "failed"}
    BY <2>1, <2>6 DEF Wire, HasReply, At
  <2>8. \A t \in Sockets : Given(t)' = Given(t)
    BY <2>4 DEF Given
  <2>9. ASSUME NEW t \in Sockets, socket'[t].asked # <<>>
        PROVE  /\ node'.ran[Given(t)'] = 0
               /\ \/ At(Given(t), "reply")' /\ call'[Given(t)'].socket = t
                  \/ /\ call'[Given(t)'].at \in Ended
                     /\ call'[Given(t)'].result \in {"cancelled", "failed"}
                     /\ ~socket'[t].client
    <3>1. socket[t].asked # <<>> /\ Given(t) \in Calls
      BY <1>1, <2>4, <2>9
    <3>2. node'.ran[Given(t)'] = 0
      BY <2>3, <2>8, <3>1 DEF Unread
    <3>3. CASE Given(t) = c
      BY <2>2, <2>6, <2>7, <2>8, <3>1, <3>2, <3>3
    <3>4. CASE Given(t) # c
      <4>1. socket'[t] = socket[t]
        BY <2>4, <2>5, <3>1, <3>4, Fields DEF Holds
      <4>2. call'[Given(t)] = call[Given(t)]
        BY <2>2, <3>1, <3>4
      <4> QED
        BY <2>8, <3>1, <3>2, <4>1, <4>2 DEF Unread, At
    <3> QED
      BY <3>3, <3>4
  <2>10. \A s, t \in Sockets :
            /\ socket'[s].asked # <<>> /\ socket'[t].asked # <<>>
            /\ Given(s)' = Given(t)'
            => s = t
    BY <2>4, <2>8 DEF Unread
  <2> QED
    BY <2>9, <2>10 DEF Unread
<1>11. ASSUME NEW c \in Calls, Sent(c) PROVE  Unread'
  <2>1. /\ call[c].socket \in Sockets /\ Silent(call[c].socket) /\ Holds(c)
        /\ At(c, "send") /\ node.ran[c] = 0
    BY <1>1, <1>11 DEF Sent, At, Exchange, Answers, Executed
  <2>2. /\ call'[c].socket = call[c].socket /\ call'[c].at = "reply"
        /\ \A d \in Calls \ {c} : call'[d] = call[d]
    BY <1>11 DEF Sent, Moved
  <2>3. node'.ran = node.ran
    BY <1>11 DEF Sent, SameRuns
  <2>4. \A t \in Sockets : socket[t].asked # <<>> => Given(t) # c
    BY <2>1 DEF Unread, At, Ended
  <2>5. /\ \A t \in Sockets : t # call[c].socket => socket'[t] = socket[t]
        /\ socket'[call[c].socket].asked # <<>> => Given(call[c].socket)' = c
    <3>1. socket[call[c].socket].asked = <<>>
      BY <2>1 DEF Silent
    <3>2. CASE socket' = socket
      BY <3>1, <3>2
    <3>3. CASE socket' # socket
      <4>1. PICK request \in Requested :
               /\ request.of = c
               /\ Carries(call[c].socket, Append(Mine(c).asked, request),
                          Mine(c).reply)
        BY <1>11, <3>3 DEF Sent
      <4>2. <<>> \in Seq(Requested) /\ Append(<<>>, request)[1] = request
        OBVIOUS
      <4>3. socket'[call[c].socket].asked[1] = request
        BY <3>1, <4>1, <4>2 DEF Carries, Mine
      <4> QED
        BY <2>2, <4>1, <4>3 DEF Carries, Given
    <3> QED
      BY <3>2, <3>3
  <2>6. \A t \in Sockets : t # call[c].socket => Given(t)' = Given(t)
    BY <2>5 DEF Given
  <2>7. ASSUME NEW t \in Sockets, socket'[t].asked # <<>>
        PROVE  /\ node'.ran[Given(t)'] = 0
               /\ \/ At(Given(t), "reply")' /\ call'[Given(t)'].socket = t
                  \/ /\ call'[Given(t)'].at \in Ended
                     /\ call'[Given(t)'].result \in {"cancelled", "failed"}
                     /\ ~socket'[t].client
    <3>1. CASE t = call[c].socket
      BY <2>1, <2>2, <2>3, <2>5, <2>7, <3>1 DEF At
    <3>2. CASE t # call[c].socket
      <4>1. /\ socket[t].asked # <<>> /\ Given(t) \in Calls \ {c}
            /\ Given(t)' = Given(t) /\ socket'[t] = socket[t]
        BY <1>1, <2>4, <2>5, <2>6, <2>7, <3>2
      <4>2. call'[Given(t)] = call[Given(t)]
        BY <2>2, <4>1
      <4> QED
        BY <2>3, <4>1, <4>2 DEF Unread, At
    <3> QED
      BY <3>1, <3>2
  <2>8. \A s, t \in Sockets :
           /\ socket'[s].asked # <<>> /\ socket'[t].asked # <<>>
           /\ Given(s)' = Given(t)'
           => s = t
    <3>1. \A t \in Sockets : t # call[c].socket /\ socket'[t].asked # <<>> =>
             socket[t].asked # <<>> /\ Given(t)' = Given(t) /\ Given(t)' # c
      BY <2>4, <2>5, <2>6
    <3>2. ASSUME NEW s \in Sockets, NEW u \in Sockets,
                 socket'[s].asked # <<>>, socket'[u].asked # <<>>,
                 Given(s)' = Given(u)'
          PROVE  s = u
      <4>1. CASE s = call[c].socket \/ u = call[c].socket
        BY <2>2, <2>5, <3>1, <3>2, <4>1
      <4>2. CASE s # call[c].socket /\ u # call[c].socket
        <5>1. /\ socket[s].asked # <<>> /\ socket[u].asked # <<>>
              /\ Given(s) = Given(u)
          BY <3>1, <3>2, <4>2
        <5> QED
          BY <5>1 DEF Unread
      <4> QED
        BY <4>1, <4>2
    <3> QED
      BY <3>2
  <2> QED
    BY <2>7, <2>8 DEF Unread
<1>12. ASSUME NEW c \in Calls, Resent(c) PROVE  Unread'
  <2>1. /\ call[c].socket \in Sockets /\ Mine(c).reply # <<>>
        /\ Read(c) /\ At(c, "reply")
    BY <1>1, <1>12 DEF Resent, HasReply, At, Exchange, Mine
  <2>2. Mine(c).asked = <<>>
    BY <2>1 DEF Mine, Wire
  <2>3. \A t \in Sockets : socket'[t].asked # <<>> => socket'[t] = socket[t]
    BY <2>1, <2>2 DEF Read, Carries
  <2>4. node'.ran = node.ran /\ \A d \in Calls \ {c} : call'[d] = call[d]
    BY <1>12 DEF Resent, MovedTo, Moved, SameRuns
  <2>5. \A t \in Sockets : socket[t].asked # <<>> => Given(t) # c
    BY <2>1, <2>2 DEF Unread, At, Ended, Mine
  <2>6. \A t \in Sockets : socket'[t].asked # <<>> =>
           /\ Given(t)' = Given(t) /\ Given(t) \in Calls \ {c}
           /\ call'[Given(t)] = call[Given(t)] /\ socket[t].asked # <<>>
    BY <1>1, <2>3, <2>4, <2>5 DEF Given
  <2> QED
    BY <2>3, <2>4, <2>6 DEF Unread, At
<1>13. ASSUME NEW c \in Calls, Delivered(c) PROVE  Unread'
  <2>1. /\ call[c].socket \in Sockets /\ Mine(c).reply # <<>>
        /\ Read(c) /\ At(c, "reply")
    BY <1>1, <1>13 DEF Delivered, HasReply, At, Exchange, Mine
  <2>2. Mine(c).asked = <<>>
    BY <2>1 DEF Mine, Wire
  <2>3. \A t \in Sockets : socket'[t].asked # <<>> => socket'[t] = socket[t]
    BY <2>1, <2>2 DEF Read, Carries
  <2>4. node'.ran = node.ran /\ \A d \in Calls \ {c} : call'[d] = call[d]
    BY <1>13 DEF Delivered, Moved, SameRuns
  <2>5. \A t \in Sockets : socket[t].asked # <<>> => Given(t) # c
    BY <2>1, <2>2 DEF Unread, At, Ended, Mine
  <2>6. \A t \in Sockets : socket'[t].asked # <<>> =>
           /\ Given(t)' = Given(t) /\ Given(t) \in Calls \ {c}
           /\ call'[Given(t)] = call[Given(t)] /\ socket[t].asked # <<>>
    BY <1>1, <2>3, <2>4, <2>5 DEF Given
  <2> QED
    BY <2>3, <2>4, <2>6 DEF Unread, At
<1>14. ASSUME NEW c \in Calls, Checked(c) PROVE  Unread'
  <2>1. call[c].at \notin {"reply"} \cup Ended /\ ~At(c, "reply")
    BY <1>14 DEF Checked, At, Ended
  <2>2. node'.ran = node.ran /\ \A d \in Calls \ {c} : call'[d] = call[d]
    BY <1>14 DEF Checked, MovedTo, Moved, SameRuns
  <2>3. Holds(c) => Mine(c).asked = <<>>
    BY <2>1 DEF Answers, Silent, Mine
  <2>4. \A t \in Sockets : socket'[t].asked # <<>> => socket'[t] = socket[t]
    BY <1>14, <2>3, Fields DEF Checked, Dropped, Holds
  <2>5. \A t \in Sockets : socket[t].asked # <<>> =>
           call'[Given(t)] = call[Given(t)]
    BY <1>1, <1>2, <2>1, <2>2
  <2> QED
    BY <1>0, <2>2, <2>4, <2>5
<1>15. ASSUME NEW c \in Calls, Released(c) PROVE  Unread'
  <2>1. socket' = socket /\ node'.ran = node.ran /\ At(c, "release")
    BY <1>15 DEF Released, SameRuns
  <2>2. /\ \A d \in Calls \ {c} : call'[d] = call[d]
        /\ call'[c].at \in Ended /\ call'[c].result = call[c].result
    BY <1>15 DEF Released, Moved, Ended
  <2>3. call[c].at \in Ended
    BY <2>1 DEF At, Ended
  <2> QED
    BY <1>0, <1>1, <2>1, <2>2, <2>3
<1>16. ASSUME NEW c \in Calls, Told(c) PROVE  Unread'
  <2>1. socket' = socket /\ node'.ran = node.ran /\ At(c, "notify")
    BY <1>16 DEF Told, Apart, SameRuns
  <2>2. call'[c].at \in Ended /\ call'[c].result = call[c].result
    BY <1>16 DEF Told, Ended
  <2>3. \A d \in Calls \ {c} : call'[d] = call[d] \/ At(d, "asleep")
    BY <1>16 DEF Told
  <2>4. \A t \in Sockets : socket[t].asked # <<>> => ~At(Given(t), "asleep")
    BY DEF Unread, At, Ended
  <2>5. call[c].at \in Ended
    BY <2>1 DEF At, Ended
  <2> QED
    BY <1>0, <1>1, <2>1, <2>2, <2>3, <2>4, <2>5
<1>17. ASSUME NEW s \in Sockets, Served(s) PROVE  Unread'
  <2>1. socket[s].asked # <<>> /\ call' = call /\ Tail(socket[s].asked) = <<>>
    BY <1>17, Messages DEF Served
  <2>2. /\ \A t \in Sockets : t # s => socket'[t] = socket[t]
        /\ socket'[s].asked = <<>>
    BY <1>17, <2>1 DEF Served, Carries
  <2>3. \A d \in Calls : d # Given(s) => node'.ran[d] = node.ran[d]
    BY <1>17, Fields DEF Served, Ran
  <2>4. \A t \in Sockets : socket'[t].asked # <<>> =>
           /\ t # s /\ socket'[t] = socket[t] /\ Given(t)' = Given(t)
           /\ Given(t) \in Calls /\ Given(t) # Given(s)
    BY <1>1, <2>1, <2>2 DEF Unread, Given
  <2> QED
    BY <2>1, <2>3, <2>4 DEF Unread, At
<1>18. ASSUME Elsewhere PROVE  Unread'
  <2>1. node'.ran = node.ran
    BY <1>18 DEF Elsewhere, SameRuns
  <2>2. \A t \in Sockets : /\ socket'[t].client = socket[t].client
                           /\ socket'[t].asked = socket[t].asked
                           /\ Given(t)' = Given(t)
    BY <1>18 DEF Elsewhere, Given
  <2>3. \A d \in Calls : /\ call'[d].socket = call[d].socket
                         /\ call'[d].result = call[d].result
                         /\ ~At(d, "asleep") => call'[d].at = call[d].at
    BY <1>18 DEF Elsewhere
  <2>4. \A t \in Sockets : socket[t].asked # <<>> => ~At(Given(t), "asleep")
    BY DEF Unread, At, Ended
  <2> QED
    BY <1>1, <2>1, <2>2, <2>3, <2>4 DEF Unread, At
<1> QED
  BY <1>4, <1>5, <1>6, <1>7, <1>8, <1>9, <1>10, <1>11, <1>12, <1>13, <1>14,
    <1>15, <1>16, <1>17, <1>18, StepKinds

\* A call that is moved on, with its result as it was.
LEMMA ExecutedMoved ==
  ASSUME Executed, NEW c \in Calls, NEW at, NEW own, NEW tries,
         Moved(c, at, own, tries, call[c].result),
         node'.ran = node.ran, setup' = setup,
         at \in Before \cup {"send"} => call[c].at \in Before \cup {"send"}
  PROVE  Executed'
<1>1. call'[c].at = at /\ call'[c].result = call[c].result
  BY DEF Moved
<1>2. \A d \in Calls \ {c} : call'[d] = call[d]
  BY DEF Moved
<1> QED
  BY <1>1, <1>2 DEF Executed

\* What was executed, by the place and the result of its call.
LEMMA ExecutedStep ==
  ASSUME RpcTypeOK, Stages, Answers, Unread, Executed, RpcNext
  PROVE  Executed'
<1>1. ASSUME NEW c \in Calls, Entered(c) PROVE  Executed'
  BY <1>1, Fields DEF Entered, MovedTo, Moved, Apart, SameSlots, SameRuns,
    Executed, At, Before, Waiting, Refusals
<1>2. ASSUME NEW c \in Calls, Declined(c) PROVE  Executed'
  BY <1>2, Fields DEF Declined, Moved, SameRuns, Executed, At, Before,
    Waiting, Refusals
<1>3. ASSUME NEW c \in Calls, Acquired(c) PROVE  Executed'
  <2>1. PICK own : Moved(c, "connection", own, call[c].tries, call[c].result)
    BY <1>3 DEF Acquired
  <2>2. /\ call[c].at \in Before /\ node'.ran = node.ran /\ setup' = setup
    BY <1>3 DEF Acquired, SameRuns, Before, Waiting
  <2> QED
    BY <2>1, <2>2, ExecutedMoved
<1>4. ASSUME NEW c \in Calls, Slept(c) PROVE  Executed'
  BY <1>4, Fields DEF Slept, MovedTo, Moved, Apart, SameSlots, SameRuns,
    Executed, At, Before, Waiting, Refusals
<1>5. ASSUME NEW c \in Calls, Reused(c) PROVE  Executed'
  BY <1>5, Fields DEF Reused, MovedTo, Moved, Apart, SameSlots, SameRuns,
    Executed, At, Before, Waiting, Refusals
<1>6. ASSUME NEW c \in Calls, Connected(c) PROVE  Executed'
  BY <1>6, Fields DEF Connected, Moved, SameSlots, SameRuns, Executed, At,
    Before, Waiting, Refusals
<1>7. ASSUME NEW c \in Calls, Failed(c) PROVE  Executed'
  BY <1>7, Fields DEF Failed, Moved, SameSlots, SameRuns, Executed, At,
    Before, Waiting, Refusals
<1>8. ASSUME NEW c \in Calls, Sent(c) PROVE  Executed'
  <2>1. /\ Moved(c, "reply", call[c].socket, call[c].tries + 1, call[c].result)
        /\ node'.ran = node.ran /\ setup' = setup
    BY <1>8 DEF Sent, SameSlots, SameRuns
  <2> QED
    BY <2>1, ExecutedMoved DEF Before, Waiting
<1>9. ASSUME NEW c \in Calls, Resent(c) PROVE  Executed'
  <2>1. /\ At(c, "reply") /\ Mine(c).reply # <<>> /\ Mine(c).reply[1].status = 401
        /\ setup' = setup /\ node'.ran = node.ran
    BY <1>9 DEF Resent, HasReply, Reply, Mine, SameSlots, SameRuns
  <2>2. node.ran[c] = 0
    BY <2>1 DEF Answers
  <2>3. /\ call'[c].at = "send" /\ call'[c].result = call[c].result
        /\ \A d \in Calls \ {c} : call'[d] = call[d]
    BY <1>9 DEF Resent, MovedTo, Moved
  <2>4. call[c].result = "none"
    BY <2>1 DEF Stages, At
  <2> QED
    BY <2>1, <2>2, <2>3, <2>4 DEF Executed, Refusals
<1>10. ASSUME NEW c \in Calls, Delivered(c) PROVE  Executed'
  <2>1. /\ At(c, "reply") /\ Mine(c).reply # <<>> /\ Reply(c) = Mine(c).reply[1]
        /\ setup.mode = "digest" => Reply(c).status # 401
        /\ setup' = setup /\ node'.ran = node.ran
    BY <1>10 DEF Delivered, HasReply, Reply, Mine, SameSlots, SameRuns
  <2>2. Reply(c).status \in {200, 401}
    BY <1>10, ReplyType DEF Delivered, Answered
  <2>3. setup.mode = "digest" => node.ran[c] = 1
    BY <2>1, <2>2 DEF Answers
  <2>4. /\ call'[c].at = "check" /\ call'[c].result \in {"answered", "alien"}
        /\ \A d \in Calls \ {c} : call'[d] = call[d]
    BY <1>10 DEF Delivered, Moved
  <2> QED
    BY <2>1, <2>3, <2>4 DEF Executed, Before, Waiting, Refusals
<1>11. ASSUME NEW c \in Calls, Checked(c) PROVE  Executed'
  <2>1. PICK own : Moved(c, "release", own, call[c].tries, call[c].result)
    BY <1>11 DEF Checked, MovedTo
  <2>2. node'.ran = node.ran /\ setup' = setup
    BY <1>11 DEF Checked, SameSlots, SameRuns
  <2> QED
    BY <2>1, <2>2, ExecutedMoved DEF Before, Waiting
<1>12. ASSUME NEW c \in Calls, Released(c) PROVE  Executed'
  <2>1. /\ Moved(c, "notify", NoSocket, call[c].tries, call[c].result)
        /\ node'.ran = node.ran /\ setup' = setup
    BY <1>12 DEF Released, SameRuns
  <2> QED
    BY <2>1, ExecutedMoved DEF Before, Waiting
<1>13. ASSUME NEW c \in Calls, Told(c) PROVE  Executed'
  <2>1. /\ call'[c].at = "over" /\ call'[c].socket = NoSocket
        /\ call'[c].tries = 0 /\ call'[c].result = call[c].result
    BY <1>13 DEF Told
  <2>2. \A d \in Calls \ {c} :
           /\ \/ call'[d].at = call[d].at
              \/ call[d].at = "asleep" /\ call'[d].at = "woken"
           /\ call'[d].socket = call[d].socket
           /\ call'[d].tries = call[d].tries
           /\ call'[d].result = call[d].result
    BY <1>13, ToldOthers
  <2>3. node'.ran = node.ran /\ setup' = setup
    BY <1>13 DEF Told, Apart, SameSlots, SameRuns
  <2> QED
    BY <2>1, <2>2, <2>3 DEF Executed, Before, Waiting
<1>14. ASSUME NEW s \in Sockets, Served(s) PROVE  Executed'
  <2> DEFINE g == Given(s)
  <2>1. /\ socket[s].asked # <<>> /\ call' = call /\ setup' = setup
        /\ g \in Calls
    BY <1>14, Messages DEF Served, SameSlots
  <2>2. /\ \A d \in Calls \ {g} : node'.ran[d] = node.ran[d]
        /\ node'.ran[g] \in {node.ran[g], node.ran[g] + 1}
    BY <1>14, <2>1, Fields DEF Served, Ran
  <2>3. node.ran[g] = 0
    BY <2>1 DEF Unread
  <2>4. /\ call[g].at \notin Before \cup {"send"}
        /\ call[g].result \notin Refusals /\ call[g].result # "answered"
    BY <2>1 DEF Unread, Stages, At, Before, Waiting, Ended, Refusals
  <2>5. node'.ran[g] <= 1
    BY <2>2, <2>3
  <2> QED
    BY <2>1, <2>2, <2>4, <2>5 DEF Executed
<1>15. ASSUME Elsewhere PROVE  Executed'
  BY <1>15, Fields DEF Elsewhere, SameSlots, SameRuns, Executed, At, Before,
    Waiting, Refusals
<1> QED
  BY <1>1, <1>2, <1>3, <1>4, <1>5, <1>6, <1>7, <1>8, <1>9, <1>10, <1>11,
    <1>12, <1>13, <1>14, <1>15, StepKinds

\* A free slot is known to those who wait.
LEMMA NotifiedStep ==
  ASSUME RpcTypeOK, Stages, Notified, RpcNext
  PROVE  Notified'
<1>1. /\ IsFiniteSet(Waking) /\ Cardinality(Waking) \in Nat
      /\ active \in Nat /\ PerEndpoint \in Nat
  <2>1. IsFiniteSet(Waking)
    BY RpcAssumption, FS_Subset DEF Waking
  <2> QED
    BY <2>1, Fields, FS_CardinalityType
<1>2. IsFiniteSet(Waking') /\ Cardinality(Waking') \in Nat
  <2>1. IsFiniteSet(Waking')
    BY RpcAssumption, FS_Subset DEF Waking
  <2> QED
    BY <2>1, FS_CardinalityType
<1>3. ASSUME NEW c \in Calls, Entered(c) PROVE  Notified'
  <2>1. /\ Waking' = Waking
        /\ \A d \in Calls : At(d, "asleep")' => At(d, "asleep")
    BY <1>3 DEF Waking, Entered, MovedTo, Moved, Apart, SameSlots, SameRuns,
      At, HasReply
  <2>2. UNCHANGED <<setup, active, lost>>
    BY <1>3 DEF Entered, Apart, SameSlots, SameRuns
  <2> QED
    BY <2>1, <2>2 DEF Notified, PerEndpoint
<1>4. ASSUME NEW c \in Calls, Declined(c) PROVE  Notified'
  <2>1. /\ UNCHANGED <<setup, active>> /\ (lost => lost')
        /\ At(c, "woken") /\ active < PerEndpoint => lost'
        /\ \A d \in Calls : At(d, "asleep")' => At(d, "asleep")
    BY <1>4 DEF Declined, Moved, At
  <2>2. CASE ~At(c, "woken")
    <3>1. Waking' = Waking
      BY <1>4, <2>2 DEF Declined, Moved, Waking, At
    <3> QED
      BY <2>1, <3>1 DEF Notified, PerEndpoint
  <2>3. CASE At(c, "woken") /\ active < PerEndpoint
    BY <2>1, <2>3 DEF Notified
  <2>4. CASE ~(active < PerEndpoint)
    <3>1. PerEndpoint' <= active' + Cardinality(Waking')
      BY <1>1, <1>2, <2>1, <2>4 DEF PerEndpoint
    <3> QED
      BY <3>1 DEF Notified
  <2> QED
    BY <2>2, <2>3, <2>4
<1>5. ASSUME NEW c \in Calls, Acquired(c) PROVE  Notified'
  <2>1. /\ setup' = setup /\ lost' = lost /\ active' = active + 1
        /\ \A d \in Calls : At(d, "asleep")' => At(d, "asleep")
    BY <1>5 DEF Acquired, Moved, At
  <2>2. \/ Waking' = Waking \/ (Waking' = Waking \ {c} /\ c \in Waking)
    BY <1>5 DEF Acquired, Moved, Waking
  <2>3. Cardinality(Waking') >= Cardinality(Waking) - 1
    BY <1>1, <2>2, Counting
  <2>4. PerEndpoint <= active + Cardinality(Waking) =>
           PerEndpoint' <= active' + Cardinality(Waking')
    BY <1>1, <1>2, <2>1, <2>3 DEF PerEndpoint
  <2> QED
    BY <2>1, <2>4 DEF Notified
<1>6. ASSUME NEW c \in Calls, Slept(c) PROVE  Notified'
  <2>1. UNCHANGED <<setup, active>> /\ active >= PerEndpoint
    BY <1>6 DEF Slept, Apart, SameSlots
  <2>2. PerEndpoint' <= active' + Cardinality(Waking')
    BY <1>1, <1>2, <2>1 DEF PerEndpoint
  <2> QED
    BY <2>2 DEF Notified
<1>7. ASSUME NEW c \in Calls, Reused(c) PROVE  Notified'
  <2>1. /\ Waking' = Waking
        /\ \A d \in Calls : At(d, "asleep")' => At(d, "asleep")
    BY <1>7 DEF Waking, Reused, MovedTo, Moved, Apart, SameSlots, SameRuns,
      At, HasReply
  <2>2. UNCHANGED <<setup, active, lost>>
    BY <1>7 DEF Reused, Apart, SameSlots, SameRuns
  <2> QED
    BY <2>1, <2>2 DEF Notified, PerEndpoint
<1>8. ASSUME NEW c \in Calls, Connected(c) PROVE  Notified'
  <2>1. /\ Waking' = Waking
        /\ \A d \in Calls : At(d, "asleep")' => At(d, "asleep")
    BY <1>8 DEF Waking, Connected, Moved, SameSlots, SameRuns, At, HasReply
  <2>2. UNCHANGED <<setup, active, lost>>
    BY <1>8 DEF Connected, SameSlots, SameRuns
  <2> QED
    BY <2>1, <2>2 DEF Notified, PerEndpoint
<1>9. ASSUME NEW c \in Calls, Failed(c) PROVE  Notified'
  <2>1. /\ Waking' = Waking
        /\ \A d \in Calls : At(d, "asleep")' => At(d, "asleep")
    BY <1>9 DEF Waking, Failed, Moved, SameSlots, SameRuns, At, HasReply
  <2>2. UNCHANGED <<setup, active, lost>>
    BY <1>9 DEF Failed, SameSlots, SameRuns
  <2> QED
    BY <2>1, <2>2 DEF Notified, PerEndpoint
<1>10. ASSUME NEW c \in Calls, Sent(c) PROVE  Notified'
  <2>1. /\ Waking' = Waking
        /\ \A d \in Calls : At(d, "asleep")' => At(d, "asleep")
    BY <1>10 DEF Waking, Sent, Moved, SameSlots, SameRuns, At, HasReply
  <2>2. UNCHANGED <<setup, active, lost>>
    BY <1>10 DEF Sent, SameSlots, SameRuns
  <2> QED
    BY <2>1, <2>2 DEF Notified, PerEndpoint
<1>11. ASSUME NEW c \in Calls, Resent(c) PROVE  Notified'
  <2>1. /\ Waking' = Waking
        /\ \A d \in Calls : At(d, "asleep")' => At(d, "asleep")
    BY <1>11 DEF Waking, Resent, MovedTo, Moved, SameSlots, SameRuns, At,
      HasReply
  <2>2. UNCHANGED <<setup, active, lost>>
    BY <1>11 DEF Resent, SameSlots, SameRuns
  <2> QED
    BY <2>1, <2>2 DEF Notified, PerEndpoint
<1>12. ASSUME NEW c \in Calls, Delivered(c) PROVE  Notified'
  <2>1. /\ Waking' = Waking
        /\ \A d \in Calls : At(d, "asleep")' => At(d, "asleep")
    BY <1>12 DEF Waking, Delivered, Moved, SameSlots, SameRuns, At, HasReply
  <2>2. UNCHANGED <<setup, active, lost>>
    BY <1>12 DEF Delivered, SameSlots, SameRuns
  <2> QED
    BY <2>1, <2>2 DEF Notified, PerEndpoint
<1>13. ASSUME NEW c \in Calls, Checked(c) PROVE  Notified'
  <2>1. /\ Waking' = Waking
        /\ \A d \in Calls : At(d, "asleep")' => At(d, "asleep")
    BY <1>13 DEF Waking, Checked, MovedTo, Moved, SameSlots, SameRuns, At,
      HasReply
  <2>2. UNCHANGED <<setup, active, lost>>
    BY <1>13 DEF Checked, SameSlots, SameRuns
  <2> QED
    BY <2>1, <2>2 DEF Notified, PerEndpoint
<1>14. ASSUME NEW c \in Calls, Released(c) PROVE  Notified'
  <2>1. /\ setup' = setup /\ lost' = lost /\ active' = active - 1
        /\ \A d \in Calls : At(d, "asleep")' => At(d, "asleep")
    BY <1>14 DEF Released, Moved, At
  <2>2. Waking' = Waking \cup {c} /\ c \notin Waking
    BY <1>14 DEF Released, Moved, Waking, At
  <2>3. Cardinality(Waking') = Cardinality(Waking) + 1
    BY <1>1, <2>2, Counting
  <2>4. PerEndpoint <= active + Cardinality(Waking) =>
           PerEndpoint' <= active' + Cardinality(Waking')
    BY <1>1, <1>2, <2>1, <2>3 DEF PerEndpoint
  <2> QED
    BY <2>1, <2>4 DEF Notified
<1>15. ASSUME NEW c \in Calls, Told(c) PROVE  Notified'
  <2>1. UNCHANGED <<setup, active, lost>> /\ At(c, "notify")
    BY <1>15 DEF Told, Apart, SameSlots
  <2>2. CASE \A d \in Calls : ~At(d, "asleep")
    <3>1. \A d \in Calls : ~At(d, "asleep")'
      BY <1>15, <2>2 DEF Told, At
    <3> QED
      BY <3>1 DEF Notified
  <2>3. CASE ~\A d \in Calls : ~At(d, "asleep")
    <3>1. PICK e \in Calls :
             /\ At(e, "asleep") /\ call'[e].at = "woken"
             /\ \A d \in Calls \ {c, e} : call'[d] = call[d]
      BY <1>15, <2>3 DEF Told
    <3>2. PICK S : S = Waking \ {c}
      OBVIOUS
    <3>3. /\ c \in Waking /\ Waking' = S \cup {e} /\ e \notin S
      <4>1. call'[c].at = "over"
        BY <1>15 DEF Told
      <4> QED
        BY <2>1, <3>1, <3>2, <4>1 DEF Waking, At
    <3>4. IsFiniteSet(S) /\ Cardinality(S) = Cardinality(Waking) - 1
      BY <1>1, <3>2, <3>3, Counting
    <3>5. Cardinality(Waking') = Cardinality(S) + 1
      BY <3>3, <3>4, Counting
    <3>6. PerEndpoint <= active + Cardinality(Waking) =>
             PerEndpoint' <= active' + Cardinality(Waking')
      BY <1>1, <2>1, <3>4, <3>5 DEF PerEndpoint
    <3> QED
      BY <2>1, <3>1, <3>6 DEF Notified
  <2> QED
    BY <2>2, <2>3
<1>16. ASSUME NEW s \in Sockets, Served(s) PROVE  Notified'
  <2>1. /\ Waking' = Waking
        /\ \A d \in Calls : At(d, "asleep")' => At(d, "asleep")
    BY <1>16 DEF Waking, Served, SameSlots, At, HasReply
  <2>2. UNCHANGED <<setup, active, lost>>
    BY <1>16 DEF Served, SameSlots
  <2> QED
    BY <2>1, <2>2 DEF Notified, PerEndpoint
<1>17. ASSUME Elsewhere PROVE  Notified'
  <2>1. /\ UNCHANGED <<setup, active, lost>>
        /\ \A d \in Calls : At(d, "asleep")' => At(d, "asleep")
    BY <1>17 DEF Elsewhere, SameSlots, At
  <2>2. Waking \subseteq Waking'
    BY <1>17 DEF Elsewhere, Waking, At
  <2>3. Cardinality(Waking) <= Cardinality(Waking')
    BY <1>2, <2>2, FS_Subset
  <2>4. PerEndpoint <= active + Cardinality(Waking) =>
           PerEndpoint' <= active' + Cardinality(Waking')
    BY <1>1, <1>2, <2>1, <2>3 DEF PerEndpoint
  <2> QED
    BY <2>1, <2>4 DEF Notified
<1> QED
  BY <1>3, <1>4, <1>5, <1>6, <1>7, <1>8, <1>9, <1>10, <1>11, <1>12, <1>13,
    <1>14, <1>15, <1>16, <1>17, StepKinds

-----------------------------------------------------------------------------
(* The theorem.                                                            *)

\* The invariant holds initially.
LEMMA InitInvariant == RpcInit => RpcInv
<1> SUFFICES ASSUME RpcInit PROVE  RpcInv
  OBVIOUS
<1>1. RpcTypeOK
  BY InitTypes
<1>2. \A c \in Calls : /\ call[c].at = "new" /\ call[c].socket = NoSocket
                       /\ call[c].tries = 0 /\ call[c].result = "none"
                       /\ node.ran[c] = 0
  BY DEF RpcInit, NewCall
<1>3. \A s \in Sockets : socket[s].asked = <<>> /\ socket[s].reply = <<>>
  BY DEF RpcInit, Closed
<1>4. idle = <<>> /\ active = 0 /\ DOMAIN idle = {}
  BY DEF RpcInit
<1>5. Stages
  BY <1>2 DEF Stages, Holds, Exchange
<1>6. Slots
  <2>1. Leases = {}
    BY <1>2 DEF Leases, Leased
  <2>2. Len(idle) = 0 /\ PerEndpoint \in Nat
    BY <1>1, <1>4, Fields
  <2> QED
    BY <1>4, <2>1, <2>2, FS_EmptySet DEF Slots
<1>7. Pool
  BY <1>2, <1>4 DEF Pool, Holds
<1>8. Wire
  BY <1>3 DEF Wire
<1>9. Answers
  BY <1>2, <1>3, <1>4 DEF Answers, Holds, At
<1>10. Unread
  BY <1>3 DEF Unread
<1>11. Executed
  BY <1>2 DEF Executed, Refusals
<1>12. OwnAnswer
  BY <1>2 DEF OwnAnswer
<1>13. Notified
  BY <1>2 DEF Notified, At
<1> QED
  BY <1>1, <1>5, <1>6, <1>7, <1>8, <1>9, <1>10, <1>11, <1>12, <1>13
    DEF RpcInv

\* Every step keeps it.
LEMMA InvariantStep == RpcInv /\ RpcNext => RpcInv'
BY TypeStep, StagesStep, SlotsStep, PoolStep, WireStep, AnswersStep,
  UnreadStep, ExecutedStep, OwnStep, NotifiedStep DEF RpcInv

\* And so does a step of somebody else.
LEMMA InvariantStays == RpcInv /\ UNCHANGED rpcVars => RpcInv'
<1> SUFFICES ASSUME RpcInv, UNCHANGED rpcVars PROVE  RpcInv'
  OBVIOUS
<1> USE DEF rpcVars
<1>1. RpcTypeOK'
  BY DEF RpcInv, RpcTypeOK, PerEndpoint
<1>2. Stages' /\ Slots' /\ Pool'
  BY DEF RpcInv, Stages, Slots, Pool, Holds, Mine, Pooled, Leases, PerEndpoint
<1>3. Wire' /\ Answers'
  BY DEF RpcInv, Wire, Answers, Holds, Mine, Silent, At
<1>4. Unread'
  <2>1. \A t \in Sockets : Given(t)' = Given(t)
    BY DEF Given
  <2>2. call' = call /\ socket' = socket /\ node' = node
    OBVIOUS
  <2> QED
    BY <2>1, <2>2 DEF RpcInv, Unread, At
<1>5. Executed' /\ OwnAnswer' /\ Notified'
  BY DEF RpcInv, Executed, OwnAnswer, Notified, Waking, At, PerEndpoint
<1> QED
  BY <1>1, <1>2, <1>3, <1>4, <1>5 DEF RpcInv

\* What is distinct is counted by its length.
LEMMA DistinctCount ==
  ASSUME NEW S, NEW q \in Seq(S),
         \A i, j \in DOMAIN q : q[i] = q[j] => i = j
  PROVE  Cardinality(ToSet(q)) = Len(q)
<1>1. Len(q) \in Nat /\ DOMAIN q = 1 .. Len(q)
  OBVIOUS
<1>2. q \in Bijection(1 .. Len(q), ToSet(q))
  <2>1. q \in [1 .. Len(q) -> ToSet(q)]
    BY <1>1 DEF ToSet
  <2>2. q \in Injection(1 .. Len(q), ToSet(q))
    BY <1>1, <2>1 DEF Injection, IsInjective
  <2>3. \A x \in ToSet(q) : \E i \in 1 .. Len(q) : q[i] = x
    BY <1>1 DEF ToSet
  <2> QED
    BY <2>1, <2>2, <2>3 DEF Bijection, Surjection
<1>3. IsFiniteSet(1 .. Len(q)) /\ Cardinality(1 .. Len(q)) = Len(q)
  <2>1. Len(q) \in Nat
    BY <1>1
  <2>2. /\ IsFiniteSet(1 .. Len(q))
        /\ Cardinality(1 .. Len(q)) = IF 1 > Len(q) THEN 0 ELSE Len(q) - 1 + 1
    BY <2>1, FS_Interval
  <2> QED
    BY <2>1, <2>2
<1>4. ExistsBijection(1 .. Len(q), ToSet(q))
  BY <1>2 DEF ExistsBijection
<1> QED
  BY <1>3, <1>4, FS_Bijection

\* The invariant says more than the property.
LEMMA InvariantSuffices == RpcInv => RpcCorrect
<1> SUFFICES ASSUME RpcInv PROVE  RpcCorrect
  OBVIOUS
<1> USE DEF RpcInv
<1>1. SlotsAreConserved
  <2>1. active = Cardinality({c \in Calls : call[c].at \in Leased})
    BY DEF Slots, Leases
  <2>2. active + Len(idle) <= PerEndpoint
    BY DEF Slots
  <2>3. Cardinality(ToSet(idle)) = Len(idle)
    BY DistinctCount, Parts DEF Pool
  <2>4. \A c, d \in Calls : call[c].socket # NoSocket =>
           /\ call[c].socket \notin ToSet(idle)
           /\ c # d => call[d].socket # call[c].socket
    BY DEF Pool, Holds, Pooled, ToSet
  <2> QED
    BY <2>1, <2>2, <2>3, <2>4 DEF SlotsAreConserved
<1>2. AtMostOnce
  BY DEF AtMostOnce, Executed
<1>3. FreeSlotIsKnown
  <2> SUFFICES ASSUME active < PerEndpoint, ~lost,
                      NEW c \in Calls, At(c, "asleep")
               PROVE  \E d \in Calls : call[d].at \in {"woken", "notify"}
    BY DEF FreeSlotIsKnown
  <2>1. PerEndpoint <= active + Cardinality(Waking)
    BY DEF Notified
  <2>2. active \in Nat /\ PerEndpoint \in Nat
    BY Fields
  <2>3. Waking # {}
    BY <2>1, <2>2, FS_EmptySet
  <2> QED
    BY <2>3 DEF Waking
<1> QED
  BY <1>1, <1>2, <1>3 DEF RpcCorrect

\* For any calls, sockets, slots, faults and stops: the slots of an endpoint
\* are the calls that Acquire let in and Release has not let out, a connection
\* is idle once or with one call, a call gets the answer to its own request,
\* the node executes a request at most once and none that was refused before
\* it was sent, and a free slot is known to somebody who waits for one unless a
\* notified call left at its deadline.
THEOREM RpcIsCorrect == RpcSpec => []RpcCorrect
<1>1. RpcInv /\ [RpcNext]_rpcVars => RpcInv'
  BY InvariantStep, InvariantStays
<1> QED
  BY <1>1, InitInvariant, InvariantSuffices, PTL DEF RpcSpec

=============================================================================
