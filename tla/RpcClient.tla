----------------------------- MODULE RpcClient -----------------------------
(***************************************************************************)
(* The HTTP client every driver sends its JSON-RPC calls through.  Threads *)
(* of the run share a pool of kept-alive connections to one node: a call   *)
(* waits for one of PerEndpoint slots, reuses an idle connection or opens  *)
(* one, sends its request (twice or three times under digest               *)
(* authentication) and returns the slot.  A call carries one deadline and  *)
(* one stop token, and either may fire at any point.                       *)
(*                                                                         *)
(* The node is the environment: it executes a request it has received even *)
(* when nobody waits for the answer, closes connections when it likes,     *)
(* expires nonces and rewrites its cookie.                                 *)
(***************************************************************************)
EXTENDS Naturals, FiniteSets, SequencesExt

CONSTANTS Calls,         \* the calls of the run, each made by a thread
          Sockets,       \* bound: connections the two sides still know of
          OfferedLists,  \* the challenge lists a node may answer with
          RpcSetups      \* authentication, slots, calls made, and bounds on what
                         \* the node does wrong and on stops

ASSUME RpcAssumption ==
    /\ IsFiniteSet(Calls) /\ "none" \notin Sockets
    /\ \A u \in RpcSetups :
         u \in [mode : {"basic", "cookie", "digest"}, calls : SUBSET Calls,
               slots : Nat \ {0}, faults : Nat, stops : Nat]

VARIABLES setup,      \* RpcEndpoint::authentication and the bounds
          call,       \* per call: where its thread is and what it was told
          active,     \* Endpoint::active
          idle,       \* Endpoint::idle, the last one is reused first
          socket,     \* per socket: its two ends and what is on the wire
          node,       \* the daemon: its nonce, its cookie, what it executed
          lost        \* a notification went to a call that then gave up

rpcVars == <<setup, call, active, idle, socket, node, lost>>

PerEndpoint == setup.slots

NoSocket == "none"

Closed == [client |-> FALSE, peer |-> FALSE, keep |-> FALSE, asked |-> <<>>, reply |-> <<>>]

\* Where a call is when it can still end: refusals before the request is sent
\* are kept apart from failures after it.
Refusals == {"credentials", "admission", "connect"}
Over(c) == call[c].at = "over"

NewCall == [at |-> "new", late |-> FALSE, stopped |-> FALSE, socket |-> NoSocket,
            tries |-> 0, nonce |-> 0, realm |-> 0, result |-> "none"]

\* What is left of a call that has returned.
CallOver(result) == [NewCall EXCEPT !.at = "over", !.result = result]

RpcInit ==
    /\ setup \in RpcSetups
    /\ call = [c \in Calls |-> NewCall]
    /\ active = 0 /\ idle = <<>>
    /\ socket = [s \in Sockets |-> Closed]
    /\ node = [nonce |-> 1, cookie |-> "ok", realm |-> 1, faults |-> 0,
               stops |-> 0, ran |-> [c \in Calls |-> 0]]
    /\ lost = FALSE

----------------------------------------------------------------------------
At(c, place) == call[c].at = place

\* The outcome of a call, and the step that ends it.
EndCall(c, result) == [call EXCEPT ![c] = CallOver(result)]

\* The owner of an old cookie sees a file that is absent or half written.
ResolveCredentials == setup.mode = "cookie" => node.cookie = "ok"

PostJson(c) ==
    /\ At(c, "new") /\ c \in setup.calls
    /\ IF ResolveCredentials THEN call' = [call EXCEPT ![c].at = "admission"]
       ELSE call' = EndCall(c, "credentials")
    /\ UNCHANGED <<setup, active, idle, socket, node, lost>>

\* Under the endpoint's mutex: a free slot and the last idle connection.
Acquire(c) ==
    /\ call[c].at \in {"admission", "woken"} /\ active < PerEndpoint
    /\ ~call[c].stopped /\ ~call[c].late
    /\ active' = active + 1
    /\ idle' = IF idle = <<>> THEN idle ELSE Front(idle)
    /\ call' = [call EXCEPT ![c].at = "connection",
                            ![c].socket = IF idle = <<>> THEN NoSocket ELSE Last(idle)]
    /\ UNCHANGED <<setup, socket, node, lost>>

\* No slot: the call sleeps on the condition variable.
WaitForSlot(c) ==
    /\ call[c].at \in {"admission", "woken"} /\ active >= PerEndpoint
    /\ ~call[c].stopped /\ ~call[c].late
    /\ call' = [call EXCEPT ![c].at = "asleep"]
    /\ UNCHANGED <<setup, active, idle, socket, node, lost>>

\* Stopped, or past its deadline even though a slot is free: the call leaves,
\* and does not hand on the notification that may have woken it.
GiveUpAdmission(c) ==
    /\ call[c].at \in {"admission", "woken"}
    /\ call[c].stopped \/ call[c].late
    /\ lost' = (lost \/ (At(c, "woken") /\ active < PerEndpoint))
    /\ call' = EndCall(c, IF call[c].stopped THEN "cancelled" ELSE "admission")
    /\ UNCHANGED <<setup, active, idle, socket, node>>

\* An idle connection is reused only if nothing, not even the end of the
\* stream, is waiting on it.
Reusable(s) == /\ socket[s].client /\ socket[s].keep
               /\ socket[s].peer /\ socket[s].reply = <<>>

Drop(s) == IF s = NoSocket THEN socket
           ELSE [socket EXCEPT ![s].client = FALSE, ![s].reply = <<>>]

Reuse(c) ==
    /\ At(c, "connection") /\ call[c].socket # NoSocket /\ Reusable(call[c].socket)
    /\ call' = [call EXCEPT ![c].at = "send"]
    /\ UNCHANGED <<setup, active, idle, socket, node, lost>>

Connect(c) ==
    /\ At(c, "connection")
    /\ call[c].socket # NoSocket => ~Reusable(call[c].socket)
    /\ ~call[c].stopped /\ ~call[c].late
    /\ LET dropped == Drop(call[c].socket)
           free == {s \in Sockets : ~dropped[s].client /\ dropped[s].asked = <<>>}
       IN  /\ free # {}
           /\ LET s == CHOOSE x \in free : TRUE
              IN  /\ socket' = [dropped EXCEPT ![s] = [Closed EXCEPT !.client = TRUE,
                                                                     !.peer = TRUE]]
                  /\ call' = [call EXCEPT ![c].at = "send", ![c].socket = s]
    /\ UNCHANGED <<setup, active, idle, node, lost>>

\* Refused by the node, past the deadline, or stopped.
ConnectFails(c) ==
    /\ At(c, "connection")
    /\ call[c].socket # NoSocket => ~Reusable(call[c].socket)
    /\ call[c].stopped \/ call[c].late \/ node.faults < setup.faults
    /\ node' = IF call[c].stopped \/ call[c].late THEN node
               ELSE [node EXCEPT !.faults = @ + 1]
    /\ socket' = Drop(call[c].socket)
    /\ call' = [call EXCEPT ![c].at = "release", ![c].socket = NoSocket,
                            ![c].result = IF call[c].stopped THEN "cancelled" ELSE "connect"]
    /\ UNCHANGED <<setup, active, idle, lost>>

----------------------------------------------------------------------------
(* The exchange.                                                           *)

\* The first request of a digest call carries no authorization.
Authorization(c) == IF setup.mode = "digest" /\ call[c].tries = 0 THEN 0
                    ELSE IF setup.mode = "digest" THEN call[c].nonce ELSE node.nonce

Send(c) ==
    /\ At(c, "send") /\ ~call[c].stopped /\ ~call[c].late
    /\ LET s == call[c].socket
       IN  socket' = IF socket[s].peer
                     THEN [socket EXCEPT ![s].asked = Append(@, [of |-> c, nonce |-> Authorization(c)])]
                     ELSE socket
    /\ call' = [call EXCEPT ![c].at = "reply", ![c].tries = @ + 1]
    /\ UNCHANGED <<setup, active, idle, node, lost>>

\* Mutant: a call that fails leaves its connection in the pool.
AbandonKeepsSocket(c, result) ==
    /\ call' = [call EXCEPT ![c].at = "release", ![c].result = result]
    /\ socket' = [socket EXCEPT ![call[c].socket].keep = TRUE]

\* Every failure after the connection was made closes it.
Abandon(c, result) ==
    /\ call' = [call EXCEPT ![c].at = "release", ![c].socket = NoSocket, ![c].result = result]
    /\ socket' = Drop(call[c].socket)

\* The deadline timer cancels the socket; a stop leaves the I/O loop.
GiveUpExchange(c) ==
    /\ call[c].at \in {"send", "reply"} /\ (call[c].stopped \/ call[c].late)
    /\ Abandon(c, IF call[c].stopped THEN "cancelled" ELSE "failed")
    /\ UNCHANGED <<setup, active, idle, node, lost>>

\* The node closed the connection before it answered: the call fails and is
\* not sent again, for the node may have executed it.
ConnectionLost(c) ==
    /\ At(c, "reply") /\ ~socket[call[c].socket].peer
    /\ socket[call[c].socket].reply = <<>>
    /\ Abandon(c, "failed")
    /\ UNCHANGED <<setup, active, idle, node, lost>>

\* Which entries of an answer's challenge list are usable.
ParseDigestChallenge(scheme) ==
    CASE scheme = "malformed" -> "throws"
      [] scheme = "digest" -> "digest"
      [] OTHER -> "none"

SelectDigestChallenge(schemes) ==
    /\ \A i \in DOMAIN schemes : ParseDigestChallenge(schemes[i]) # "throws"
    /\ Cardinality({i \in DOMAIN schemes : ParseDigestChallenge(schemes[i]) = "digest"}) = 1

HasReply(c) == At(c, "reply") /\ socket[call[c].socket].reply # <<>>

Reply(c) == socket[call[c].socket].reply[1]

\* A response to a call: any status under basic authentication, one other than
\* 401 to an authenticated request under digest.
Deliver(c) ==
    /\ HasReply(c)
    /\ setup.mode # "digest" \/ (call[c].tries > 1 /\ Reply(c).status # 401)
    /\ call' = [call EXCEPT ![c].at = "check",
                            ![c].result = IF Reply(c).of = c THEN "answered" ELSE "alien"]
    /\ socket' = [socket EXCEPT ![call[c].socket].reply = Tail(@),
                                ![call[c].socket].keep = Reply(c).keep]
    /\ UNCHANGED <<setup, active, idle, node, lost>>

\* The unauthenticated request must be refused with one usable challenge.
TakeChallenge(c) ==
    /\ HasReply(c) /\ setup.mode = "digest" /\ call[c].tries = 1
    /\ IF Reply(c).status # 401 \/ ~SelectDigestChallenge(Reply(c).schemes)
       THEN Abandon(c, "rejected")
       ELSE /\ call' = [call EXCEPT ![c].at = "send", ![c].nonce = Reply(c).nonce,
                                    ![c].realm = Reply(c).realm]
            /\ socket' = [socket EXCEPT ![call[c].socket].reply = Tail(@),
                                        ![call[c].socket].keep = Reply(c).keep]
    /\ UNCHANGED <<setup, active, idle, node, lost>>

\* One more attempt, and only for a stale challenge of the same realm with a
\* nonce of its own.
RefreshChallenge(c) ==
    /\ HasReply(c) /\ setup.mode = "digest" /\ call[c].tries > 1 /\ Reply(c).status = 401
    /\ LET r == Reply(c)
       IN  IF /\ call[c].tries = 2 /\ SelectDigestChallenge(r.schemes)
              /\ r.stale /\ r.realm = call[c].realm /\ r.nonce # call[c].nonce
           THEN /\ call' = [call EXCEPT ![c].at = "send", ![c].nonce = r.nonce]
                /\ socket' = [socket EXCEPT ![call[c].socket].reply = Tail(@),
                                            ![call[c].socket].keep = r.keep]
           ELSE Abandon(c, "rejected")
    /\ UNCHANGED <<setup, active, idle, node, lost>>

\* After the response the connection is looked at once more.
CheckConnection(c) ==
    /\ At(c, "check")
    /\ call' = [call EXCEPT ![c].at = "release",
                            ![c].socket = IF Reusable(@) THEN @ ELSE NoSocket]
    /\ socket' = IF Reusable(call[c].socket) THEN socket ELSE Drop(call[c].socket)
    /\ UNCHANGED <<setup, active, idle, node, lost>>

\* ~Lease: the connection and the slot go back under the mutex ...
Release(c) ==
    /\ At(c, "release")
    /\ idle' = IF call[c].socket = NoSocket THEN idle ELSE Append(idle, call[c].socket)
    /\ active' = active - 1
    /\ call' = [call EXCEPT ![c].at = "notify", ![c].socket = NoSocket]
    /\ UNCHANGED <<setup, socket, node, lost>>

\* ... and one sleeper is notified after it.
Notify(c) ==
    /\ At(c, "notify")
    /\ LET asleep == {d \in Calls : At(d, "asleep")}
       IN  IF asleep = {} THEN call' = EndCall(c, call[c].result)
           ELSE \E d \in asleep :
                  call' = [EndCall(c, call[c].result) EXCEPT ![d].at = "woken"]
    /\ UNCHANGED <<setup, active, idle, socket, node, lost>>

----------------------------------------------------------------------------
(* Time, stops and the node.                                               *)

DeadlinePasses(c) ==
    /\ ~Over(c) /\ ~At(c, "new") /\ ~call[c].late
    /\ call' = [call EXCEPT ![c].late = TRUE,
                            ![c].at = IF @ = "asleep" THEN "woken" ELSE @]
    /\ UNCHANGED <<setup, active, idle, socket, node, lost>>

\* A stop wakes every sleeper of the condition variable, unless the stopped
\* call has already left the wait.
Stop(c) ==
    /\ ~Over(c) /\ ~At(c, "new") /\ ~call[c].stopped /\ node.stops < setup.stops
    /\ node' = [node EXCEPT !.stops = @ + 1]
    /\ \E all \in (IF At(c, "asleep") THEN {TRUE}
                   ELSE IF At(c, "woken") THEN BOOLEAN ELSE {FALSE}) :
         call' = [d \in Calls |->
                    [call[d] EXCEPT !.stopped = @ \/ (d = c),
                                    !.at = IF all /\ @ = "asleep" THEN "woken" ELSE @]]
    /\ UNCHANGED <<setup, active, idle, socket, lost>>

\* Requests on one connection are served in the order they were written.
Asked(s) == Head(socket[s].asked)

Answer(s, status, stale, schemes, realm, keep) ==
    [of |-> Asked(s).of, status |-> status, stale |-> stale, schemes |-> schemes,
     nonce |-> node.nonce, realm |-> realm, keep |-> keep]

Put(s, answer) ==
    socket' = [socket EXCEPT ![s].asked = Tail(@),
                             ![s].reply = IF socket[s].client /\ socket[s].peer
                                          THEN Append(@, answer) ELSE @]

\* The node executes a request whose authorization it accepts.
NodeExecutes(s) ==
    /\ socket[s].asked # <<>>
    /\ setup.mode # "digest" \/ Asked(s).nonce = node.nonce
    /\ node' = [node EXCEPT !.ran[Asked(s).of] = @ + 1]
    /\ \E keep \in BOOLEAN : Put(s, Answer(s, 200, FALSE, <<>>, node.realm, keep))
    /\ UNCHANGED <<setup, call, active, idle, lost>>

\* It asks for authorization, or for a fresh one.
NodeChallenges(s) ==
    /\ socket[s].asked # <<>> /\ setup.mode = "digest" /\ Asked(s).nonce # node.nonce
    /\ \E schemes \in OfferedLists :
         Put(s, Answer(s, 401, Asked(s).nonce # 0, schemes, node.realm, TRUE))
    /\ UNCHANGED <<setup, call, active, idle, node, lost>>

Misbehave == node.faults < setup.faults

NodeCloses(s) ==
    /\ Misbehave /\ socket[s].client /\ socket[s].peer
    /\ socket' = [socket EXCEPT ![s].peer = FALSE]
    /\ node' = [node EXCEPT !.faults = @ + 1]
    /\ UNCHANGED <<setup, call, active, idle, lost>>

NodeExpiresNonce ==
    /\ Misbehave /\ setup.mode = "digest"
    /\ \E realm \in {node.realm, 2} :
         node' = [node EXCEPT !.faults = @ + 1, !.nonce = @ + 1, !.realm = realm]
    /\ UNCHANGED <<setup, call, active, idle, socket, lost>>

\* A node that needs no authorization, or rejects a good one.
NodeMisanswers(s) ==
    /\ Misbehave /\ socket[s].asked # <<>>
    /\ \/ /\ Asked(s).nonce = 0
          /\ node' = [node EXCEPT !.faults = @ + 1, !.ran[Asked(s).of] = @ + 1]
          /\ Put(s, Answer(s, 200, FALSE, <<>>, node.realm, TRUE))
       \/ /\ node' = [node EXCEPT !.faults = @ + 1]
          /\ Put(s, Answer(s, 401, FALSE, <<"digest">>, node.realm, TRUE))
    /\ UNCHANGED <<setup, call, active, idle, lost>>

NodeRewritesCookie ==
    /\ setup.mode = "cookie"
    /\ IF node.cookie = "ok" THEN Misbehave ELSE TRUE
    /\ node' = IF node.cookie = "ok" THEN [node EXCEPT !.cookie = "torn", !.faults = @ + 1]
               ELSE [node EXCEPT !.cookie = "ok"]
    /\ UNCHANGED <<setup, call, active, idle, socket, lost>>

----------------------------------------------------------------------------
CallStep(c) ==
    \/ PostJson(c) \/ Acquire(c) \/ WaitForSlot(c) \/ GiveUpAdmission(c)
    \/ Reuse(c) \/ Connect(c) \/ ConnectFails(c)
    \/ Send(c) \/ GiveUpExchange(c) \/ ConnectionLost(c)
    \/ Deliver(c) \/ TakeChallenge(c) \/ RefreshChallenge(c)
    \/ CheckConnection(c) \/ Release(c) \/ Notify(c)

NodeStep(s) ==
    NodeExecutes(s) \/ NodeChallenges(s) \/ NodeCloses(s) \/ NodeMisanswers(s)

RpcNext ==
    \/ \E c \in Calls : CallStep(c) \/ DeadlinePasses(c) \/ Stop(c)
    \/ \E s \in Sockets : NodeStep(s)
    \/ NodeExpiresNonce \/ NodeRewritesCookie

----------------------------------------------------------------------------
RpcSpec == RpcInit /\ [][RpcNext]_rpcVars

----------------------------------------------------------------------------
Leased == {"connection", "send", "reply", "check", "release"}
Waiting == {"new", "admission", "asleep", "woken"}
Results == {"none", "answered", "alien", "cancelled", "failed", "rejected"} \cup Refusals

\* The challenge lists of an answer, those of a faulty node included.
ChallengeLists == OfferedLists \cup {<<>>, <<"digest">>}

RpcTypeOK ==
    /\ setup \in RpcSetups
    /\ active \in 0 .. PerEndpoint
    /\ idle \in Seq(Sockets)
    /\ call \in [Calls -> [at : Waiting \cup Leased \cup {"notify", "over"},
                          late : BOOLEAN, stopped : BOOLEAN,
                          socket : Sockets \cup {NoSocket}, tries : 0 .. 3,
                          nonce : Nat, realm : Nat, result : Results]]
    /\ socket \in [Sockets -> [client : BOOLEAN, peer : BOOLEAN, keep : BOOLEAN,
                              asked : Seq([of : Calls, nonce : Nat]),
                              reply : Seq([of : Calls, status : {200, 401},
                                           stale : BOOLEAN, schemes : ChallengeLists,
                                           nonce : Nat, realm : Nat, keep : BOOLEAN])]]
    /\ node \in [nonce : Nat \ {0}, cookie : {"ok", "torn"}, realm : Nat, faults : Nat,
                 stops : Nat, ran : [Calls -> Nat]]
    /\ lost \in BOOLEAN

\* Slots and connections are conserved: the count is the number of calls that
\* hold a slot, no connection is both idle and held or idle twice, and the idle
\* ones fit the room reserved for them, so that returning one cannot throw.
SlotsAreConserved ==
    /\ active = Cardinality({c \in Calls : call[c].at \in Leased})
    /\ active + Len(idle) <= PerEndpoint
    /\ Cardinality(ToSet(idle)) = Len(idle)
    /\ \A c, d \in Calls :
         call[c].socket # NoSocket =>
           call[c].socket \notin ToSet(idle) /\ (c # d => call[d].socket # call[c].socket)

\* A caller gets the answer to its own request, whatever the connection was
\* used for before.
OwnAnswer == \A c \in Calls : call[c].result # "alien"

\* A request is never replayed: the node executes each call at most once, a
\* call that was answered by a node that wants authorization exactly once, and
\* a call refused before it had a connection not at all.
AtMostOnce ==
    \A c \in Calls :
      /\ node.ran[c] <= 1
      /\ call[c].result \in Refusals => node.ran[c] = 0
      /\ call[c].result = "answered" /\ setup.mode = "digest" => node.ran[c] = 1

\* A free slot is known to someone who waits for one, or about to be: unless
\* the call that was notified left at its deadline and kept that to itself.
FreeSlotIsKnown ==
    (active < PerEndpoint /\ \E c \in Calls : At(c, "asleep"))
      => lost \/ \E c \in Calls : call[c].at \in {"woken", "notify"}

\* Every call ends, at its deadline at the latest: also one that waits for a
\* slot, for a node that never answers, or for a node that calls every nonce
\* stale.
CallEnds == \A c \in Calls : ~At(c, "new") ~> Over(c)

\* The slots of an endpoint are conserved, a caller gets the answer to its own
\* request, a request is executed at most once, and a free slot is known to
\* whoever waits.
RpcCorrect ==
    /\ RpcTypeOK
    /\ SlotsAreConserved
    /\ OwnAnswer
    /\ AtMostOnce
    /\ FreeSlotIsKnown

=============================================================================
