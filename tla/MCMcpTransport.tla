--------------------------- MODULE MCMcpTransport ---------------------------
(***************************************************************************)
(* The path of a client of the MCP server: the endpoint and its threads,   *)
(* the sessions, and the requests and streams of one session. A behaviour  *)
(* runs one of the components and leaves the others in an initial state:   *)
(* each is checked by itself, in one run of TLC.                           *)
(***************************************************************************)
EXTENDS McpEndpoint, McpSessions, McpRequests

VARIABLE part   \* the component this behaviour is about

vars == <<part, endpointVars, sessionVars, requestVars>>

\* The other components stay in one of their initial states.
Init ==
    /\ part \in {"endpoint", "sessions", "requests"}
    /\ EndpointInit /\ SessionsInit /\ RequestsInit
    /\ part # "endpoint" => \A f \in Credentials : creds[f] = "none"
    /\ part # "requests" => focus = "calls"

Next ==
    /\ UNCHANGED part
    /\ \/ /\ part = "endpoint" /\ EndpointNext
          /\ UNCHANGED <<sessionVars, requestVars>>
       \/ /\ part = "sessions" /\ SessionsNext
          /\ UNCHANGED <<endpointVars, requestVars>>
       \/ /\ part = "requests" /\ RequestsNext
          /\ UNCHANGED <<endpointVars, sessionVars>>

Spec == Init /\ [][Next]_vars

-----------------------------------------------------------------------------
\* Fairness is assumed of the component that runs.

\* The threads are scheduled; a request ends, by its timeout if by nothing
\* else.
EndpointFairness ==
    /\ WF_endpointVars(part = "endpoint" /\ StartSteps) /\ WF_endpointVars(part = "endpoint" /\ StopSteps)
    /\ WF_endpointVars(part = "endpoint" /\ AcceptThread)
    /\ \A w \in Workers : WF_endpointVars(part = "endpoint" /\ WorkerThread(w))

\* Handlers end, RemoveSession by its timeout; the two threads of the
\* protocol are scheduled.  Nothing makes a client or an operation move.
SessionsFairness ==
    /\ \A i \in Ids : WF_sessionVars(part = "sessions" /\ Handlers(i))
    /\ \A i \in Ids : WF_sessionVars(part = "sessions" /\ ExpireSession(i))
    /\ WF_sessionVars(part = "sessions" /\ Threads)
    /\ WF_sessionVars(part = "sessions" /\ (ShutdownService \/ LeaveProtocol \/ DestroyProtocol))

FairSpec == Spec /\ EndpointFairness /\ SessionsFairness

\* A credential file of another server is kept; a stop of the endpoint, a
\* connection, a pending session, a session that never initializes and a
\* deletion all come to their end.
ClientsAreLetGo ==
    /\ ReplacedFileIsKept
    /\ StopEnds
    /\ ConnectionEnds
    /\ PendingIsSettled
    /\ UninitializedExpires
    /\ DeleteIsAnswered
=============================================================================
