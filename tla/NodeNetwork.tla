----------------------------- MODULE NodeNetwork -----------------------------
(***************************************************************************)
(* The network of one node (src/network.cpp): the helper process that holds *)
(* its namespace, the veth pair that joins it to the host, the directional *)
(* policies on the inner end, and the probes that try the kernel out with   *)
(* a pair of their own.  One action is one netlink request, with the dump   *)
(* that reads its result back.                                              *)
(*                                                                          *)
(* A pair is identified by the two interface indexes and, once published,   *)
(* by two ownership aliases; names alone never justify a deletion.  Other   *)
(* programs create and remove interfaces of their own.  The kernel hands    *)
(* out rising indexes, so an index is taken again only between two calls.   *)
(***************************************************************************)
EXTENDS Naturals, FiniteSets, Sequences

CONSTANTS
    MaxIndex,       \* bound: interface indexes
    MaxNetFaults,   \* bound: requests that fail or stay unanswered
    MaxForeign,     \* bound: interface changes by other programs
    Bands           \* directional bands a policy set may use

VARIABLES
    links,      \* interfaces: index, name, alias, mate, namespace, and whose
    helper,     \* the namespace helper: none, alive, dead or reaped
    nsOpen,     \* the namespace descriptor is open
    acquired,   \* acquired_identity, or NoId
    netOp,      \* the call in progress
    qos,        \* root qdisc of the inner end, its bands and its filters
    believed,   \* the policies the caller holds to be in force
    netCancelled, netFaults, foreign

linkVars == <<links, helper, nsOpen, acquired>>
netCounts == <<netFaults, foreign>>
netVars == <<links, helper, nsOpen, acquired, netOp, qos, believed, netCancelled,
             netFaults, foreign>>

\* NodeVethIdentity: the indexes, and whether each alias was seen.
NoId == [host |-> 0, peer |-> 0, ha |-> FALSE, pa |-> FALSE]
IdleNet == [pc |-> "idle", kind |-> "none", cap |-> NoId, acked |-> FALSE,
            move |-> TRUE, script |-> <<>>, want |-> {}, todo |-> {},
            rolling |-> FALSE, result |-> "none"]

\* ListNetworkLinks in the host namespace, and in the node's.
HostLinks == {l \in links : l.in = "host"}
Named(n) == {l \in HostLinks : l.name = n}
Aliased(a) == {l \in HostLinks : l.alias = a}
FreshIndexes == 1..MaxIndex \ {l.ix : l \in links}

NetInit ==
    /\ links = {} /\ helper = "none" /\ nsOpen = FALSE /\ acquired = NoId
    /\ netOp = IdleNet
    /\ qos = [root |-> "none", bands |-> {}, filters |-> {}]
    /\ believed = {} /\ netCancelled = FALSE /\ netFaults = 0 /\ foreign = 0

----------------------------------------------------------------------------
(* Requests and exceptions *)

InNet(pc) == netOp.pc = pc
GoNet(pc) == netOp' = [netOp EXCEPT !.pc = pc]

\* SendNetlinkRequest and ReceiveRtnetlinkDump give up when the stop token is
\* set, the deadline passes, or the kernel or the socket answers badly.
NetThrow(stoppable) ==
    \/ stoppable /\ netCancelled /\ UNCHANGED netCounts
    \/ /\ netFaults < MaxNetFaults
       /\ netFaults' = netFaults + 1 /\ UNCHANGED foreign

NetRuns(stoppable) == ~(stoppable /\ netCancelled) /\ UNCHANGED netCounts

\* Where an exception of a call leads: inside CreateVethPair to its own
\* rollback when the pair was acknowledged and captured, otherwise on to the
\* rollback of SetupNodeVethNetwork, which needs the captured identity too; a
\* probe goes to its TryDeleteLink, a rollback or a deletion that throws fails.
Creating == {"create", "aliasHost", "aliasPeer"}
NetCatch ==
    CASE netOp.pc \in Creating /\ netOp.acked /\ netOp.cap # NoId -> "rollCreate"
      [] netOp.pc \in Creating /\ ~(netOp.acked /\ netOp.cap # NoId)
             -> IF netOp.kind = "probe" THEN "sweep" ELSE "failed"
      [] netOp.pc = "script" -> "sweep"
      [] netOp.pc \in {"configure", "move", "verify", "inside"}
             -> IF netOp.kind = "probe" THEN "sweep" ELSE "rollSetup"
      [] OTHER -> "failed"

\* A request that would change the interfaces to ls: done, refused, or sent and
\* never acknowledged.
SendLinks(ls, pc, stoppable) ==
    \/ NetRuns(stoppable) /\ links' = ls /\ GoNet(pc)
    \/ NetThrow(stoppable) /\ links' \in {links, ls} /\ GoNet(NetCatch)

\* Removing one end removes the other, wherever it is.
LinksWithout(l) == links \ {m \in links : m = l \/ (m.ix = l.mate /\ m.ours = l.ours)}

----------------------------------------------------------------------------
(* The namespace helper *)

\* StartNetworkNamespaceHelper: fork, join the cgroup, unshare, report; when
\* the report is bad or the descriptors cannot be opened the child is reaped.
StartHelper ==
    /\ InNet("idle") /\ helper \in {"none", "reaped"} /\ links = {}
    /\ \/ helper' = "alive" /\ nsOpen' = TRUE /\ NetRuns(FALSE)
       \/ helper' = "reaped" /\ nsOpen' = FALSE /\ NetThrow(FALSE)
    /\ netOp' = IdleNet
    /\ UNCHANGED <<links, acquired, qos, believed, netCancelled>>

\* HelperObservedState only peeks: a helper that died stays to be reaped.
HelperDies ==
    /\ helper = "alive" /\ netOp.kind # "probe" /\ foreign < MaxForeign
    /\ helper' = "dead" /\ foreign' = foreign + 1
    /\ UNCHANGED <<links, nsOpen, acquired, netOp, qos, believed, netCancelled, netFaults>>

\* StopHelperAndVerify kills the helper and waits for it; cancellation and the
\* deadline leave it to a later attempt.  StopAndVerify then closes the
\* descriptor, which ends the namespace and with it both ends of the pair.
StopHelper ==
    /\ InNet("idle") /\ helper \in {"alive", "dead"}
    /\ \/ /\ NetRuns(TRUE) /\ helper' = "reaped" /\ nsOpen' = FALSE
          /\ links' = {l \in links : ~(l.ours /\ \E m \in links : m.in = "ns")}
          /\ qos' = [root |-> "none", bands |-> {}, filters |-> {}]
          /\ believed' = {}
       \/ /\ NetThrow(TRUE) /\ helper' \in {helper, "dead"}
          /\ UNCHANGED <<nsOpen, links, qos, believed>>
    /\ UNCHANGED <<acquired, netOp, netCancelled>>

----------------------------------------------------------------------------
(* SetupNodeVethNetwork *)

\* Endpoints that already carry one of the names or aliases are not touched.
BeginSetup ==
    /\ InNet("idle") /\ helper = "alive" /\ acquired = NoId
    /\ believed = {} /\ ~\E l \in links : l.in = "ns"
    /\ \/ /\ NetRuns(TRUE)
          /\ Named("h") \cup Named("p") \cup Aliased("h") \cup Aliased("p") = {}
          /\ netOp' = [IdleNet EXCEPT !.pc = "create", !.kind = "setup"]
       \/ /\ NetRuns(TRUE)
          /\ Named("h") \cup Named("p") \cup Aliased("h") \cup Aliased("p") # {}
          /\ netOp' = [IdleNet EXCEPT !.pc = "failed", !.kind = "setup"]
       \/ /\ NetThrow(TRUE)
          /\ netOp' = [IdleNet EXCEPT !.pc = "failed", !.kind = "setup"]
    /\ UNCHANGED <<linkVars, qos, believed, netCancelled>>

\* CaptureCreatedVethIdentity: a unique, reciprocal pair under the two names.
Captured(ls) ==
    LET h == CHOOSE l \in ls : l.in = "host" /\ l.name = "h"
        p == CHOOSE l \in ls : l.in = "host" /\ l.name = "p"
    IN  [host |-> h.ix, peer |-> p.ix, ha |-> h.alias = "h", pa |-> p.alias = "p"]
Capturable(ls) ==
    \E h, p \in ls : /\ h.in = "host" /\ p.in = "host"
                     /\ h.name = "h" /\ p.name = "p"
                     /\ h.mate = p.ix /\ p.mate = h.ix

\* One request of CreateVethPair and the capture after it.  The same pair must
\* be seen every time; the identity is kept for the caller as soon as it is.
RequestAndCapture(ls, pc) ==
    \/ /\ NetRuns(TRUE) /\ links' = ls
       /\ Capturable(ls)
       /\ netOp.cap # NoId => /\ Captured(ls).host = netOp.cap.host
                              /\ Captured(ls).peer = netOp.cap.peer
       /\ netOp' = [netOp EXCEPT !.pc = pc, !.cap = Captured(ls), !.acked = TRUE]
       /\ acquired' = IF netOp.kind = "setup" THEN Captured(ls) ELSE acquired
    \/ /\ NetRuns(TRUE) /\ links' = ls /\ UNCHANGED acquired
       /\ ~Capturable(ls)
       /\ netOp' = [netOp EXCEPT !.acked = TRUE, !.pc = NetCatch]
    \/ /\ NetThrow(TRUE) /\ links' \in {links, ls} /\ UNCHANGED acquired
       /\ \E a \in {netOp.acked, links' = ls} :
              netOp' = [netOp EXCEPT !.acked = a, !.pc = NetCatch]

\* RTM_NEWLINK with both ends; the kernel may ignore the aliases it carries.
\* NLM_F_EXCL: a name that is taken by now refuses it.
CreatePair ==
    /\ InNet("create")
    /\ \/ /\ Named("h") \cup Named("p") # {} /\ NetRuns(TRUE)
          /\ GoNet(NetCatch) /\ UNCHANGED <<links, acquired>>
       \/ /\ Named("h") \cup Named("p") = {}
          /\ \E h, p \in FreshIndexes : \E ha \in {"", "h"} :
              /\ h < p
              /\ RequestAndCapture(
                    links \cup
                    {[ix |-> h, name |-> "h", mate |-> p, in |-> "host", ours |-> TRUE,
                      alias |-> IF netOp.kind = "probe" THEN "" ELSE ha],
                     [ix |-> p, name |-> "p", mate |-> h, in |-> "host", ours |-> TRUE,
                      alias |-> ""]},
                    IF netOp.kind = "probe" THEN "configure" ELSE "aliasHost")
    /\ UNCHANGED <<helper, nsOpen, qos, believed, netCancelled>>

\* SetLinkOwnershipAlias for one end and then for the other, by index.
PublishAlias(end, ix) ==
    {IF l.in = "host" /\ l.ix = ix THEN [l EXCEPT !.alias = end] ELSE l : l \in links}
AliasPair ==
    /\ \/ InNet("aliasHost") /\ RequestAndCapture(PublishAlias("h", netOp.cap.host), "aliasPeer")
       \/ InNet("aliasPeer") /\ RequestAndCapture(PublishAlias("p", netOp.cap.peer), "configure")
    /\ UNCHANGED <<helper, nsOpen, qos, believed, netCancelled>>

\* Address, up and, when asked for, the condition of the host end: by name, and
\* without the stop token.
ConfigureHostEnd ==
    /\ InNet("configure")
    /\ \/ NetRuns(FALSE) /\ Named("h") # {} /\ GoNet(IF netOp.move THEN "move" ELSE "script")
       \/ NetRuns(FALSE) /\ Named("h") = {} /\ GoNet(NetCatch)
       \/ NetThrow(FALSE) /\ GoNet(NetCatch)
    /\ UNCHANGED <<linkVars, qos, believed, netCancelled>>

\* MoveLinkToNamespaceWithExactIndex: by name, keeping the index.
MovePeer ==
    /\ InNet("move")
    /\ LET moved == {IF l \in Named("p") THEN [l EXCEPT !.in = "ns"] ELSE l : l \in links}
       IN  \/ nsOpen /\ Named("p") # {}
              /\ SendLinks(moved, IF netOp.kind = "probe" THEN "script" ELSE "verify", FALSE)
           \/ (~nsOpen \/ Named("p") = {})
              /\ NetRuns(FALSE) /\ GoNet(NetCatch) /\ UNCHANGED links
    /\ UNCHANGED <<helper, nsOpen, acquired, qos, believed, netCancelled>>

\* VerifyMovedVethIdentity: both ends, by index, alias and mate, each in the
\* namespace it belongs to.
VerifyMove ==
    /\ InNet("verify")
    /\ \/ /\ NetRuns(TRUE)
          /\ GoNet(IF /\ \E l \in HostLinks : /\ l.ix = netOp.cap.host /\ l.alias = "h"
                                              /\ l.mate = netOp.cap.peer
                      /\ \E l \in links : /\ l.in = "ns" /\ l.ix = netOp.cap.peer
                                          /\ l.alias = "p" /\ l.mate = netOp.cap.host
                      /\ netOp.cap.ha /\ netOp.cap.pa
                   THEN "inside" ELSE NetCatch)
       \/ NetThrow(TRUE) /\ GoNet(NetCatch)
    /\ UNCHANGED <<linkVars, qos, believed, netCancelled>>

\* lo up, address, up and default route inside the namespace.
ConfigureNodeEnd ==
    /\ InNet("inside")
    /\ \/ NetRuns(FALSE) /\ (\E l \in links : l.in = "ns") /\ GoNet("ready")
       \/ NetRuns(FALSE) /\ ~(\E l \in links : l.in = "ns") /\ GoNet(NetCatch)
       \/ NetThrow(FALSE) /\ GoNet(NetCatch)
    /\ UNCHANGED <<linkVars, qos, believed, netCancelled>>

----------------------------------------------------------------------------
(* Deletion *)

\* RequireVethIdentityMatchesIntent: both aliases were published and seen.
MatchesIntent(id) == id.ha /\ id.pa

IsEnd(l, ix, mate, alias) == l.ix = ix /\ l.mate = mate /\ l.alias = alias

\* Mutant: the index alone decides.
TrustingResolvedHost(id) ==
    [refused |-> FALSE, delete |-> {l \in HostLinks : l.ix = id.host}]

\* ResolveNodeVethDeletionIndex: the host end to delete (as a set of at most
\* one), or a refusal because an alias, an index or a mate is not where the
\* acquired identity has it.
ResolvedHost(id) ==
    LET hostAlias == IF id.ha THEN "h" ELSE ""
        peerAlias == IF id.pa THEN "p" ELSE ""
        byIndex == {l \in HostLinks : l.ix = id.host}
        hostBy == IF id.ha THEN Aliased("h") ELSE {}
        peerBy == IF id.pa THEN Aliased("p") ELSE {}
    IN  [refused |-> \/ Cardinality(hostBy) > 1 \/ Cardinality(peerBy) > 1
                     \/ hostBy # {} /\ hostBy # byIndex
                     \/ \E l \in peerBy : ~IsEnd(l, id.peer, id.host, peerAlias)
                     \/ byIndex = {} /\ peerBy # {}
                     \/ \E l \in byIndex : ~IsEnd(l, id.host, id.peer, hostAlias),
         delete |-> byIndex]

\* DeleteNodeVethNetwork with the acquired identity, or, without one, the check
\* that nothing carries a name or an alias of the node.
BeginDelete ==
    /\ InNet("idle") /\ helper # "none"
    /\ \/ /\ acquired # NoId
          /\ netOp' = [IdleNet EXCEPT !.pc = "resolve", !.kind = "delete", !.cap = acquired]
       \/ /\ acquired = NoId
          /\ netOp' = [IdleNet EXCEPT !.pc = "absent", !.kind = "delete"]
    /\ UNCHANGED <<linkVars, qos, believed, netCancelled, netCounts>>

RequireAbsent ==
    /\ InNet("absent")
    /\ \/ /\ NetRuns(TRUE)
          /\ GoNet(IF Named("h") \cup Named("p") \cup Aliased("h") \cup Aliased("p") = {}
                   THEN "clean" ELSE "failed")
       \/ NetThrow(TRUE) /\ GoNet("failed")
    /\ UNCHANGED <<linkVars, qos, believed, netCancelled>>

\* The rollback of CreateVethPair deletes what it captured, aliases or not; the
\* one of SetupNodeVethNetwork and a later deletion insist on the intent.
ResolveDeletion ==
    /\ netOp.pc \in {"resolve", "rollSetup", "rollCreate"}
    /\ LET id == IF netOp.pc = "rollCreate" /\ Capturable(links)
                 THEN Captured(links) ELSE netOp.cap
           r == ResolvedHost(id)
       IN  \/ /\ NetRuns(TRUE)
              /\ netOp' = [netOp EXCEPT !.cap = id,
                     !.pc = CASE netOp.pc = "rollCreate"
                                   /\ (~Capturable(links) \/ id.host # netOp.cap.host)
                                      -> IF netOp.kind = "probe" THEN "sweep" ELSE "rollSetup"
                              [] netOp.pc # "rollCreate" /\ ~MatchesIntent(id) -> "failed"
                              [] r.refused -> IF netOp.pc = "rollCreate"
                                              THEN IF netOp.kind = "probe" THEN "sweep"
                                                   ELSE "rollSetup"
                                              ELSE "failed"
                              [] r.delete = {} -> "deleted"
                              [] OTHER -> IF netOp.pc = "rollCreate" THEN "deleteCreated"
                                          ELSE "delete"]
              /\ acquired' = IF netOp.kind = "setup" THEN id ELSE acquired
           \/ /\ NetThrow(TRUE) /\ UNCHANGED acquired
              /\ GoNet(IF netOp.pc # "rollCreate" THEN "failed"
                       ELSE IF netOp.kind = "probe" THEN "sweep" ELSE "rollSetup")
    /\ UNCHANGED <<links, helper, nsOpen, qos, believed, netCancelled>>

\* DeleteLinkIndexAndVerifyAbsent and the read-back for the aliases.
SendDelete ==
    /\ netOp.pc \in {"delete", "deleteCreated"}
    /\ LET ls == UNION {links \ LinksWithout(l) : l \in {m \in HostLinks : m.ix = netOp.cap.host}}
       IN  \/ NetRuns(TRUE) /\ links' = links \ ls /\ GoNet("deleted")
           \/ /\ NetThrow(TRUE) /\ links' \in {links, links \ ls}
              /\ GoNet(IF netOp.pc = "delete" THEN "failed"
                       ELSE IF netOp.kind = "probe" THEN "sweep" ELSE "rollSetup")
    /\ UNCHANGED <<helper, nsOpen, acquired, qos, believed, netCancelled>>

\* After a deletion the identity is given up; a call that failed before it
\* keeps it.  A setup whose pair was rolled back still reports its failure.
FinishNet ==
    /\ netOp.pc \in {"deleted", "clean", "failed", "ready"}
    /\ acquired' = IF netOp.pc = "deleted" /\ netOp.kind # "probe" THEN NoId ELSE acquired
    /\ netOp' = IF netOp.pc = "deleted" /\ netOp.kind = "probe"
                THEN [netOp EXCEPT !.pc = "sweep"]
                ELSE [IdleNet EXCEPT !.result =
                          CASE netOp.pc = "ready" -> "ready"
                            [] netOp.kind = "delete" /\ netOp.pc # "failed" -> "clean"
                            [] OTHER -> "failed"]
    /\ UNCHANGED <<links, helper, nsOpen, qos, believed, netCancelled, netCounts>>

----------------------------------------------------------------------------
(* Directional policies *)

\* DirectionalNetworkPoliciesMatch: the owned root, one band and one filter for
\* each policy and none besides; no policies, no owned root.
InForce(ps) ==
    IF ps = {} THEN qos.root # "owned"
    ELSE qos.root = "owned" /\ qos.bands = ps /\ qos.filters = ps

\* HasOwnedDirectionalRoot: another kind of root is never replaced.
RootIsReplaceable == qos.root # "foreign"

\* UpdateDirectionalNetworkPoliciesInNamespace refuses a root that is not its
\* own and a kernel state that is not the one the caller expects.
BeginPolicies(ps) ==
    /\ InNet("idle") /\ acquired # NoId /\ nsOpen
    /\ \E l \in links : l.ours /\ l.in = "ns"
    /\ \/ /\ NetRuns(TRUE)
          /\ netOp' = [IdleNet EXCEPT !.kind = "policy", !.want = ps, !.todo = ps,
                       !.pc = IF RootIsReplaceable /\ InForce(believed)
                              THEN "qdel" ELSE "qrefused"]
       \/ /\ NetThrow(TRUE)
          /\ netOp' = [IdleNet EXCEPT !.kind = "policy", !.pc = "qrefused"]
    /\ UNCHANGED <<linkVars, qos, believed, netCancelled>>

\* Mutant: a rollback that fails is reported as done.
HopefulPolicyCatch ==
    netOp' = IF netOp.rolling THEN [netOp EXCEPT !.pc = "qrestored"]
             ELSE [netOp EXCEPT !.pc = "qdel", !.rolling = TRUE, !.want = believed,
                                !.todo = believed]

\* An exception of the first pass starts a second one towards the expected
\* state, with a stop token and a deadline of its own; one there is final.
PolicyCatch ==
    netOp' = IF netOp.rolling THEN [netOp EXCEPT !.pc = "qunconfirmed"]
             ELSE [netOp EXCEPT !.pc = "qdel", !.rolling = TRUE, !.want = believed,
                                !.todo = believed]
SendQos(q, pc) ==
    LET stoppable == ~netOp.rolling
    IN  \/ NetRuns(stoppable) /\ qos' = q /\ netOp' = pc
        \/ NetThrow(stoppable) /\ qos' \in {qos, q} /\ PolicyCatch

\* DeleteRootQdiscControlled when the owned root is there.
DropOwnedRoot ==
    /\ InNet("qdel")
    /\ LET next == [netOp EXCEPT !.pc = IF netOp.want = {} THEN "qdone" ELSE "qprio"]
       IN  SendQos(IF qos.root = "owned"
                   THEN [root |-> "none", bands |-> {}, filters |-> {}] ELSE qos, next)
    /\ UNCHANGED <<linkVars, believed, netCancelled>>

\* ReplaceDirectionalPrioQdisc
MakeOwnedRoot ==
    /\ InNet("qprio")
    /\ SendQos([qos EXCEPT !.root = "owned"], [netOp EXCEPT !.pc = "qband"])
    /\ UNCHANGED <<linkVars, believed, netCancelled>>

\* ReplaceTbfQdisc and ReplaceNetemQdisc for the band of a policy ...
AddBand ==
    /\ InNet("qband") /\ netOp.todo # {}
    /\ LET b == CHOOSE x \in netOp.todo : TRUE
       IN  SendQos([qos EXCEPT !.bands = @ \cup {b}], [netOp EXCEPT !.pc = "qfilter"])
    /\ UNCHANGED <<linkVars, believed, netCancelled>>

\* ... and ReplaceDirectionalFlowerFilter that sends its traffic there.
AddFilter ==
    /\ InNet("qfilter")
    /\ LET b == CHOOSE x \in netOp.todo : TRUE
       IN  SendQos([qos EXCEPT !.filters = @ \cup {b}],
                   [netOp EXCEPT !.pc = "qband", !.todo = @ \ {b}])
    /\ UNCHANGED <<linkVars, believed, netCancelled>>

\* The read-back of ApplyDirectionalNetworkPolicies.
ReadBackPolicies ==
    /\ \/ InNet("qband") /\ netOp.todo = {}
       \/ InNet("qdone")
    /\ \/ /\ InForce(netOp.want) /\ NetRuns(~netOp.rolling)
          /\ GoNet(IF netOp.rolling THEN "qrestored" ELSE "qapplied")
       \/ /\ NetThrow(~netOp.rolling)
          /\ InNet("qband") /\ PolicyCatch
    /\ UNCHANGED <<linkVars, qos, believed, netCancelled>>

FinishPolicies ==
    /\ netOp.pc \in {"qapplied", "qrestored", "qunconfirmed", "qrefused"}
    /\ believed' = IF InNet("qapplied") THEN netOp.want ELSE believed
    /\ netOp' = IdleNet
    /\ UNCHANGED <<linkVars, qos, netCancelled, netCounts>>

----------------------------------------------------------------------------
(* Probes.  Each makes a pair, runs its steps, deletes the pair and reaps its *)
(* helper.  A step adds or deletes a kernel object, or looks whether a dump    *)
(* shows it (has) or shows it no more (gone).                                  *)

Steps(o) == <<<<"add", o>>, <<"has", o>>, <<"del", o>>, <<"gone", o>>>>
ProbeCondition == [move |-> TRUE, steps |-> Steps("netem")]
ProbeCombined == [move |-> TRUE, steps |-> Steps("tbf+netem")]
ProbeBandwidth == [move |-> TRUE, steps |-> Steps("tbf")]
ProbeUpdate ==
    [move |-> TRUE, steps |-> <<<<"add", "netem">>, <<"has", "netem">>>> \o Steps("netem")]
ProbeDropFilter == [move |-> FALSE, steps |-> Steps("drop")]
ProbeDirectional ==
    [move |-> TRUE, steps |-> Steps("policies") \o
        <<<<"add", "pfifo">>, <<"gone", "policies">>, <<"has", "pfifo">>, <<"del", "pfifo">>>>]
ProbeQdiscMutation == [move |-> TRUE, steps |-> Steps("pfifo")]
ProbeQdiscDump == [move |-> TRUE, steps |-> <<<<"gone", "pfifo">>>>]
ProbeRoute ==
    [move |-> TRUE, steps |-> <<<<"add", "address">>, <<"add", "route">>, <<"has", "address">>,
        <<"has", "route">>, <<"del", "route">>, <<"del", "address">>,
        <<"gone", "route">>, <<"gone", "address">>>>]
ProbeAddress == [move |-> TRUE, steps |-> Steps("address")]
ProbeVethPair == [move |-> TRUE, steps |-> <<>>]

Probes == {ProbeCondition, ProbeCombined, ProbeBandwidth, ProbeUpdate, ProbeDropFilter,
           ProbeDirectional, ProbeQdiscMutation, ProbeQdiscDump, ProbeRoute, ProbeAddress,
           ProbeVethPair}

\* The helper, then TryDeleteLink for what an earlier probe left under the names.
BeginProbe(probe) ==
    /\ InNet("idle") /\ helper = "none" /\ acquired = NoId
    /\ Named("h") \cup Named("p") = {}
    /\ netOp' = [IdleNet EXCEPT !.pc = "create", !.kind = "probe",
                                !.move = probe.move, !.script = probe.steps]
    /\ helper' = IF probe.move THEN "alive" ELSE "none"
    /\ nsOpen' = probe.move
    /\ UNCHANGED <<links, acquired, qos, believed, netCancelled, netCounts>>

ProbeStep ==
    /\ InNet("script") /\ netOp.script # <<>>
    /\ LET o == Head(netOp.script)[2]
           after == [add |-> netOp.todo \cup {o}, del |-> netOp.todo \ {o},
                     has |-> netOp.todo, gone |-> netOp.todo][Head(netOp.script)[1]]
           sound == [add |-> TRUE, del |-> o \in netOp.todo, has |-> o \in netOp.todo,
                     gone |-> o \notin netOp.todo][Head(netOp.script)[1]]
       IN  \/ /\ NetRuns(FALSE)
              /\ netOp' = IF sound
                          THEN [netOp EXCEPT !.script = Tail(@), !.todo = after]
                          ELSE [netOp EXCEPT !.pc = "sweep"]
           \/ NetThrow(FALSE) /\ GoNet("sweep")
    /\ UNCHANGED <<linkVars, qos, believed, netCancelled>>

\* DeleteLink of the host end once the steps are done.
ProbeDelete ==
    /\ InNet("script") /\ netOp.script = <<>>
    /\ LET ls == UNION {links \ LinksWithout(l) : l \in Named("h")}
       IN  SendLinks(links \ ls, "reap", FALSE)
    /\ UNCHANGED <<helper, nsOpen, acquired, qos, believed, netCancelled>>

\* TryDeleteLink for both names: a failure is swallowed.
ProbeSweep ==
    /\ InNet("sweep") /\ GoNet("reap")
    /\ LET ls == UNION {links \ LinksWithout(l) : l \in Named("h") \cup Named("p")}
       IN  \/ NetRuns(FALSE) /\ links' = links \ ls
           \/ NetThrow(FALSE) /\ UNCHANGED links
    /\ UNCHANGED <<helper, nsOpen, acquired, qos, believed, netCancelled>>

\* kill, WaitForPid and the descriptor that goes out of scope.
ProbeReap ==
    /\ InNet("reap")
    /\ helper' = IF netOp.move THEN "reaped" ELSE helper
    /\ nsOpen' = FALSE
    /\ links' = {l \in links : ~(l.ours /\ \E m \in links : m.in = "ns")}
    /\ netOp' = [IdleNet EXCEPT !.result = "probed"]
    /\ UNCHANGED <<acquired, qos, believed, netCancelled, netCounts>>

----------------------------------------------------------------------------
(* Other programs *)

CancelNet ==
    /\ ~netCancelled /\ netOp.kind \in {"setup", "policy"} /\ netCancelled' = TRUE
    /\ UNCHANGED <<linkVars, netOp, qos, believed, netCounts>>

\* A later call comes with a stop token of its own.
RenewToken ==
    /\ netCancelled /\ InNet("idle") /\ netCancelled' = FALSE
    /\ UNCHANGED <<linkVars, netOp, qos, believed, netCounts>>

ForeignLink ==
    /\ foreign < MaxForeign /\ foreign' = foreign + 1 /\ netOp.kind # "probe"
    /\ \/ /\ \E ix \in FreshIndexes, n \in {"h", "x"} :
               /\ n = "x" \/ Named("h") = {}
               /\ InNet("idle") \/ \A l \in links : l.ix < ix
               /\ netOp.cap # NoId => netOp.cap.peer < ix
               /\ links' = links \cup {[ix |-> ix, name |-> n, alias |-> "", mate |-> 0,
                                        in |-> "host", ours |-> FALSE]}
          /\ UNCHANGED qos
       \/ /\ \E l \in HostLinks : links' = LinksWithout(l)
          /\ UNCHANGED qos
       \/ /\ InNet("idle") /\ nsOpen /\ qos.root # "foreign"
          /\ qos' = [root |-> "foreign", bands |-> {}, filters |-> {}]
          /\ UNCHANGED links
    /\ UNCHANGED <<helper, nsOpen, acquired, netOp, believed, netCancelled, netFaults>>

NetNext ==
    \/ StartHelper \/ HelperDies \/ StopHelper
    \/ BeginSetup \/ CreatePair \/ AliasPair \/ ConfigureHostEnd \/ MovePeer
    \/ VerifyMove \/ ConfigureNodeEnd
    \/ BeginDelete \/ RequireAbsent \/ ResolveDeletion \/ SendDelete \/ FinishNet
    \/ \E ps \in SUBSET Bands : BeginPolicies(ps)
    \/ DropOwnedRoot \/ MakeOwnedRoot \/ AddBand \/ AddFilter \/ ReadBackPolicies
    \/ FinishPolicies
    \/ \E probe \in Probes : BeginProbe(probe)
    \/ ProbeStep \/ ProbeDelete \/ ProbeSweep \/ ProbeReap
    \/ CancelNet \/ RenewToken \/ ForeignLink

----------------------------------------------------------------------------
(* Properties *)

\* Identities and kernel objects are well formed: an acquired identity names two
\* different ends (RequireReciprocalVethIdentity), and the kernel never holds two
\* interfaces under one index of a namespace.
NetTypeOK ==
    /\ \A l \in links : l.ix \in 1..MaxIndex /\ l.mate \in 0..MaxIndex
    /\ \A l, m \in links : l.ix = m.ix /\ l.in = m.in => l = m
    /\ helper \in {"none", "alive", "dead", "reaped"}
    /\ acquired.host \in 0..MaxIndex /\ acquired.peer \in 0..MaxIndex
    /\ acquired # NoId => acquired.host # acquired.peer
    /\ qos.root \in {"none", "owned", "foreign"}
    /\ qos.bands \cup qos.filters \cup believed \subseteq Bands

\* A deletion that reports the node's network gone (DeleteNodeVethNetwork) never
\* leaves one of its interfaces behind, whatever failed before: an unacknowledged
\* creation, a capture that did not happen, a rollback that was cancelled.
CleanMeansGone == netOp.result = "clean" => ~\E l \in links : l.ours

\* Setting up, rolling back and deleting never remove an interface or a root
\* qdisc of somebody else, even when an index or a name was taken over between
\* two calls (ResolveNodeVethDeletionIndex, HasOwnedDirectionalRoot).
ForeignIsKept ==
    [][foreign' = foreign =>
          /\ {l \in links : ~l.ours} \subseteq links'
          /\ qos.root = "foreign" /\ nsOpen' => qos'.root = "foreign"]_netVars

\* An identity with both aliases can be used: as long as no other program
\* interfered, the deletion it is kept for is not refused.
KeptIdentityDeletes ==
    InNet("idle") /\ acquired # NoId /\ MatchesIntent(acquired) /\ foreign = 0
       => ~ResolvedHost(acquired).refused

\* What UpdateDirectionalNetworkPoliciesInNamespace reports is what the kernel
\* has: the new policies when it returns, the old ones when it says they were
\* restored or the call was cancelled.
PoliciesAsReported ==
    /\ InNet("qapplied") => InForce(netOp.want)
    /\ InNet("qrestored") => InForce(believed)

\* A probe that met at most one failure leaves neither a pair nor a helper: what
\* its swallowed deletion misses goes with the namespace.
ProbeLeavesNothing ==
    netOp.result = "probed" /\ netFaults <= 1
       => ~(\E l \in links : l.ours) /\ helper # "alive"

\* A node network: reported clean means gone, the identity that was kept still
\* deletes the link, policies are what was reported, and a probe leaves
\* nothing.
NetworkCorrect ==
    /\ NetTypeOK
    /\ CleanMeansGone
    /\ KeptIdentityDeletes
    /\ PoliciesAsReported
    /\ ProbeLeavesNothing

============================================================================
