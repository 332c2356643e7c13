--------------------------- MODULE HetznerHosts ----------------------------
(***************************************************************************)
(* Hetzner: the server's name derives from the operation id and its labels *)
(* come with the create request.  A create that is refused because the     *)
(* name is taken adopts the server of that name.                           *)
(***************************************************************************)
EXTENDS HostFleet

\* DescribeManaged lists every labelled server, whatever its status.
Describe(s) == Marked(s)

\* The provider may be started again without its SSH key: then, and only then, is a
\* drain answered by clearing the mark alone, the node as it was.
Restart ==
    /\ Recovered \/ Reseeded([s \in Slots |-> Describe(s)])
    /\ lapsed' \in {lapsed, Slots}
    /\ UNCHANGED host

CreateInstance(s) == Starts(s, "create", "CreateServer")

\* Names are unique in a project, so a second request for the name is an error.
CreateServer(s) ==
    /\ At(s, "CreateServer")
    /\ \E h \in Hosts :
         /\ IF Named(call[s].op) = {}
            THEN Launched(h, s, call[s].op)
            ELSE h \in Named(call[s].op) /\ UNCHANGED host
         /\ Goes(s, "waitRunning", h)

WaitRunning(s) ==
    /\ At(s, "waitRunning")
    /\ host[call[s].host].state = "up"
    /\ Answers(s, call[s].host)
    /\ UNCHANGED host

ConfigureInstance(s) == Starts(s, "configure", "ApplyBootstrap")

\* Mutant: the hook's exit status is not looked at.
HookUnchecked(s) ==
    /\ At(s, "ApplyBootstrap")
    /\ Joins(call[s].host) \/ UNCHANGED host
    /\ Goes(s, "setLabel", call[s].host)

ApplyBootstrap(s) ==
    /\ At(s, "ApplyBootstrap")
    /\ Joins(call[s].host)
    /\ Goes(s, "setLabel", call[s].host)

SetLabel(s) ==
    /\ At(s, "setLabel")
    /\ Binds(call[s].host)
    /\ Answers(s, call[s].host)

DrainInstance(s) == Starts(s, "drain", "DrainNode")

\* Mutant: the drain's exit status is not looked at.
DrainUnchecked(s) ==
    /\ At(s, "DrainNode")
    /\ Leaves(call[s].host) \/ UNCHANGED host
    /\ Goes(s, "clearLabel", call[s].host)

DrainNode(s) ==
    /\ At(s, "DrainNode")
    /\ Leaves(call[s].host) \/ Lapses(s)
    /\ Goes(s, "clearLabel", call[s].host)

ClearLabel(s) ==
    /\ At(s, "clearLabel")
    /\ Unbinds(call[s].host)
    /\ Answers(s, call[s].host)

DeleteInstance(s) == Starts(s, "delete", "DeleteServer")

\* A server that is not found is a server deleted.
DeleteServer(s) ==
    /\ At(s, "DeleteServer")
    /\ Removed(call[s].host)
    /\ Answers(s, NoHost)

Init == FleetInit

Next ==
    \/ \E s \in Slots :
         \/ CreateInstance(s) \/ CreateServer(s) \/ WaitRunning(s)
         \/ ConfigureInstance(s) \/ ApplyBootstrap(s) \/ SetLabel(s)
         \/ DrainInstance(s) \/ DrainNode(s) \/ ClearLabel(s)
         \/ DeleteInstance(s) \/ DeleteServer(s)
         \/ Fails(s)
    \/ \E h \in Hosts : Appears(h) \/ Boots(h) \/ Ends(h) \/ Breaks(h)
    \/ Restart
=============================================================================
