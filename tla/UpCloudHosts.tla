--------------------------- MODULE UpCloudHosts ----------------------------
(***************************************************************************)
(* UpCloud: nothing about a server is unique but its UUID, so a create     *)
(* first looks for a server with the machine's label, and does so again    *)
(* when the request fails.  A lookup that fails finds nothing.             *)
(***************************************************************************)
EXTENDS HostFleet

\* A labelled server owns its slot, running or stopped.
Describe(s) == Marked(s)

\* The provider may be started again without its SSH key: then, and only then, is a
\* drain answered by clearing the mark alone, the node as it was.
Restart ==
    /\ Recovered \/ Reseeded([s \in Slots |-> Describe(s)])
    /\ lapsed' \in {lapsed, Slots}
    /\ UNCHANGED host

CreateInstance(s) == Starts(s, "create", "serverByMachineID")

ServerByMachineID(s) ==
    /\ At(s, "serverByMachineID")
    /\ \/ Goes(s, "CreateServer", NoHost)
       \/ \E h \in Marked(s) : Goes(s, "waitStarted", h)
    /\ UNCHANGED host

CreateServer(s) ==
    /\ At(s, "CreateServer")
    /\ \E h \in Hosts : Launched(h, s, call[s].op) /\ Goes(s, "waitStarted", h)

\* Once started, a create answers, and EnsureRunning goes on to the guest.
WaitStarted(s) ==
    /\ At(s, "waitStarted")
    /\ LET h == call[s].host IN
         /\ host[h].state = "up"
         /\ IF record[s].state = "create" THEN Answers(s, h) ELSE Goes(s, "guest", h)
    /\ UNCHANGED host

ConfigureInstance(s) == Starts(s, "configure", "EnsureRunning")
DrainInstance(s) == Starts(s, "drain", "EnsureRunning")

EnsureRunning(s) ==
    /\ At(s, "EnsureRunning")
    /\ LET h == call[s].host IN
         /\ Listed(h)
         /\ host' = [host EXCEPT ![h].state = IF @ = "off" THEN "booting" ELSE @]
         /\ Goes(s, "waitStarted", h)

ApplyBootstrap(s) ==
    /\ At(s, "guest") /\ record[s].state = "configure"
    /\ Joins(call[s].host)
    /\ Goes(s, "setLabel", call[s].host)

DrainNode(s) ==
    /\ At(s, "guest") /\ record[s].state = "drain"
    /\ Leaves(call[s].host) \/ Lapses(s)
    /\ Goes(s, "clearLabel", call[s].host)

UpdateLabels(s) ==
    /\ \/ At(s, "setLabel") /\ Binds(call[s].host)
       \/ At(s, "clearLabel") /\ Unbinds(call[s].host)
    /\ Answers(s, call[s].host)

DeleteInstance(s) == Starts(s, "delete", "StopServer")

\* A running server cannot be deleted; one that is not found is deleted.
StopServer(s) ==
    /\ At(s, "StopServer")
    /\ LET h == call[s].host IN
         IF Listed(h)
         THEN host' = [host EXCEPT ![h].state = "off"] /\ Goes(s, "DeleteServerAndStorages", h)
         ELSE Answers(s, NoHost) /\ UNCHANGED host

\* Mutant: the request's answer is not looked at.
DeleteUnchecked(s) ==
    /\ At(s, "DeleteServerAndStorages")
    /\ \/ host' = [host EXCEPT ![call[s].host].state = "gone"]
       \/ UNCHANGED host
    /\ Answers(s, NoHost)

DeleteServerAndStorages(s) ==
    /\ At(s, "DeleteServerAndStorages")
    /\ host' = [host EXCEPT ![call[s].host].state = "gone"]
    /\ Answers(s, NoHost)

Init == FleetInit

Next ==
    \/ \E s \in Slots :
         \/ CreateInstance(s) \/ ServerByMachineID(s) \/ CreateServer(s) \/ WaitStarted(s)
         \/ ConfigureInstance(s) \/ DrainInstance(s) \/ EnsureRunning(s)
         \/ ApplyBootstrap(s) \/ DrainNode(s) \/ UpdateLabels(s)
         \/ DeleteInstance(s) \/ StopServer(s) \/ DeleteServerAndStorages(s)
         \/ Fails(s)
    \/ \E h \in Hosts : Appears(h) \/ Boots(h) \/ PowersOff(h) \/ Breaks(h)
    \/ Restart
=============================================================================
