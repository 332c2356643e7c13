--------------------------- MODULE LatitudeHosts ---------------------------
(***************************************************************************)
(* Latitude: a server cannot be labelled.  Which machine a server is for   *)
(* is in an index the provider keeps beside the state file, and in the     *)
(* hostname, a hash of the machine id, by which a create finds a server    *)
(* the index does not have.  An index that cannot be saved is only logged. *)
(***************************************************************************)
EXTENDS HostFleet

Known == {h \in Hosts : host[h].known}

\* The index takes these servers in memory, and may or may not reach its file.
Keeps(servers, hosts) ==
    \E written \in BOOLEAN :
        host' = [h \in Hosts |-> [hosts[h] EXCEPT !.known = h \in servers,
                                                  !.saved = IF written THEN h \in servers ELSE @]]

\* A machine has one entry: recording a server drops the one before it.
RecordServer(s, server) ==
    Keeps({h \in Known : host[h].slot # s} \union {server}, host)

\* Describe, and a restart: the index is what its file holds.
Describe(s) == {h \in Marked(s) : host[h].saved}

\* The provider may be started again without its SSH key: then, and only then, is a
\* drain answered by clearing the mark alone, the node as it was.
Restart ==
    /\ lapsed' \in {lapsed, Slots}
    /\ host' = [h \in Hosts |-> [host[h] EXCEPT !.known = host[h].saved,
                                                !.bound = @ /\ host[h].saved]]
    /\ Recovered \/ Reseeded([s \in Slots |-> Describe(s)])

CreateInstance(s) == Starts(s, "create", "machineByID")

\* A server the index has is used if the cloud still answers for it.
MachineByID(s) ==
    /\ At(s, "machineByID")
    /\ \/ Goes(s, "serverByHostname", NoHost)
       \/ \E h \in Known \intersect Marked(s) : Goes(s, "waitPoweredOn", h)
    /\ UNCHANGED host

\* A lookup that fails is taken for a server that is not there.
ServerByHostname(s) ==
    /\ At(s, "serverByHostname")
    /\ \/ Goes(s, "Servers.Create", NoHost) /\ UNCHANGED host
       \/ \E h \in Marked(s) : RecordServer(s, h) /\ Goes(s, "waitPoweredOn", h)

DeployServer(s) ==
    /\ At(s, "Servers.Create")
    /\ \E h \in Hosts : Launched(h, s, call[s].op) /\ Goes(s, "recordServer", h)

\* A deploy answered with an error looks for the server by its hostname once more.
DeployErrored(s) ==
    /\ At(s, "Servers.Create")
    /\ \E h \in Marked(s) : RecordServer(s, h) /\ Goes(s, "waitPoweredOn", h)

RecordDeployed(s) ==
    /\ At(s, "recordServer")
    /\ RecordServer(s, call[s].host)
    /\ Goes(s, "waitPoweredOn", call[s].host)

WaitPoweredOn(s) ==
    /\ At(s, "waitPoweredOn")
    /\ LET h == call[s].host IN
         /\ host[h].state = "up"
         /\ IF record[s].state = "create" THEN Answers(s, h) ELSE Goes(s, "guest", h)
    /\ UNCHANGED host

ConfigureInstance(s) == Starts(s, "configure", "ensureRunning")
DrainInstance(s) == Starts(s, "drain", "ensureRunning")

EnsureRunning(s) ==
    /\ At(s, "ensureRunning")
    /\ LET h == call[s].host IN
         /\ Listed(h)
         /\ host' = [host EXCEPT ![h].state = IF @ = "off" THEN "booting" ELSE @]
         /\ Goes(s, "waitPoweredOn", h)

ApplyBootstrap(s) ==
    /\ At(s, "guest") /\ record[s].state = "configure"
    /\ Joins(call[s].host)
    /\ Goes(s, "setCluster", call[s].host)

DrainNode(s) ==
    /\ At(s, "guest") /\ record[s].state = "drain"
    /\ Leaves(call[s].host) \/ Lapses(s)
    /\ Goes(s, "setCluster", call[s].host)

\* The binding is kept in the entry; a server without one has nowhere to keep it.
SetCluster(s) ==
    /\ At(s, "setCluster")
    /\ LET h == call[s].host IN
         /\ IF host[h].known
            THEN Keeps(Known, [host EXCEPT ![h].bound = record[s].state = "configure"])
            ELSE UNCHANGED host
         /\ Answers(s, h)

DeleteInstance(s) == Starts(s, "delete", "DeleteServer")

\* Deprovisioning is accepted or the server is not found, and the entry goes.
DeleteServer(s) ==
    /\ At(s, "DeleteServer")
    /\ LET h == call[s].host IN
         Keeps(Known \ {h}, [host EXCEPT ![h].state = IF Listed(h) THEN "going" ELSE @,
                                         ![h].bound = FALSE])
    /\ Answers(s, NoHost)

Init == FleetInit

Next ==
    \/ \E s \in Slots :
         \/ CreateInstance(s) \/ MachineByID(s) \/ ServerByHostname(s)
         \/ DeployServer(s) \/ DeployErrored(s) \/ RecordDeployed(s) \/ WaitPoweredOn(s)
         \/ ConfigureInstance(s) \/ DrainInstance(s) \/ EnsureRunning(s)
         \/ ApplyBootstrap(s) \/ DrainNode(s) \/ SetCluster(s)
         \/ DeleteInstance(s) \/ DeleteServer(s)
         \/ Fails(s)
    \/ \E h \in Hosts :
         Appears(h) \/ Boots(h) \/ Errors(h) \/ PowersOff(h) \/ Ends(h) \/ Breaks(h)
    \/ Restart
=============================================================================
