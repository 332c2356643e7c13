----------------------------- MODULE OvhHosts ------------------------------
(***************************************************************************)
(* OVHcloud: the machine id is in the metadata the server is created with, *)
(* and a create brings up a server that has it rather than launch another. *)
(* A lookup that fails ends the create.  Nova shows a server as ACTIVE     *)
(* until its deletion is done.                                             *)
(***************************************************************************)
EXTENDS HostFleet

\* isRunningStatus: a server that is not ACTIVE or BUILD is not advertised.
IsRunning(h) == host[h].state \in {"booting", "up", "going"}

Describe(s) == {h \in Marked(s) : IsRunning(h)}

\* The provider may be started again without its SSH key: then, and only then, is a
\* drain answered by clearing the mark alone, the node as it was.
Restart ==
    /\ Recovered \/ Reseeded([s \in Slots |-> Describe(s)])
    /\ lapsed' \in {lapsed, Slots}
    /\ UNCHANGED host

CreateInstance(s) == Starts(s, "create", "serverByMachineID")

\* Whatever its power state, a running one before the others.
ServerByMachineID(s) ==
    /\ At(s, "serverByMachineID")
    /\ IF Marked(s) = {} THEN Goes(s, "servers.Create", NoHost)
       ELSE \E h \in (IF Describe(s) = {} THEN Marked(s) ELSE Describe(s)) :
              Goes(s, "ensureActive", h)
    /\ UNCHANGED host

\* ensureActive, and ensureRunning for a machine the kit tracks: what is stopped is
\* started, what is in ERROR is replaced by a create and an error to the others.
EnsureActive(s) ==
    /\ At(s, "ensureActive")
    /\ LET h == call[s].host IN
         \/ /\ host[h].state \in {"up", "booting", "going"}
            /\ Goes(s, "waitActive", h)
            /\ UNCHANGED host
         \/ /\ host[h].state = "off"
            /\ host' = [host EXCEPT ![h].state = "booting"]
            /\ Goes(s, "waitActive", h)
         \/ /\ host[h].state = "error" /\ record[s].state = "create"
            /\ host' \in {host, [host EXCEPT ![h].state = "going"]}
            /\ Goes(s, "servers.Create", NoHost)

\* DrainNode without an SSH key does not ask for the server's power state.
DrainUnkeyed(s) ==
    /\ At(s, "ensureActive") /\ record[s].state = "drain"
    /\ Lapses(s)
    /\ Goes(s, "clearMetadatum", call[s].host)

\* An error that hides a server that was created is repaired by its name.
CreateServer(s) ==
    /\ At(s, "servers.Create")
    /\ \E h \in Hosts : Launched(h, s, call[s].op) /\ Goes(s, "waitActive", h)

WaitActive(s) ==
    /\ At(s, "waitActive")
    /\ LET h == call[s].host IN
         /\ host[h].state \in {"up", "going"}
         /\ IF record[s].state = "create" THEN Answers(s, h) ELSE Goes(s, "guest", h)
    /\ UNCHANGED host

\* A server that comes up in ERROR is deleted, if that can be done.
DeleteErrored(s) ==
    /\ At(s, "waitActive")
    /\ host[call[s].host].state = "error"
    /\ host' \in {host, [host EXCEPT ![call[s].host].state = "going"]}
    /\ Errs(s)

ConfigureInstance(s) == Starts(s, "configure", "ensureActive")
DrainInstance(s) == Starts(s, "drain", "ensureActive")

ApplyBootstrap(s) ==
    /\ At(s, "guest") /\ record[s].state = "configure"
    /\ Joins(call[s].host)
    /\ Goes(s, "setMetadatum", call[s].host)

DrainNode(s) ==
    /\ At(s, "guest") /\ record[s].state = "drain"
    /\ Leaves(call[s].host)
    /\ Goes(s, "clearMetadatum", call[s].host)

SetMetadatum(s) ==
    /\ At(s, "setMetadatum")
    /\ Binds(call[s].host)
    /\ Answers(s, call[s].host)

ClearMetadatum(s) ==
    /\ At(s, "clearMetadatum")
    /\ Unbinds(call[s].host)
    /\ Answers(s, call[s].host)

DeleteInstance(s) == Starts(s, "delete", "DeleteServer")

DeleteServer(s) ==
    /\ At(s, "DeleteServer")
    /\ Removed(call[s].host)
    /\ Answers(s, NoHost)

Init == FleetInit

Next ==
    \/ \E s \in Slots :
         \/ CreateInstance(s) \/ ServerByMachineID(s) \/ EnsureActive(s)
         \/ CreateServer(s) \/ WaitActive(s) \/ DeleteErrored(s)
         \/ ConfigureInstance(s) \/ ApplyBootstrap(s) \/ SetMetadatum(s)
         \/ DrainInstance(s) \/ DrainNode(s) \/ DrainUnkeyed(s) \/ ClearMetadatum(s)
         \/ DeleteInstance(s) \/ DeleteServer(s)
         \/ Fails(s)
    \/ \E h \in Hosts :
         Appears(h) \/ Boots(h) \/ Errors(h) \/ PowersOff(h) \/ Ends(h) \/ Breaks(h)
    \/ Restart
=============================================================================
