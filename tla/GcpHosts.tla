------------------------------ MODULE GcpHosts ------------------------------
(***************************************************************************)
(* GCP: the instance's name derives from the operation id, and its machine *)
(* id comes with the insert.  A name that is taken is taken to be this     *)
(* create's own earlier insert.  A host that does not run is nobody's.     *)
(***************************************************************************)
EXTENDS HostFleet

IsRunning(h) == host[h].state \in {"booting", "up"}

Describe(s) == {h \in Marked(s) : IsRunning(h)}

Restart == (Recovered \/ Reseeded([s \in Slots |-> Describe(s)])) /\ UNCHANGED <<host, lapsed>>

CreateInstance(s) == Starts(s, "create", "Insert")

Insert(s) ==
    /\ At(s, "Insert")
    /\ \E h \in Hosts :
         /\ IF Named(call[s].op) = {}
            THEN Launched(h, s, call[s].op)
            ELSE h \in Named(call[s].op) /\ UNCHANGED host
         /\ Goes(s, "waitRunning", h)

WaitRunning(s) ==
    /\ At(s, "waitRunning")
    /\ host[call[s].host].state = "up"
    /\ Answers(s, call[s].host)
    /\ UNCHANGED host

ConfigureInstance(s) == Starts(s, "configure", "runSSH")
DrainInstance(s) == Starts(s, "drain", "runSSH")

\* The binding is recorded when the hook has run, and cleared when the drain has.
ApplyBootstrap(s) ==
    /\ At(s, "runSSH") /\ record[s].state = "configure"
    /\ Joins(call[s].host)
    /\ Goes(s, "recordCluster", call[s].host)

DrainNode(s) ==
    /\ At(s, "runSSH") /\ record[s].state = "drain"
    /\ Leaves(call[s].host)
    /\ Goes(s, "clearCluster", call[s].host)

MutateMetadata(s) ==
    /\ \/ At(s, "recordCluster") /\ Binds(call[s].host)
       \/ At(s, "clearCluster") /\ Unbinds(call[s].host)
    /\ Answers(s, call[s].host)

DeleteInstance(s) == Starts(s, "delete", "Delete")

DeleteHost(s) ==
    /\ At(s, "Delete")
    /\ Removed(call[s].host)
    /\ IF Listed(call[s].host) THEN Goes(s, "waitDelete", call[s].host) ELSE Answers(s, NoHost)

WaitDelete(s) ==
    /\ At(s, "waitDelete")
    /\ host[call[s].host].state = "gone"
    /\ Answers(s, NoHost)
    /\ UNCHANGED host

Init == FleetInit

Next ==
    \/ \E s \in Slots :
         \/ CreateInstance(s) \/ Insert(s) \/ WaitRunning(s)
         \/ ConfigureInstance(s) \/ DrainInstance(s)
         \/ ApplyBootstrap(s) \/ DrainNode(s) \/ MutateMetadata(s)
         \/ DeleteInstance(s) \/ DeleteHost(s) \/ WaitDelete(s)
         \/ Fails(s)
    \/ \E h \in Hosts : Appears(h) \/ Boots(h) \/ PowersOff(h) \/ Ends(h) \/ Breaks(h)
    \/ Restart
=============================================================================
