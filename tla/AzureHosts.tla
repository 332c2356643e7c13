----------------------------- MODULE AzureHosts -----------------------------
(***************************************************************************)
(* Azure: the VM's name derives from the operation id and a create is a    *)
(* create-or-update of that name, its tags included, polled to completion. *)
(* A VM owns its slot, running or stopped, until it is being deleted.      *)
(***************************************************************************)
EXTENDS HostFleet

Describe(s) == {h \in Marked(s) : host[h].state # "going"}

Restart == (Recovered \/ Reseeded([s \in Slots |-> Describe(s)])) /\ UNCHANGED <<host, lapsed>>

CreateInstance(s) == Starts(s, "create", "BeginCreateOrUpdate")

\* An update of a VM of that name replaces its tags, the machine id among them.
CreateVM(s) ==
    /\ At(s, "BeginCreateOrUpdate")
    /\ \E h \in Hosts :
         /\ IF Named(call[s].op) = {}
            THEN Launched(h, s, call[s].op)
            ELSE /\ h \in Named(call[s].op) /\ host[h].state # "going"
                 /\ host' = [host EXCEPT ![h].slot = s, ![h].bound = FALSE]
         /\ Goes(s, "PollCreate", h)

PollCreate(s) ==
    /\ At(s, "PollCreate")
    /\ host[call[s].host].state \in {"up", "off"}
    /\ Answers(s, call[s].host)
    /\ UNCHANGED host

ConfigureInstance(s) == Starts(s, "configure", "StartVM")

\* A stopped VM is started, and the start polled to completion.
StartVM(s) ==
    /\ At(s, "StartVM")
    /\ host[call[s].host].state \in {"up", "off"}
    /\ host' = [host EXCEPT ![call[s].host].state = "up"]
    /\ Goes(s, "runExtension", call[s].host)

DrainInstance(s) == Starts(s, "drain", "runExtension")

ApplyBootstrap(s) ==
    /\ At(s, "runExtension") /\ record[s].state = "configure"
    /\ Joins(call[s].host)
    /\ Goes(s, "setClusterTag", call[s].host)

DrainNode(s) ==
    /\ At(s, "runExtension") /\ record[s].state = "drain"
    /\ Leaves(call[s].host)
    /\ Goes(s, "clearClusterTag", call[s].host)

SetClusterTag(s) ==
    /\ \/ At(s, "setClusterTag") /\ Binds(call[s].host)
       \/ At(s, "clearClusterTag") /\ Unbinds(call[s].host)
    /\ Answers(s, call[s].host)

DeleteInstance(s) == Starts(s, "delete", "BeginDelete")

DeleteVM(s) ==
    /\ At(s, "BeginDelete")
    /\ Removed(call[s].host)
    /\ IF Listed(call[s].host) THEN Goes(s, "PollDelete", call[s].host) ELSE Answers(s, NoHost)

PollDelete(s) ==
    /\ At(s, "PollDelete")
    /\ host[call[s].host].state = "gone"
    /\ Answers(s, NoHost)
    /\ UNCHANGED host

Init == FleetInit

Next ==
    \/ \E s \in Slots :
         \/ CreateInstance(s) \/ CreateVM(s) \/ PollCreate(s)
         \/ ConfigureInstance(s) \/ StartVM(s) \/ DrainInstance(s)
         \/ ApplyBootstrap(s) \/ DrainNode(s) \/ SetClusterTag(s)
         \/ DeleteInstance(s) \/ DeleteVM(s) \/ PollDelete(s)
         \/ Fails(s)
    \/ \E h \in Hosts : Appears(h) \/ Boots(h) \/ PowersOff(h) \/ Ends(h) \/ Breaks(h)
    \/ Restart
=============================================================================
