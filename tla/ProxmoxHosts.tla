---------------------------- MODULE ProxmoxHosts ----------------------------
(***************************************************************************)
(* Proxmox: the machine id is in the description a VM is cloned with.      *)
(* Listing the VMs does not give it: it is read from each VM's config, and *)
(* a config that cannot be read makes the VM look like nobody's.           *)
(***************************************************************************)
EXTENDS HostFleet

\* Describe: a VM owns its slot, running or stopped.
Describe(s) == Marked(s)
Unread(s) == {}

Restart ==
    /\ Recovered \/ Reseeded([s \in Slots |-> Describe(s)]) \/ Reseeded([s \in Slots |-> Unread(s)])
    /\ UNCHANGED <<host, lapsed>>

CreateInstance(s) == Starts(s, "create", "findByMachineID")

FindByMachineID(s) ==
    /\ At(s, "findByMachineID")
    /\ \/ Goes(s, "Clone", NoHost)
       \/ \E h \in Marked(s) : Goes(s, "EnsureRunning", h)
    /\ UNCHANGED host

\* The name and the description come with the clone request; a clone is stopped.
CloneVM(s) ==
    /\ At(s, "Clone")
    /\ \E h \in Hosts : Launched(h, s, call[s].op) /\ Goes(s, "configure", h)

Cloned(h) == Turns(h, "pending", "off")

\* The tags and the size are set when the clone task is done.
Configure(s) ==
    /\ At(s, "configure")
    /\ host[call[s].host].state = "off"
    /\ Goes(s, "EnsureRunning", call[s].host)
    /\ UNCHANGED host

ConfigureInstance(s) == Starts(s, "configure", "EnsureRunning")
DrainInstance(s) == Starts(s, "drain", "EnsureRunning")

\* A stopped VM is started, and the guest agent waited for.
EnsureRunning(s) ==
    /\ At(s, "EnsureRunning")
    /\ LET h == call[s].host IN
         /\ host[h].state \in {"off", "up"}
         /\ host' = [host EXCEPT ![h].state = "up"]
         /\ IF record[s].state = "create" THEN Answers(s, h) ELSE Goes(s, "guest", h)

\* The hook runs in the guest; the binding is nowhere but in the kit's record.
ApplyBootstrap(s) ==
    /\ At(s, "guest") /\ record[s].state = "configure"
    /\ Joins(call[s].host)
    /\ Answers(s, call[s].host)

\* The script ends in "|| true": a drain that failed is answered as one that did not.
DrainNode(s) ==
    /\ At(s, "guest") /\ record[s].state = "drain"
    /\ \/ Leaves(call[s].host)
       \/ host[call[s].host].state = "up" /\ UNCHANGED host
    /\ Answers(s, call[s].host)

DeleteInstance(s) == Starts(s, "delete", "Stop")

\* A VM that is not among the cluster's is gone, and its deletion done.
StopVM(s) ==
    /\ At(s, "Stop")
    /\ LET h == call[s].host IN
         IF Listed(h)
         THEN host' = [host EXCEPT ![h].state = "off"] /\ Goes(s, "Delete", h)
         ELSE Answers(s, NoHost) /\ UNCHANGED host

DestroyVM(s) ==
    /\ At(s, "Delete")
    /\ host[call[s].host].state \in {"off", "gone"}
    /\ host' = [host EXCEPT ![call[s].host].state = "gone"]
    /\ Answers(s, NoHost)

Init == FleetInit

Next ==
    \/ \E s \in Slots :
         \/ CreateInstance(s) \/ FindByMachineID(s) \/ CloneVM(s) \/ Configure(s)
         \/ ConfigureInstance(s) \/ DrainInstance(s) \/ EnsureRunning(s)
         \/ ApplyBootstrap(s) \/ DrainNode(s)
         \/ DeleteInstance(s) \/ StopVM(s) \/ DestroyVM(s)
         \/ Fails(s)
    \/ \E h \in Hosts : Cloned(h) \/ PowersOff(h) \/ Breaks(h)
    \/ Restart
=============================================================================
