--------------------------- MODULE AzureEviction ---------------------------
(***************************************************************************)
(* Azure: the agent on a VM under eviction posts its machine id to the     *)
(* evictionReporter every few seconds; each report marks the slot and      *)
(* starts a Reconcile beside the periodic one.                             *)
(***************************************************************************)
EXTENDS SpotFleet

CreateInstance(s) == Launch(s)

\* DeleteVM: a VM already evicted counts as deleted.
DeleteVM(s) == Released(s) \/ ReleaseFailed(s)

DeleteInstance(s) == DeleteVM(s) \/ Cleared(s)

Reconcile == Described("ticker") \/ Refreshed("ticker", "ready")

\* The goroutine propagate starts; bound: one at a time.
Propagate == Described("post") \/ Refreshed("post", "off")

\* The VM's scheduled events list the eviction as long as the VM lives.
Notify(n) ==
    /\ NewNotice(n) /\ n.risk = 2
    /\ issued' = issued \union {n}
    /\ UNCHANGED <<fleetVars, channel, poller, excused, restarts>>

Post(n) ==
    /\ n \in issued \ channel
    /\ Alive(n.vm)
    /\ channel' = channel \union {n}
    /\ UNCHANGED <<fleetVars, issued, poller, excused, restarts>>

\* The agent gives up on a post that fails (curl ... || true) and posts anew.
LosePost(n) ==
    /\ n \in channel
    /\ channel' = channel \ {n}
    /\ UNCHANGED <<fleetVars, issued, poller, excused, restarts>>

\* evictionReporter.handle: the report names the slot, nobody checks that the VM
\* it came from is still there.
Handle(n) ==
    /\ n \in channel
    /\ scan["post"].stage = "off"
    /\ Marked(vm[n.vm].slot, n)
    /\ scan' = [scan EXCEPT !["post"].stage = "ready"]
    /\ channel' = channel \ {n}
    /\ UNCHANGED <<vm, record, issued, poller, excused, restarts>>

Restart == Rebooted /\ UNCHANGED <<channel, poller, excused>>

Init == FleetInit /\ poller = Idling

Next ==
    \/ \E s \in Slots : CreateInstance(s) \/ DeleteInstance(s)
    \/ Reconcile \/ Propagate
    \/ \E n \in Notices : Notify(n) \/ Post(n) \/ LosePost(n) \/ Handle(n)
    \/ \E i \in VMs : Reclaim(i, "gone")
    \/ Restart

Polling == Propagate

Sending == \E n \in Notices : Post(n)

Answer == \E n \in Notices : Handle(n)
=============================================================================
