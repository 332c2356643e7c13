--------------------------- MODULE GcpPreemption ---------------------------
(***************************************************************************)
(* GCP: no notice is sent.  A preempted spot VM stays behind, stopped, and *)
(* each tick of the reconciler lists those after the kit's Reconcile.      *)
(***************************************************************************)
EXTENDS SpotFleet

VARIABLE preempted   \* the VMs observePreemptions has listed and not yet marked

CreateInstance(s) == Launch(s) /\ UNCHANGED preempted

\* An instance that does not exist counts as deleted.
DeleteVM(s) == Released(s) \/ ReleaseFailed(s)

DeleteInstance(s) == (DeleteVM(s) \/ Cleared(s)) /\ UNCHANGED preempted

Reconcile ==
    /\ Described("ticker") \/ Refreshed("ticker", "observe")
    /\ UNCHANGED preempted

\* A Reconcile that fails is logged, and the tick goes on; a failed list ends it.
ReconcileFails ==
    /\ scan["ticker"].stage = "ready"
    /\ scan' = [scan EXCEPT !["ticker"].stage = "observe"]
    /\ UNCHANGED <<vm, record, observed, noticeVars, restarts, preempted>>

ListFails ==
    /\ scan["ticker"].stage = "observe"
    /\ scan' = [scan EXCEPT !["ticker"].stage = "ready"]
    /\ UNCHANGED <<vm, record, observed, noticeVars, restarts, preempted>>

\* observePreemptions: one DescribeManaged, then a mark per preempted VM.
ListPreempted ==
    /\ scan["ticker"].stage = "observe"
    /\ preempted' = {i \in VMs : vm[i].state = "stopped"}
    /\ scan' = [scan EXCEPT !["ticker"].stage = "marking"]
    /\ UNCHANGED <<vm, record, observed, noticeVars, restarts>>

MarkPreempted(i) ==
    /\ i \in preempted
    /\ Marked(vm[i].slot, [vm |-> i, risk |-> 2])
    /\ preempted' = preempted \ {i}
    /\ UNCHANGED <<vm, record, scan, issued, channel, poller, excused, restarts>>

TickEnds ==
    /\ scan["ticker"].stage = "marking"
    /\ preempted = {}
    /\ scan' = [scan EXCEPT !["ticker"].stage = "ready"]
    /\ UNCHANGED <<vm, record, observed, noticeVars, restarts, preempted>>

Restart ==
    /\ Rebooted
    /\ preempted' = {}
    /\ UNCHANGED <<channel, poller, excused>>

Init == FleetInit /\ poller = Idling /\ preempted = {}

Next ==
    \/ \E s \in Slots : CreateInstance(s) \/ DeleteInstance(s)
    \/ Reconcile \/ ReconcileFails \/ ListPreempted \/ ListFails \/ TickEnds
    \/ \E i \in VMs : MarkPreempted(i)
    \/ \E i \in VMs : Reclaim(i, "stopped") /\ UNCHANGED preempted
    \/ Restart

\* The one goroutine of runReconciler.
Ticking ==
    \/ Reconcile \/ ReconcileFails \/ ListPreempted \/ ListFails \/ TickEnds
    \/ \E i \in VMs : MarkPreempted(i)
=============================================================================
