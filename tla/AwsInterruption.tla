-------------------------- MODULE AwsInterruption --------------------------
(***************************************************************************)
(* AWS: EventBridge puts spot notices on an SQS queue, at least once and in *)
(* any order; the interruptionPoller resolves the instance, marks its slot *)
(* and deletes the message whatever became of it.                          *)
(***************************************************************************)
EXTENDS SpotFleet

CreateInstance(s) == Launch(s)

\* An instance gone for an hour is unknown, and ending it then is an error.
TerminateInstance(s) ==
    \/ Released(s)
    \/ ReleaseFailed(s)

DeleteInstance(s) == TerminateInstance(s) \/ Cleared(s)

Reconcile == Described("ticker") \/ Refreshed("ticker", "ready")

\* A rebalance recommendation (1) or the two-minute warning (2), each once.
Notify(n) ==
    /\ NewNotice(n)
    /\ issued' = issued \union {n}
    /\ channel' = channel \union {n}
    /\ UNCHANGED <<fleetVars, poller, excused, restarts>>

Receive(n) ==
    /\ n \in channel
    /\ poller.stage = "idle"
    /\ poller' = [Idling EXCEPT !.stage = "received", !.notice = n]
    /\ UNCHANGED <<fleetVars, issued, channel, excused, restarts>>

\* machineIDFor: a failed DescribeManaged and an instance that is not among the
\* live ones give the same answer, and the notice is not marked.
Resolve ==
    /\ poller.stage = "received"
    /\ LET n == poller.notice IN
         \/ /\ Alive(n.vm)
            /\ poller' = [poller EXCEPT !.stage = "resolved", !.slot = vm[n.vm].slot]
            /\ UNCHANGED excused
         \/ /\ ~Alive(n.vm)
            /\ poller' = [poller EXCEPT !.stage = "handled"]
            /\ UNCHANGED excused
         \/ /\ poller' = [poller EXCEPT !.stage = "handled"]
            /\ excused' = excused \union {n}
    /\ UNCHANGED <<fleetVars, issued, channel, restarts>>

Mark ==
    /\ poller.stage = "resolved"
    /\ Marked(poller.slot, poller.notice)
    /\ poller' = [poller EXCEPT !.stage = "handled"]
    /\ UNCHANGED <<vm, record, scan, issued, channel, excused, restarts>>

\* A failed DeleteMessage is ignored: the queue delivers the notice again.
DeleteMessage ==
    /\ poller.stage = "handled"
    /\ poller' = Idling
    /\ channel' \in {channel, channel \ {poller.notice}}
    /\ UNCHANGED <<fleetVars, issued, excused, restarts>>

\* What is still on the queue survives; what was marked and deleted does not.
Restart ==
    /\ Rebooted
    /\ poller' = Idling
    /\ excused' = excused \union (issued \ channel)
    /\ UNCHANGED channel

Init == FleetInit /\ poller = Idling

Next ==
    \/ \E s \in Slots : CreateInstance(s) \/ DeleteInstance(s)
    \/ Reconcile
    \/ \E n \in Notices : Notify(n) \/ Receive(n)
    \/ Resolve \/ Mark \/ DeleteMessage
    \/ \E i \in VMs : Reclaim(i, "gone")
    \/ Restart

Polling == Resolve \/ Mark \/ DeleteMessage \/ \E n \in Notices : Receive(n)

\* A DeleteMessage that the queue carries out.
Answer == DeleteMessage /\ poller.notice \notin channel'
=============================================================================
