--------------------------- MODULE OciPreemption ---------------------------
(***************************************************************************)
(* OCI: preemption events arrive on a stream read through a group cursor   *)
(* that commits as it reads.  An event usually carries the instance's      *)
(* tags; without them the preemptionPoller looks the instance up.          *)
(*                                                                         *)
(* Stages of the poller, beside SpotFleet's: "starting" before the group   *)
(* exists, "off" when run returned before it did; "resuming" and "stopped" *)
(* are the same two once the group exists.                                 *)
(***************************************************************************)
EXTENDS SpotFleet

Grouped == poller.stage \notin {"starting", "off"}

CreateInstance(s) == Launch(s)

\* An instance that is gone or going counts as terminated.
TerminateInstance(s) == Released(s) \/ ReleaseFailed(s)

DeleteInstance(s) == TerminateInstance(s) \/ Cleared(s)

Reconcile == Described("ticker") \/ Refreshed("ticker", "ready")

\* The group is created at LATEST: an event older than the group is not read, ever.
Notify(n) ==
    /\ NewNotice(n) /\ n.risk = 2
    /\ issued' = issued \union {n}
    /\ \/ Grouped /\ channel' = channel \union {n} /\ UNCHANGED excused
       \/ ~Grouped /\ excused' = excused \union {n} /\ UNCHANGED channel
    /\ UNCHANGED <<fleetVars, poller, restarts>>

\* Commit-on-get: what was read is not read again.
GetMessages(n) ==
    /\ n \in channel
    /\ poller.stage = "idle"
    /\ poller' = [Idling EXCEPT !.stage = "received", !.notice = n]
    /\ channel' = channel \ {n}
    /\ UNCHANGED <<fleetVars, issued, excused, restarts>>

\* The answer is lost behind the commit: the poller reports an error and reads on
\* after the event.
GetMessagesLost(n) ==
    /\ n \in channel
    /\ poller.stage = "idle"
    /\ channel' = channel \ {n}
    /\ excused' = excused \union {n}
    /\ UNCHANGED <<fleetVars, poller, issued, restarts>>

\* With the tag no lookup is made, alive or not; machineIDFor may fail.
Resolve ==
    /\ poller.stage = "received"
    /\ LET n == poller.notice IN
         \/ /\ poller' = [poller EXCEPT !.stage = "resolved", !.slot = vm[n.vm].slot]
            /\ UNCHANGED excused
         \/ /\ poller' = Idling
            /\ excused' = IF Alive(n.vm) THEN excused \union {n} ELSE excused
    /\ UNCHANGED <<fleetVars, issued, channel, restarts>>

Mark ==
    /\ poller.stage = "resolved"
    /\ Marked(poller.slot, poller.notice)
    /\ poller' = Idling
    /\ UNCHANGED <<vm, record, scan, issued, channel, excused, restarts>>

\* groupCursor fails at the start of run, which then returns: this process never
\* watches the stream.
CursorFails ==
    /\ poller.stage \in {"starting", "resuming"}
    /\ poller' = [Idling EXCEPT !.stage = IF Grouped THEN "stopped" ELSE "off"]
    /\ UNCHANGED <<fleetVars, issued, channel, excused, restarts>>

\* An existing group goes on behind what it committed last.
CursorCreated ==
    /\ poller.stage \in {"starting", "resuming"}
    /\ poller' = Idling
    /\ UNCHANGED <<fleetVars, issued, channel, excused, restarts>>

Restart ==
    /\ Rebooted
    /\ poller' = [Idling EXCEPT !.stage = IF Grouped THEN "resuming" ELSE "starting"]
    /\ excused' = excused \union (issued \ channel)
    /\ UNCHANGED channel

Init == FleetInit /\ poller = [Idling EXCEPT !.stage = "starting"]

Next ==
    \/ \E s \in Slots : CreateInstance(s) \/ DeleteInstance(s)
    \/ Reconcile
    \/ \E n \in Notices : Notify(n) \/ GetMessages(n) \/ GetMessagesLost(n)
    \/ Resolve \/ Mark \/ CursorFails \/ CursorCreated
    \/ \E i \in VMs : Reclaim(i, "gone")
    \/ Restart

Polling == Resolve \/ Mark \/ CursorCreated \/ \E n \in Notices : GetMessages(n)
=============================================================================
