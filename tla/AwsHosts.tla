------------------------------ MODULE AwsHosts ------------------------------
(***************************************************************************)
(* AWS: the operation id is the launch's client token, so a launch that is *)
(* asked for again returns the instance of the first, and is refused when  *)
(* its parameters are another slot's.  The cluster's tag goes on before    *)
(* the bootstrap and comes off before the drain.                           *)
(***************************************************************************)
EXTENDS HostFleet

\* Mutant: whatever carries the tag is listed.
DescribeTagged(s) == Marked(s)

\* A shutting-down instance is not among the states listed.
Describe(s) == {h \in Marked(s) : host[h].state # "going"}

Restart == (Recovered \/ Reseeded([s \in Slots |-> Describe(s)])) /\ UNCHANGED <<host, lapsed>>

CreateInstance(s) == Starts(s, "create", "RunInstances")

\* The instance the client token has launched, if it has.
Launch(token) == {h \in Hosts : host[h].op = token /\ host[h].state \notin {"none", "gone"}}

RunInstance(s) ==
    /\ At(s, "RunInstances")
    /\ \E h \in Hosts :
         /\ IF Launch(call[s].op) = {}
            THEN Launched(h, s, call[s].op)
            ELSE h \in Launch(call[s].op) /\ host[h].slot = s /\ UNCHANGED host
         /\ Goes(s, "waitRunning", h)

WaitRunning(s) ==
    /\ At(s, "waitRunning")
    /\ host[call[s].host].state = "up"
    /\ Answers(s, call[s].host)
    /\ UNCHANGED host

ConfigureInstance(s) == Starts(s, "configure", "CreateTags")

CreateTags(s) ==
    /\ At(s, "CreateTags")
    /\ Binds(call[s].host)
    /\ Goes(s, "runCommand", call[s].host)

DrainInstance(s) == Starts(s, "drain", "DeleteTags")

DeleteTags(s) ==
    /\ At(s, "DeleteTags")
    /\ Unbinds(call[s].host)
    /\ Goes(s, "runCommand", call[s].host)

RunCommand(s) ==
    /\ At(s, "runCommand")
    /\ \/ record[s].state = "configure" /\ Joins(call[s].host)
       \/ record[s].state = "drain" /\ Leaves(call[s].host)
    /\ Answers(s, call[s].host)

DeleteInstance(s) == Starts(s, "delete", "TerminateInstances")

\* Accepted, not done; to terminate an instance again is no error.
TerminateInstance(s) ==
    /\ At(s, "TerminateInstances")
    /\ Removed(call[s].host)
    /\ Answers(s, NoHost)

Init == FleetInit

Next ==
    \/ \E s \in Slots :
         \/ CreateInstance(s) \/ RunInstance(s) \/ WaitRunning(s)
         \/ ConfigureInstance(s) \/ CreateTags(s)
         \/ DrainInstance(s) \/ DeleteTags(s) \/ RunCommand(s)
         \/ DeleteInstance(s) \/ TerminateInstance(s)
         \/ Fails(s)
    \/ \E h \in Hosts : Appears(h) \/ Boots(h) \/ PowersOff(h) \/ Ends(h) \/ Breaks(h)
    \/ Restart
=============================================================================
