------------------------------ MODULE OciHosts ------------------------------
(***************************************************************************)
(* Oracle Cloud: the operation id is the launch's retry token, so a launch *)
(* that is asked for again returns the instance of the first.  A stopped   *)
(* instance is powered on before a bootstrap, and not before a drain.      *)
(***************************************************************************)
EXTENDS HostFleet

\* A terminating instance is not among those listed.
Describe(s) == {h \in Marked(s) : host[h].state # "going"}

Restart == (Recovered \/ Reseeded([s \in Slots |-> Describe(s)])) /\ UNCHANGED <<host, lapsed>>

CreateInstance(s) == Starts(s, "create", "LaunchInstance")

\* The instance the retry token has launched, if it has.
Launch(token) == {h \in Hosts : host[h].op = token /\ host[h].state \notin {"none", "gone"}}

LaunchInstance(s) ==
    /\ At(s, "LaunchInstance")
    /\ \E h \in Hosts :
         /\ IF Launch(call[s].op) = {}
            THEN Launched(h, s, call[s].op)
            ELSE h \in Launch(call[s].op) /\ host[h].slot = s /\ UNCHANGED host
         /\ Goes(s, "waitRunning", h)

WaitRunning(s) ==
    /\ At(s, "waitRunning")
    /\ host[call[s].host].state = "up"
    /\ Answers(s, call[s].host)
    /\ UNCHANGED host

ConfigureInstance(s) == Starts(s, "configure", "EnsureRunning")
DrainInstance(s) == Starts(s, "drain", "runCommand")

\* START is sent to a stopped instance; the rest is waiting for it to run.
Start(s) ==
    /\ At(s, "EnsureRunning")
    /\ host[call[s].host].state = "off"
    /\ host' = [host EXCEPT ![call[s].host].state = "booting"]
    /\ Goes(s, "EnsureRunning", call[s].host)

EnsureRunning(s) ==
    /\ At(s, "EnsureRunning")
    /\ host[call[s].host].state = "up"
    /\ Goes(s, "runCommand", call[s].host)
    /\ UNCHANGED host

ApplyBootstrap(s) ==
    /\ At(s, "runCommand") /\ record[s].state = "configure"
    /\ Joins(call[s].host)
    /\ Goes(s, "setTag", call[s].host)

DrainNode(s) ==
    /\ At(s, "runCommand") /\ record[s].state = "drain"
    /\ Leaves(call[s].host)
    /\ Goes(s, "clearTag", call[s].host)

UpdateTags(s) ==
    /\ \/ At(s, "setTag") /\ Binds(call[s].host)
       \/ At(s, "clearTag") /\ Unbinds(call[s].host)
    /\ Answers(s, call[s].host)

DeleteInstance(s) == Starts(s, "delete", "TerminateInstance")

TerminateInstance(s) ==
    /\ At(s, "TerminateInstance")
    /\ Removed(call[s].host)
    /\ Answers(s, NoHost)

Init == FleetInit

Next ==
    \/ \E s \in Slots :
         \/ CreateInstance(s) \/ LaunchInstance(s) \/ WaitRunning(s)
         \/ ConfigureInstance(s) \/ DrainInstance(s) \/ Start(s) \/ EnsureRunning(s)
         \/ ApplyBootstrap(s) \/ DrainNode(s) \/ UpdateTags(s)
         \/ DeleteInstance(s) \/ TerminateInstance(s)
         \/ Fails(s)
    \/ \E h \in Hosts : Appears(h) \/ Boots(h) \/ PowersOff(h) \/ Ends(h) \/ Breaks(h)
    \/ Restart
=============================================================================
