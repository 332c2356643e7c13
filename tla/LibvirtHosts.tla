--------------------------- MODULE LibvirtHosts ----------------------------
(***************************************************************************)
(* libvirt: the machine id is in the metadata the domain is defined with.  *)
(* A create looks the domain up by the name of its operation and then by   *)
(* machine id, and starts one it finds; the calls have no deadline of      *)
(* their own, so one the kit gives up goes on in an abandoned goroutine.   *)
(***************************************************************************)
EXTENDS HostFleet

\* A domain that is shut off leaves its slot Speculative, for Create to recover.
Describe(s) == {h \in Marked(s) : host[h].state = "up"}

Restart == (Recovered \/ Reseeded([s \in Slots |-> Describe(s)])) /\ UNCHANGED <<host, lapsed>>

CreateInstance(s) == Starts(s, "create", "lookupByName")

LookupByName(s) ==
    /\ At(s, "lookupByName")
    /\ IF Named(call[s].op) = {} THEN Goes(s, "findByMachineID", NoHost)
       ELSE \E h \in Named(call[s].op) : Goes(s, "powerOn", h)
    /\ UNCHANGED host

FindByMachineID(s) ==
    /\ At(s, "findByMachineID")
    /\ IF Marked(s) = {} THEN Goes(s, "define", NoHost)
       ELSE \E h \in Marked(s) : Goes(s, "powerOn", h)
    /\ UNCHANGED host

\* recoverDomain and EnsureRunning: a domain that is shut off is started.
PowerOn(s) ==
    /\ At(s, "powerOn")
    /\ LET h == call[s].host IN
         /\ host[h].state \in {"off", "up"}
         /\ host' = [host EXCEPT ![h].state = "up"]
         /\ IF record[s].state = "configure" THEN Goes(s, "bootstrap", h)
            ELSE IF record[s].state = "drain" THEN Goes(s, "drain", h)
            ELSE Answers(s, h)

DefineDomain(s) ==
    /\ At(s, "define")
    /\ \E h \in Hosts :
         /\ host[h].state = "none"
         /\ host' = [host EXCEPT ![h] = [Unused EXCEPT !.state = "off", !.slot = s, !.op = call[s].op]]
         /\ Goes(s, "start", h)

StartDomain(s) ==
    /\ At(s, "start")
    /\ host[call[s].host].state = "off"
    /\ host' = [host EXCEPT ![call[s].host].state = "up"]
    /\ Answers(s, call[s].host)

\* A domain that does not start is undefined again, unless that fails too.
RollBack(s) ==
    /\ At(s, "start")
    /\ \/ host' = [host EXCEPT ![call[s].host].state = "gone"]
       \/ UNCHANGED host
    /\ Errs(s)

\* callCtx returns at the kit's deadline and leaves its worker to itself.
Abandoned(s) ==
    /\ call[s].stage # "none" /\ record[s].state \in Operations
    /\ record' = [record EXCEPT ![s].state = "failed"]
    /\ UNCHANGED <<host, call, nextOp, durable, lapsed, restarts>>

ConfigureInstance(s) == Starts(s, "configure", "powerOn")

ApplyBootstrap(s) ==
    /\ At(s, "bootstrap")
    /\ Joins(call[s].host)
    /\ Goes(s, "bind", call[s].host)

SetMetadata(s) ==
    /\ \/ At(s, "bind") /\ Binds(call[s].host)
       \/ At(s, "unbind") /\ Unbinds(call[s].host)
    /\ Answers(s, call[s].host)

DrainInstance(s) == Starts(s, "drain", "powerOn")

DrainNode(s) ==
    /\ At(s, "drain")
    /\ Leaves(call[s].host)
    /\ Goes(s, "unbind", call[s].host)

DeleteInstance(s) == Starts(s, "delete", "destroy")

\* Not found is deleted; any other failure of the lookup is an error.
DestroyDomain(s) ==
    /\ At(s, "destroy")
    /\ LET h == call[s].host IN
         IF Listed(h)
         THEN host' = [host EXCEPT ![h].state = "off"] /\ Goes(s, "undefine", h)
         ELSE Answers(s, NoHost) /\ UNCHANGED host

UndefineDomain(s) ==
    /\ At(s, "undefine")
    /\ host' = [host EXCEPT ![call[s].host].state = "gone"]
    /\ Answers(s, NoHost)

Init == FleetInit

Next ==
    \/ \E s \in Slots :
         \/ CreateInstance(s) \/ LookupByName(s) \/ FindByMachineID(s)
         \/ PowerOn(s) \/ DefineDomain(s) \/ StartDomain(s) \/ RollBack(s)
         \/ ConfigureInstance(s) \/ ApplyBootstrap(s) \/ SetMetadata(s)
         \/ DrainInstance(s) \/ DrainNode(s)
         \/ DeleteInstance(s) \/ DestroyDomain(s) \/ UndefineDomain(s)
         \/ ~At(s, "start") /\ Fails(s)
         \/ Abandoned(s)
    \/ \E h \in Hosts : PowersOff(h) \/ Breaks(h)
    \/ Restart
=============================================================================
