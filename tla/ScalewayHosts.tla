--------------------------- MODULE ScalewayHosts ----------------------------
(***************************************************************************)
(* Scaleway Instances: the server's name derives from the operation id and *)
(* its tags come with the create; it is created stopped.  A create looks   *)
(* for the name first.  Every reconcile reaps the servers that share a     *)
(* machine id but for the lowest server id, and a delete sweeps them too.  *)
(***************************************************************************)
EXTENDS HostFleet

Lowest(H) == {h \in H : \A k \in H : host[h].id <= host[k].id}

\* Any tagged server owns its slot, running or not, once the reaper has chosen.
Describe(s) == Lowest(Marked(s))

\* What a reaper had in hand is forgotten with its process.
Restart ==
    /\ Recovered \/ Reseeded([s \in Slots |-> Describe(s)])
    /\ host' = [h \in Hosts |-> [host[h] EXCEPT !.reap = "no"]]
    /\ UNCHANGED lapsed

CreateInstance(s) == Starts(s, "create", "serverByName")

\* A listing that fails finds nothing.
ServerByName(s) ==
    /\ At(s, "serverByName")
    /\ \/ Goes(s, "CreateServer", NoHost)
       \/ \E h \in Lowest(Named(call[s].op)) : Goes(s, "ensureRunning", h)
    /\ UNCHANGED host

\* Names are not unique, and server ids come in no order.
CreateServer(s) ==
    /\ At(s, "CreateServer")
    /\ \E h \in Hosts, id \in 1..Cardinality(Hosts) :
         /\ host[h].state = "none"
         /\ \A k \in Hosts : host[k].id # id
         /\ host' = [host EXCEPT ![h] = [Unused EXCEPT !.state = "pending", !.slot = s,
                                                       !.op = call[s].op, !.id = id,
                                                       !.life = restarts + 1]]
         /\ Goes(s, "ensureRunning", h)

CreatedStopped(h) == Turns(h, "pending", "off")

\* The user data is set and the server powered on, unless it runs already.
EnsureRunning(s) ==
    /\ At(s, "ensureRunning")
    /\ LET h == call[s].host IN
         /\ Listed(h)
         /\ host' = [host EXCEPT ![h].state = IF @ = "off" THEN "booting" ELSE @]
         /\ Goes(s, "waitRunning", h)

WaitRunning(s) ==
    /\ At(s, "waitRunning")
    /\ LET h == call[s].host IN
         /\ host[h].state = "up"
         /\ IF record[s].state = "create" THEN Answers(s, h) ELSE Goes(s, "vault.Enqueue", h)
    /\ UNCHANGED host

ConfigureInstance(s) == Starts(s, "configure", "ensureRunning")
DrainInstance(s) == Starts(s, "drain", "ensureRunning")

\* The command is run by an agent of the machine id the server is tagged with.
Agents(h) == {k \in Marked(host[h].slot) : host[k].state = "up"}

ApplyBootstrap(s) ==
    /\ At(s, "vault.Enqueue") /\ record[s].state = "configure"
    /\ \E k \in Agents(call[s].host) : Joins(k)
    /\ Goes(s, "setClusterTag", call[s].host)

DrainNode(s) ==
    /\ At(s, "vault.Enqueue") /\ record[s].state = "drain"
    /\ \E k \in Agents(call[s].host) : Leaves(k)
    /\ Goes(s, "clearClusterTag", call[s].host)

UpdateTags(s) ==
    /\ \/ At(s, "setClusterTag") /\ Binds(call[s].host)
       \/ At(s, "clearClusterTag") /\ Unbinds(call[s].host)
    /\ Answers(s, call[s].host)

DeleteInstance(s) == Starts(s, "delete", "Poweroff")

\* A server has to be stopped to be deleted; one that is not found is deleted.
Poweroff(s) ==
    /\ At(s, "Poweroff")
    /\ LET h == call[s].host IN
         IF Listed(h)
         THEN host' = [host EXCEPT ![h].state = "off"] /\ Goes(s, "DeleteServer", h)
         ELSE Goes(s, "sweep", h) /\ UNCHANGED host

DeleteServer(s) ==
    /\ At(s, "DeleteServer")
    /\ host' = [host EXCEPT ![call[s].host].state = "gone"]
    /\ Goes(s, "sweep", call[s].host)

\* The machine's other servers go as well, as far as that succeeds.
Sweep(s) ==
    /\ At(s, "sweep")
    /\ \E swept \in SUBSET (Marked(s) \ {call[s].host}) :
         host' = [h \in Hosts |-> IF h \in swept THEN [host[h] EXCEPT !.state = "gone"] ELSE host[h]]
    /\ Answers(s, NoHost)

CreateInFlight(s) == call[s].stage # "none" /\ record[s].state = "create"

\* reapDuplicateServers works on the list DescribeManaged returned, of which the
\* servers that have their machine id for themselves are none of its business.
ReapList ==
    /\ \A h \in Hosts : host[h].reap = "no"
    /\ \E s \in Slots : Cardinality(Marked(s)) > 1
    /\ host' = [h \in Hosts |->
                  IF \E s \in Slots : h \in Marked(s) /\ Cardinality(Marked(s)) > 1
                  THEN [host[h] EXCEPT !.reap = "listed"] ELSE host[h]]
    /\ UNCHANGED <<record, call, nextOp, durable, lapsed, restarts>>

Duplicates(s) == {h \in Hosts : host[h].slot = s /\ host[h].reap = "listed"}
Condemned(s, hosts) ==
    host' = [h \in Hosts |->
              IF h \in Duplicates(s)
              THEN [host[h] EXCEPT !.reap = IF h \in hosts THEN "doomed" ELSE "no"]
              ELSE host[h]]

\* Mutant: the reaper does not ask whether a create is in flight.
ReapUnasked(s) ==
    /\ Duplicates(s) # {} /\ \A h \in Hosts : host[h].reap # "doomed"
    /\ Condemned(s, Duplicates(s) \ Lowest(Duplicates(s)))
    /\ UNCHANGED <<record, call, nextOp, durable, lapsed, restarts>>

\* One machine id after the other: no create of it may be in flight now, and all but
\* the lowest of the servers that were listed then are to go.
ReapAsk(s) ==
    /\ Duplicates(s) # {} /\ \A h \in Hosts : host[h].reap # "doomed"
    /\ Condemned(s, IF CreateInFlight(s) THEN {} ELSE Duplicates(s) \ Lowest(Duplicates(s)))
    /\ UNCHANGED <<record, call, nextOp, durable, lapsed, restarts>>

\* DeleteServer powers the server off first and may fail before or after that; the
\* next reconcile tries again.
Reaped(h) ==
    /\ host[h].reap = "doomed"
    /\ \E to \in {host[h].state} \union (IF Listed(h) THEN {"off", "gone"} ELSE {}) :
         host' = [host EXCEPT ![h].reap = "no", ![h].state = to]
    /\ UNCHANGED <<record, call, nextOp, durable, lapsed, restarts>>

Init == FleetInit

Next ==
    \/ \E s \in Slots :
         \/ CreateInstance(s) \/ ServerByName(s) \/ CreateServer(s)
         \/ ConfigureInstance(s) \/ DrainInstance(s) \/ EnsureRunning(s) \/ WaitRunning(s)
         \/ ApplyBootstrap(s) \/ DrainNode(s) \/ UpdateTags(s)
         \/ DeleteInstance(s) \/ Poweroff(s) \/ DeleteServer(s) \/ Sweep(s)
         \/ ReapAsk(s)
         \/ Fails(s)
    \/ \E h \in Hosts : CreatedStopped(h) \/ Boots(h) \/ PowersOff(h) \/ Breaks(h) \/ Reaped(h)
    \/ ReapList \/ Restart

-----------------------------------------------------------------------------
(* Elastic Metal: an ordered machine is delivered, installed and powered    *)
(* on.  A create that finds a server of its name goes on from where that    *)
(* server is.  There is no delete, and nothing is reaped.                   *)

MetalDescribe(s) == Marked(s)

MetalRestart ==
    /\ Recovered \/ Reseeded([s \in Slots |-> MetalDescribe(s)])
    /\ UNCHANGED <<host, lapsed>>

\* A listing that fails finds nothing.
MetalServerByName(s) ==
    /\ At(s, "serverByName")
    /\ \/ Goes(s, "CreateServer", NoHost)
       \/ \E h \in Named(call[s].op) : Goes(s, "provision", h)
    /\ UNCHANGED host

MetalCreateServer(s) ==
    /\ At(s, "CreateServer")
    /\ \E h \in Hosts : Launched(h, s, call[s].op) /\ Goes(s, "provision", h)

\* Mutant: what is delivered is installed, whatever is on it.
MetalInstallAlways(s) ==
    /\ At(s, "provision")
    /\ host[call[s].host].state \in {"up", "off"}
    /\ Goes(s, "InstallServer", call[s].host)
    /\ UNCHANGED host

\* Delivered, or failed for good: Fails.  An installed server is not installed again.
MetalProvision(s) ==
    /\ At(s, "provision")
    /\ LET h == call[s].host IN
         /\ host[h].state \in {"up", "off"}
         /\ Goes(s, IF host[h].installed THEN "powerOn" ELSE "InstallServer", h)
    /\ UNCHANGED host

\* The install leaves nothing of what was on the server.
MetalInstallServer(s) ==
    /\ At(s, "InstallServer")
    /\ LET h == call[s].host IN
         /\ host[h].state \in {"up", "off"}
         /\ host' = [host EXCEPT ![h] = [@ EXCEPT !.state = "up", !.installed = TRUE, !.node = "never"]]
         /\ Goes(s, "powerOn", h)

MetalStartServer(s) ==
    /\ At(s, "powerOn")
    /\ host[call[s].host].state = "off"
    /\ host' = [host EXCEPT ![call[s].host].state = "booting"]
    /\ Goes(s, "powerOn", call[s].host)

\* A server that is starting is up enough, and one in error is not told from it.
MetalPowerOn(s) ==
    /\ At(s, "powerOn")
    /\ LET h == call[s].host IN
         /\ host[h].state \in {"booting", "up", "error"}
         /\ IF record[s].state = "create" THEN Answers(s, h) ELSE Goes(s, "vault.Enqueue", h)
    /\ UNCHANGED host

MetalConfigureInstance(s) == Starts(s, "configure", "powerOn")
MetalDrainInstance(s) == Starts(s, "drain", "powerOn")

\* The command is run by an agent of the machine id the server is tagged with.
MetalAgents(h) == {k \in Marked(host[h].slot) : host[k].state = "up" /\ host[k].installed}

MetalApplyBootstrap(s) ==
    /\ At(s, "vault.Enqueue") /\ record[s].state = "configure"
    /\ \E k \in MetalAgents(call[s].host) : Joins(k)
    /\ Goes(s, "setClusterTag", call[s].host)

MetalDrainNode(s) ==
    /\ At(s, "vault.Enqueue") /\ record[s].state = "drain"
    /\ \E k \in MetalAgents(call[s].host) : Leaves(k)
    /\ Goes(s, "clearClusterTag", call[s].host)

MetalUpdateTags(s) ==
    /\ \/ At(s, "setClusterTag") /\ Binds(call[s].host)
       \/ At(s, "clearClusterTag") /\ Unbinds(call[s].host)
    /\ Answers(s, call[s].host)

MetalNext ==
    \/ \E s \in Slots :
         \/ CreateInstance(s) \/ MetalServerByName(s) \/ MetalCreateServer(s)
         \/ MetalProvision(s) \/ MetalInstallServer(s) \/ MetalStartServer(s) \/ MetalPowerOn(s)
         \/ MetalConfigureInstance(s) \/ MetalDrainInstance(s)
         \/ MetalApplyBootstrap(s) \/ MetalDrainNode(s) \/ MetalUpdateTags(s)
         \/ Fails(s)
    \/ \E h \in Hosts : Appears(h) \/ Boots(h) \/ Errors(h) \/ PowersOff(h) \/ Breaks(h)
    \/ MetalRestart
=============================================================================
