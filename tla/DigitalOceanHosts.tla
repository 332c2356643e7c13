------------------------- MODULE DigitalOceanHosts -------------------------
(***************************************************************************)
(* DigitalOcean: the droplet's name derives from the operation id and its  *)
(* tags come with the create request.  Names are not unique, so the create *)
(* first looks for a droplet with the name and the machine's tag, and does *)
(* so again when the request fails.                                        *)
(***************************************************************************)
EXTENDS HostFleet

\* Any tagged droplet owns its slot, running or not.
Describe(s) == Marked(s)

\* The vault's ids start over with the process, and the agents that ran a command
\* still have its acknowledgement to send.
Restart ==
    /\ Recovered \/ Reseeded([s \in Slots |-> Describe(s)])
    /\ lapsed' = lapsed \union {s \in Slots : \E h \in Marked(s) : host[h].node # "never"}
    /\ UNCHANGED host

CreateInstance(s) == Starts(s, "create", "lookup")

\* Mutant: the droplet's name is enough to take it for this machine's.
NamedDroplet(s) == Named(call[s].op)

ExistingManagedDroplet(s) == Named(call[s].op) \intersect Marked(s)

Lookup(s) ==
    /\ At(s, "lookup")
    /\ IF ExistingManagedDroplet(s) = {} THEN Goes(s, "Droplets.Create", NoHost)
       ELSE \E h \in ExistingManagedDroplet(s) : Goes(s, "waitActive", h)
    /\ UNCHANGED host

\* A request that landed and lost its answer is found by the second lookup.
CreateDroplet(s) ==
    /\ At(s, "Droplets.Create")
    /\ \E h \in Hosts : Launched(h, s, call[s].op) /\ Goes(s, "waitActive", h)

WaitActive(s) ==
    /\ At(s, "waitActive")
    /\ host[call[s].host].state = "up"
    /\ Answers(s, call[s].host)
    /\ UNCHANGED host

ConfigureInstance(s) == Starts(s, "configure", "ApplyBootstrap")

\* The vault's Enqueue returns once an agent of that machine id has run the command.
Agents(h) == {k \in Marked(host[h].slot) : host[k].state = "up"}

\* Or once one acknowledges a command of an earlier life that had the same id.
OldAck(s) == Lapses(s) /\ \E k \in Marked(s) : host[k].node # "never"

ApplyBootstrap(s) ==
    /\ At(s, "ApplyBootstrap")
    /\ (\E k \in Agents(call[s].host) : Joins(k)) \/ OldAck(s)
    /\ Goes(s, "setClusterTag", call[s].host)

SetClusterTag(s) ==
    /\ At(s, "setClusterTag")
    /\ Binds(call[s].host)
    /\ Answers(s, call[s].host)

DrainInstance(s) == Starts(s, "drain", "DrainNode")

DrainNode(s) ==
    /\ At(s, "DrainNode")
    /\ (\E k \in Agents(call[s].host) : Leaves(k)) \/ OldAck(s)
    /\ Goes(s, "clearClusterTag", call[s].host)

ClearClusterTag(s) ==
    /\ At(s, "clearClusterTag")
    /\ Unbinds(call[s].host)
    /\ Answers(s, call[s].host)

DeleteInstance(s) == Starts(s, "delete", "DeleteDroplet")

\* Accepted, not done; an unknown droplet is a droplet deleted.
DeleteDroplet(s) ==
    /\ At(s, "DeleteDroplet")
    /\ Removed(call[s].host)
    /\ Answers(s, NoHost)

Init == FleetInit

Next ==
    \/ \E s \in Slots :
         \/ CreateInstance(s) \/ Lookup(s) \/ CreateDroplet(s) \/ WaitActive(s)
         \/ ConfigureInstance(s) \/ ApplyBootstrap(s) \/ SetClusterTag(s)
         \/ DrainInstance(s) \/ DrainNode(s) \/ ClearClusterTag(s)
         \/ DeleteInstance(s) \/ DeleteDroplet(s)
         \/ Fails(s)
    \/ \E h \in Hosts : Appears(h) \/ Boots(h) \/ Ends(h) \/ Breaks(h)
    \/ Restart
=============================================================================
