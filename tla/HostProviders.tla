--------------------------- MODULE HostProviders ---------------------------
(***************************************************************************)
(* Every provider over its cloud's hosts, and what the providers promise   *)
(* about the host behind a record.  The first state picks the provider.    *)
(***************************************************************************)
EXTENDS HostFleet, TLC

CONSTANT Providers

VARIABLE provider

allVars == <<vars, provider>>

Hetzner == INSTANCE HetznerHosts
DigitalOcean == INSTANCE DigitalOceanHosts
Libvirt == INSTANCE LibvirtHosts
UpCloud == INSTANCE UpCloudHosts
Ovh == INSTANCE OvhHosts
Latitude == INSTANCE LatitudeHosts
Proxmox == INSTANCE ProxmoxHosts
Gcp == INSTANCE GcpHosts
Azure == INSTANCE AzureHosts
Aws == INSTANCE AwsHosts
Oci == INSTANCE OciHosts
Scaleway == INSTANCE ScalewayHosts

Init ==
    /\ provider \in Providers
    /\ \/ provider = "hetzner" /\ Hetzner!Init
       \/ provider = "digitalocean" /\ DigitalOcean!Init
       \/ provider = "libvirt" /\ Libvirt!Init
       \/ provider = "upcloud" /\ UpCloud!Init
       \/ provider = "ovhcloud" /\ Ovh!Init
       \/ provider = "latitude" /\ Latitude!Init
       \/ provider = "proxmox" /\ Proxmox!Init
       \/ provider = "gcp" /\ Gcp!Init
       \/ provider = "azure" /\ Azure!Init
       \/ provider = "aws" /\ Aws!Init
       \/ provider = "oracle-cloud" /\ Oci!Init
       \/ provider = "scaleway" /\ Scaleway!Init
       \/ provider = "scaleway-metal" /\ Scaleway!Init

Next ==
    /\ UNCHANGED provider
    /\ \/ provider = "hetzner" /\ Hetzner!Next
       \/ provider = "digitalocean" /\ DigitalOcean!Next
       \/ provider = "libvirt" /\ Libvirt!Next
       \/ provider = "upcloud" /\ UpCloud!Next
       \/ provider = "ovhcloud" /\ Ovh!Next
       \/ provider = "latitude" /\ Latitude!Next
       \/ provider = "proxmox" /\ Proxmox!Next
       \/ provider = "gcp" /\ Gcp!Next
       \/ provider = "azure" /\ Azure!Next
       \/ provider = "aws" /\ Aws!Next
       \/ provider = "oracle-cloud" /\ Oci!Next
       \/ provider = "scaleway" /\ Scaleway!Next
       \/ provider = "scaleway-metal" /\ Scaleway!MetalNext

Spec == Init /\ [][Next]_allVars

-----------------------------------------------------------------------------
\* A record on offer: the kit will bind, drain or delete its host.
Offered(s) == record[s].state \in {"idle", "configured", "configure", "drain"}

\* A create of these takes a host of its operation's name for its own, whatever the
\* machine id on it; without a state file the names of an earlier life come again.
TakesByName == {"hetzner", "libvirt", "gcp", "azure", "scaleway", "scaleway-metal"}

\* The host a record offers is marked with that record's machine id, so that no two
\* slots have one host, across failed creates, late launches and restarts: what the
\* lookups and the idempotency tokens of the creates are for.
OwnHost ==
    durable \/ provider \notin TakesByName =>
        \A s \in Slots : Offered(s) => host[record[s].host].slot = s

\* A host that is being deleted is on no record: a create does not adopt it, and the
\* Describe that seeds the records leaves it out where it can tell.
NotOnItsWayOut ==
    \/ durable /\ provider # "ovhcloud"
    \/ provider \in {"libvirt", "upcloud", "proxmox", "aws", "oracle-cloud"}
    => \A s \in Slots : Offered(s) => host[record[s].host].state # "going"

\* A slot that the kit would create a host for has none that runs or is to run: no
\* DeleteInstance answers for a host that stays, and no create that failed is forgotten.
FreeSlotIsFree ==
    durable => \A s \in Slots :
        record[s].state = "speculative" => ~\E h \in Hosts : Live(h) /\ host[h].slot = s

\* A slot pays for one host at a time, however its creates and deletes end.
OneHostPerSlot ==
    durable => \A s \in Slots : Cardinality({h \in Hosts : Live(h) /\ host[h].slot = s}) <= 1

\* A host is marked as bound only if its node has joined: the mark is left after the
\* bootstrap.  AWS leaves it before, and the vaults of DigitalOcean and Scaleway are
\* asked by machine id, which a host of an earlier life may have too.  DigitalOcean's
\* may take an agent's old acknowledgement for the new command's after a restart.
MarkIsTrue ==
    /\ provider # "aws"
    /\ durable \/ provider \notin {"digitalocean", "scaleway", "scaleway-metal"}
    => \A h \in Hosts :
         /\ host[h].bound
         /\ ~(provider = "digitalocean" /\ host[h].slot \in lapsed)
         => host[h].node # "never"

\* A host offered for binding or deletion has no node in a cluster: a drain answers
\* when the node has left, and a configure that failed does not come back as idle.
\* Not so at Proxmox, whose drain answers whatever kubectl said, nor in a lapsed slot:
\* at DigitalOcean an old acknowledgement may end the drain, and Hetzner, Latitude,
\* UpCloud and OVHcloud drain nothing when they are started again without a key.
IdleIsUnbound ==
    durable /\ provider # "proxmox" =>
        \A s \in Slots \ lapsed :
            record[s].state = "idle" => host[record[s].host].node # "in"

\* Scaleway's reaper lists, asks and deletes while creates begin and end around it, and
\* never deletes the server that a create has asked for and waits for.  (A create may
\* still find one of an earlier life by its name, and take it after the reaper asked.)
CreateSpared ==
    [][provider = "scaleway" =>
        \A s \in Slots, h \in Hosts :
            /\ record[s].state = "create" /\ call[s].host = h
            /\ host[h].life = restarts + 1
            => ~Scaleway!Reaped(h)]_allVars

\* No server whose node is in a cluster is installed anew: a create that resumes on a
\* server it found by name finds out what is on it first.
NeverWiped == [][\A h \in Hosts : host[h].node = "in" => host'[h].node # "never"]_allVars

-----------------------------------------------------------------------------
(* Instances of this module for TLC.                                        *)
AllProviders == {"hetzner", "digitalocean", "libvirt", "upcloud", "ovhcloud", "latitude",
                 "proxmox", "gcp", "azure", "aws", "oracle-cloud", "scaleway",
                 "scaleway-metal"}
Symmetric == Permutations(Slots) \union Permutations(Hosts)
=============================================================================
