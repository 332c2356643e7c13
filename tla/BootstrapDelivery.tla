-------------------------- MODULE BootstrapDelivery --------------------------
(***************************************************************************)
(* How a provider gets a command to a machine: through a bootstrap vault   *)
(* that an agent polls, in an SSH session, or through the guest agent.     *)
(* The first state picks the provider.                                     *)
(***************************************************************************)
EXTENDS BootstrapChannel

CONSTANTS Vaults, OverSSH, GuestAgents,  \* providers, by their means
          Keys, NoKey, NoEntry

ASSUME KeysAssumption == NoKey \notin Keys /\ NoEntry \notin Keys /\ NoKey # NoEntry

VARIABLES
    provider,
    seq, acking,                                   \* DigitalOceanVault's
    delivery, pin, savedPin, answering, running, exited, restarted  \* ScriptDelivery's

DigitalOcean == INSTANCE DigitalOceanVault
Scaleway == INSTANCE ScalewayVault
Script == INSTANCE ScriptDelivery WITH MaxDeliveries <- MaxCalls

vaultState == <<channelVars, seq, acking>>
scriptState == <<delivery, pin, savedPin, answering, running, exited, restarted>>
vars == <<provider, vaultState, scriptState>>

Providers == Vaults \union OverSSH \union GuestAgents

\* The fingerprints a server can come with; only an index can lack the server.
HostKeys == Keys \union {NoKey}
                \union (IF provider = "latitude" THEN {NoEntry} ELSE {})

\* What a provider does not use stays at its start.
VaultInit == IF provider = "digitalocean" THEN DigitalOcean!Init
             ELSE Scaleway!Init /\ seq = 0 /\ acking = {}

Init == /\ provider \in Providers
        /\ VaultInit
        /\ IF provider \in OverSSH THEN Script!Init(HostKeys) ELSE Script!Init({NoKey})
        /\ provider \notin OverSSH => answering = CHOOSE k \in Keys : TRUE

OverSSHNext(d) ==
    \/ provider = "hetzner" /\ Script!HetznerRunSSH(d)
    \/ provider = "upcloud" /\ Script!UpCloudRunSSH(d)
    \/ provider = "ovhcloud" /\ Script!OvhRunSSH(d)
    \/ provider = "gcp" /\ Script!GcpRunSSH(d)
    \/ provider = "latitude" /\ Script!LatitudeRun(d)

GuestAgentNext(d) ==
    \/ provider = "libvirt" /\ Script!LibvirtGuestExec(d)
    \/ provider = "proxmox" /\ Script!Proxmox(d)

Next ==
    /\ UNCHANGED provider
    /\ \/ provider = "digitalocean" /\ DigitalOcean!Next /\ UNCHANGED scriptState
       \/ provider = "scaleway" /\ Scaleway!Next /\ UNCHANGED <<seq, acking, scriptState>>
       \/ /\ provider \notin Vaults
          /\ \/ Script!Outside
             \/ provider = "latitude" /\ Script!LatitudeOlderSave
             \/ \E d \in Calls : OverSSHNext(d) \/ GuestAgentNext(d)
          /\ UNCHANGED vaultState

VaultWait(c) ==
    /\ provider \in Vaults
    /\ Receive(c) \/ Expire(c)
    /\ UNCHANGED <<seq, acking, scriptState>>

\* A context's deadline passes, and what waits on the context sees it.
ScriptWait(d) ==
    /\ \/ provider \notin Vaults /\ Script!Expire(d)
       \/ provider \in OverSSH /\ Script!Deadline(d)
       \/ provider = "libvirt" /\ Script!LibvirtCallCtx(d)
       \/ provider = "proxmox" /\ delivery[d].expired /\ Script!Proxmox(d)
    /\ UNCHANGED vaultState

Wait(c) == (VaultWait(c) \/ ScriptWait(c)) /\ UNCHANGED provider

Spec == Init /\ [][Next]_vars

\* Every context of the kit's has a deadline.
FairSpec == Spec /\ \A c \in Calls : WF_vars(Wait(c))

-----------------------------------------------------------------------------
\* An Enqueue that returns nil was acknowledged for its own command, as long as
\* the command ids do not start over: DigitalOcean's do with the process.
OwnAckWhileIdsAreFresh ==
    provider = "scaleway" \/ restarts = 0 => ReleasedByOwnAck

\* The scripts of a machine run one after the other: the kit never sends the next
\* while an earlier one, which it believes to have succeeded, is still running; a
\* call the deadline ends did not succeed, whatever its script goes on to do.
OneScriptAtATime == Cardinality(running) <= 1

\* Once the key a host presented is on record, "all later connections are verified
\* against it" (hetzner/hostkey.go:87): across calls, restarts and whoever answers
\* at the address, none reaches a host with another key.  On record is a key that a
\* restart will find: not one whose label or save failed, and at Latitude not one that
\* an older save of the index has overwritten.
LaterConnectionsVerified ==
    \A b, d \in Calls :
        /\ b < d
        /\ delivery[b].kept
        /\ delivery[d].key # NoKey
        => delivery[d].key = delivery[b].key

\* A call whose end the deadline is to bring about: an Enqueue, a script's run in
\* an SSH session, and all a guest agent is waited for.
Waits(c) ==
    IF provider \in Vaults THEN call[c].stage = "waiting"
    ELSE /\ Script!InFlight(c) /\ delivery[c].result = "none"
         /\ provider \in OverSSH => Script!At(c, "waiting")

\* Every such call ends, whatever the agent or the host does or does not do.
CallsEnd == \A c \in Calls : Waits(c) ~> ~Waits(c)
=============================================================================
