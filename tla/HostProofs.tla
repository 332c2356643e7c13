----------------------------- MODULE HostProofs -----------------------------
(***************************************************************************)
(* Theorems about HostProviders: the host behind a record, at each of the  *)
(* thirteen backends, for any number of slots, hosts, operations and       *)
(* restarts, and every way in which requests fail or land late.            *)
(***************************************************************************)
EXTENDS HostProviders, FiniteSetTheorems, TLAPS

States == {"speculative", "idle", "configured", "failed"} \union Operations
Server == [state : {"none", "pending", "booting", "up", "off", "error", "going", "gone"},
           slot : Slots \union {NoSlot}, op : Nat, bound : BOOLEAN,
           node : {"never", "in", "left"}, known : BOOLEAN, saved : BOOLEAN, id : Nat,
           reap : {"no", "listed", "doomed"}, life : Nat, installed : BOOLEAN]

\* The requests an operation consists of. Until a create has found or launched its
\* host, it is searching; two providers wait for a host in every operation alike.  The
\* sets are of all providers' requests: no create of Oracle Cloud's runs a command.
Searching == {"CreateServer", "lookup", "Droplets.Create", "lookupByName", "findByMachineID",
              "define", "serverByMachineID", "servers.Create", "machineByID",
              "serverByHostname", "Servers.Create", "Clone", "Insert", "BeginCreateOrUpdate",
              "RunInstances", "LaunchInstance", "serverByName"}
Waiting == IF provider = "scaleway" THEN {"waitRunning"}
           ELSE IF provider = "ovhcloud" THEN {"waitActive"} ELSE {}
Reaching == {"powerOn", "EnsureRunning", "waitStarted", "guest", "ensureActive",
             "ensureRunning", "waitPoweredOn", "runSSH", "runExtension", "runCommand",
             "vault.Enqueue"}
Joined == {"setLabel", "setClusterTag", "bind", "setMetadatum", "setCluster", "recordCluster",
           "setTag"}
Parted == {"clearLabel", "clearClusterTag", "unbind", "clearMetadatum", "setCluster",
           "clearCluster", "clearTag"}
Ended == {"waitDelete", "PollDelete", "sweep"}

Creating == Searching \union
            {"waitRunning", "waitActive", "powerOn", "start", "waitStarted", "ensureActive",
             "recordServer", "waitPoweredOn", "configure", "EnsureRunning", "PollCreate",
             "runCommand", "ensureRunning", "provision", "InstallServer"}
Configuring == Waiting \union Reaching \union Joined \union
               {"ApplyBootstrap", "bootstrap", "StartVM", "CreateTags"}
Draining == Waiting \union Reaching \union Parted \union {"DrainNode", "drain", "DeleteTags"}
Deleting == Ended \union
            {"DeleteServer", "DeleteDroplet", "destroy", "undefine", "StopServer",
             "DeleteServerAndStorages", "Stop", "Delete", "BeginDelete", "TerminateInstances",
             "TerminateInstance", "Poweroff"}
Stages == Creating \union Reaching \union Joined \union Parted \union Deleting \union
          {"none", "ApplyBootstrap", "bootstrap", "StartVM", "CreateTags", "DrainNode", "drain",
           "DeleteTags"}

FleetType ==
    /\ host \in [Hosts -> Server]
    /\ record \in [Slots -> [state : States, host : Hosts \union {NoHost}]]
    /\ call \in [Slots -> [stage : Stages, op : Nat, host : Hosts \union {NoHost}]]
    /\ nextOp \in Nat /\ durable \in BOOLEAN /\ lapsed \subseteq Slots /\ restarts \in Nat

Kept == {"idle", "configured", "configure", "drain", "delete"}
Serving == {"configure", "drain", "delete"}
Busy(s) == call[s].stage # "none"
Settled(h) == host[h].state \notin {"none", "pending"}

\* A call belongs to the operation of its record, or to none any more; a record that
\* names a host names one the cloud has shown.
CallInv(s) ==
    /\ ~Busy(s) => call[s] = NoCall
    /\ record[s].state = "speculative" => record[s].host = NoHost
    /\ record[s].state = "create" => call[s].stage \in Creating
    /\ record[s].state = "configure" => call[s].stage \in Configuring
    /\ record[s].state = "drain" => call[s].stage \in Draining
    /\ record[s].state = "delete" => call[s].stage \in Deleting
    /\ Busy(s) => /\ record[s].state \in Operations \union {"failed"}
                  /\ record[s].state = "failed" => provider = "libvirt"
                  /\ call[s].op < nextOp
    /\ Busy(s) /\ call[s].stage \in Searching => call[s].host = NoHost
    /\ Busy(s) /\ call[s].stage \notin Searching =>
         call[s].host \in Hosts /\ host[call[s].host].state # "none"
    /\ record[s].state \in Kept => record[s].host \in Hosts /\ Settled(record[s].host)
    /\ record[s].state \in Serving => call[s].host = record[s].host

\* The hosts a record and a call name are marked with their slot.
Owned == durable \/ provider \notin TakesByName
OwnInv(s) ==
    Owned => /\ record[s].state \in Kept => host[record[s].host].slot = s
             /\ call[s].host # NoHost => host[call[s].host].slot = s

\* A slot has one host at the most: the one its record or its call names.
AloneInv(s) ==
    durable => \A h \in Hosts : Live(h) /\ host[h].slot = s =>
        /\ record[s].state # "speculative" /\ call[s].stage \notin Searching \union Ended
        /\ record[s].state \in Kept => h = record[s].host
        /\ Busy(s) => h = call[s].host
        /\ ~(provider = "ovhcloud" /\ record[s].state = "create" /\ call[s].stage = "ensureActive")
        /\ \A k \in Hosts : Live(k) /\ host[k].slot = s => h = k

WaySeen == \/ durable /\ provider # "ovhcloud"
           \/ provider \in {"libvirt", "upcloud", "proxmox", "aws", "oracle-cloud"}
WayInv(s) == WaySeen /\ Offered(s) => host[record[s].host].state # "going"

\* A node in a cluster is on the host of a record that says so, where a drain is
\* answered when it is done.
Drained(s) == durable /\ provider # "proxmox" /\ s \notin lapsed
NodeInv(s) ==
    Drained(s) => \A h \in Hosts : host[h].node = "in" /\ host[h].slot = s =>
        /\ record[s].state \in {"configured", "configure", "drain", "failed"}
        /\ record[s].state # "failed" => h = record[s].host
        /\ ~(record[s].state = "drain" /\ call[s].stage \in Parted)

\* What the stage of a call says of its host: it joined before it is marked (Latitude
\* takes the mark off by the same request); no host has the name of a create that still
\* searches; a machine about to be installed is this create's and has nothing on it.
MarkTrue(h) == /\ provider # "aws"
               /\ durable \/ provider \notin {"digitalocean", "scaleway", "scaleway-metal"}
               /\ ~(provider = "digitalocean" /\ host[h].slot \in lapsed)
StageInv(s) ==
    /\ call[s].stage \in Joined /\ MarkTrue(call[s].host) =>
         host[call[s].host].node # "never" \/ (provider = "latitude" /\ record[s].state = "drain")
    /\ durable /\ call[s].stage \in Searching \ {"servers.Create"} =>
         \A h \in Hosts : host[h].state # "none" => host[h].op # call[s].op
    /\ provider = "scaleway-metal" /\ call[s].stage \in {"provision", "InstallServer"} =>
         /\ host[call[s].host].op = call[s].op
         /\ call[s].stage = "InstallServer" => ~host[call[s].host].installed

SlotInv(s) == CallInv(s) /\ OwnInv(s) /\ AloneInv(s) /\ WayInv(s) /\ NodeInv(s) /\ StageInv(s)

\* What holds of a host by itself.
NoneGoing == provider \in {"libvirt", "upcloud", "proxmox", "scaleway", "scaleway-metal"}
Sound(h) ==
    /\ host[h].state = "none" => host[h].node = "never"
    /\ durable /\ host[h].state # "none" => host[h].op < nextOp
    /\ MarkTrue(h) /\ host[h].bound => host[h].node # "never"
    /\ provider = "scaleway-metal" /\ host[h].node # "never" => host[h].installed
    /\ NoneGoing => host[h].state # "going"

CallsDiffer == \A s, t \in Slots : Busy(s) /\ Busy(t) /\ call[s].op = call[t].op => s = t

HostInv == /\ FleetType
           /\ CallsDiffer
           /\ \A h \in Hosts : Sound(h)
           /\ \A s \in Slots : SlotInv(s)

-----------------------------------------------------------------------------
(* What a step of one slot leaves to the others.                            *)

\* The host is this call's doing.
Made(h, s) == s \in Slots /\ Busy(s) /\ host'[h].op = call[s].op

\* A step in the name of s that may disturb the hosts of slot e.
Spares(s, e) ==
    /\ host' \in [Hosts -> Server]
    /\ \A h \in Hosts :
         /\ Sound(h)'
         /\ host[h].state # "none" => /\ host'[h].state # "none"
                                      /\ host'[h].op = host[h].op
                                      /\ Owned => host'[h].slot = host[h].slot
         /\ host[h].state = "none" /\ host'[h].state # "none" => Made(h, s)
         /\ host[h].installed # host'[h].installed => Made(h, s)
         /\ Settled(h) => Settled(h)'
         /\ host[h].node # "never" => host'[h].node # "never"
         /\ durable /\ host'[h].slot # e => /\ host'[h].slot = host[h].slot
                                            /\ Live(h)' => Live(h)
                                            /\ host'[h].node = "in" => host[h].node = "in"
         /\ Owned /\ host'[h].slot # e /\ host'[h].state = "going" => host[h].state = "going"

Calm(s) == Spares(s, NoSlot)

Alone(s) == \A t \in Slots \ {s} : record'[t] = record[t] /\ call'[t] = call[t]
Frame == /\ durable' = durable /\ provider' = provider /\ lapsed' = lapsed
         /\ nextOp' \in Nat /\ nextOp <= nextOp'

\* The step keeps the invariant, and takes the node off no host.
HostStep == HostInv' /\ \A h \in Hosts : host[h].node # "never" => host'[h].node # "never"

\* A host that a record keeps to itself does not begin to go.
LEMMA WayStays ==
    ASSUME HostInv, NEW s \in Slots \union {NoSlot}, NEW e \in {s, NoSlot}, Spares(s, e),
           durable' = durable, provider' = provider,
           NEW t \in Slots \ {e}, record'[t].state \in Kept, Offered(t), record'[t].host = record[t].host
    PROVE  WayInv(t)'
<1>1. record[t].state \in Kept /\ SlotInv(t)
  BY DEF Offered, Kept, HostInv
<1>2. CASE NoneGoing
  BY <1>1, <1>2 DEF WayInv, NoneGoing, Spares, Sound, SlotInv, CallInv
<1>3. CASE ~NoneGoing
  BY <1>1, <1>3 DEF WayInv, NoneGoing, WaySeen, Spares, SlotInv, CallInv, Owned, OwnInv, TakesByName,
     Settled
<1> QED
  BY <1>2, <1>3

LEMMA OthersKeep ==
    ASSUME HostInv, NEW s \in Slots \union {NoSlot}, NEW e \in {s, NoSlot}, Spares(s, e),
           Alone(s), Frame, NEW t \in Slots \ {s}
    PROVE  SlotInv(t)'
<1>0. /\ t \in Slots /\ t # s /\ t # NoSlot /\ t # e
      /\ record'[t] = record[t] /\ call'[t] = call[t]
      /\ durable' = durable /\ provider' = provider /\ lapsed' = lapsed
      /\ SlotInv(t)
  BY HostsAssumption DEF Alone, Frame, HostInv
<1>1. /\ record[t] \in [state : States, host : Hosts \union {NoHost}]
      /\ call[t] \in [stage : Stages, op : Nat, host : Hosts \union {NoHost}]
      /\ NoHost \notin Hosts
  BY <1>0, HostsAssumption DEF HostInv, FleetType
<1>2. CallInv(t)'
  <2>1. /\ CallInv(t)
        /\ Busy(t)' <=> Busy(t)
        /\ Configuring' = Configuring /\ Draining' = Draining
    BY <1>0 DEF SlotInv, Busy, Configuring, Draining, Reaching, Waiting
  <2>2. Busy(t) => call[t].op < nextOp'
    BY <1>1, <2>1 DEF CallInv, HostInv, FleetType, Frame
  <2>3. \A h \in Hosts : /\ host[h].state # "none" => host'[h].state # "none"
                         /\ Settled(h) => Settled(h)'
    BY DEF Spares
  <2> QED
    BY <1>0, <1>1, <2>1, <2>2, <2>3 DEF CallInv, NoCall
<1>3. OwnInv(t)'
  BY <1>0, <1>1 DEF SlotInv, CallInv, OwnInv, Spares, Owned, TakesByName, Busy, NoCall, Settled
<1>4. AloneInv(t)'
  BY <1>0, <1>1 DEF SlotInv, AloneInv, Spares, Live, Busy
<1>5. WayInv(t)'
  BY <1>0, WayStays DEF WayInv, Offered, Kept
<1>6. NodeInv(t)'
  BY <1>0, <1>1 DEF SlotInv, NodeInv, Drained, Spares
<1>7. StageInv(t)'
  BY <1>0, <1>1 DEF SlotInv, CallInv, StageInv, Spares, MarkTrue, Made, HostInv, CallsDiffer, Busy,
     Joined, Searching, Owned, TakesByName
<1> QED
  BY <1>2, <1>3, <1>4, <1>5, <1>6, <1>7 DEF SlotInv

\* The rest of the state, as the slot's new record and call leave it.
Pair(s) == /\ record' \in [Slots -> [state : States, host : Hosts \union {NoHost}]]
           /\ call' \in [Slots -> [stage : Stages, op : Nat, host : Hosts \union {NoHost}]]
           /\ Busy(s)' => \/ Busy(s) /\ call'[s].op = call[s].op
                         \/ call'[s].op = nextOp

LEMMA SlotKeeps ==
    ASSUME HostInv, NEW s \in Slots, NEW e \in {s, NoSlot}, Spares(s, e),
           Alone(s), Frame, Pair(s), restarts' = restarts, SlotInv(s)'
    PROVE  HostStep
<1>1. FleetType'
  BY DEF Spares, Pair, Frame, HostInv, FleetType
<1>2. CallsDiffer'
  <2> SUFFICES ASSUME NEW r \in Slots, NEW t \in Slots, Busy(r)', Busy(t)',
                      call'[r].op = call'[t].op, r # t
               PROVE  FALSE
    BY DEF CallsDiffer
  <2>1. \A q \in Slots : Busy(q) => call[q].op < nextOp /\ call[q].op \in Nat /\ nextOp \in Nat
    BY DEF HostInv, SlotInv, CallInv, FleetType
  <2>2. \A q \in Slots \ {s} : Busy(q)' => Busy(q) /\ call'[q].op = call[q].op
    BY DEF Alone, Busy
  <2> QED
    BY <2>1, <2>2 DEF Pair, HostInv, CallsDiffer
<1>3. \A h \in Hosts : Sound(h)'
  BY DEF Spares
<1>4. \A t \in Slots : SlotInv(t)'
  <2> TAKE t \in Slots
  <2> QED
    BY OthersKeep
<1> QED
  BY <1>1, <1>2, <1>3, <1>4 DEF HostInv, HostStep, Spares

-----------------------------------------------------------------------------
(* A host's record with one thing or another changed.                       *)

\* What of a host's record the slots go by, but for its state.
Alike(r, t) == /\ r.slot = t.slot /\ r.op = t.op /\ r.installed = t.installed
               /\ r.bound = t.bound /\ r.node = t.node

CloudStates == {"none", "pending", "booting", "up", "off", "error", "going", "gone"}
Turned(r, to) == [r EXCEPT !.state = to]
Eyed(r, reap) == [r EXCEPT !.reap = reap]
ReapedAs(r, to) == [r EXCEPT !.reap = "no", !.state = to]
InstalledAs(r, b) == [r EXCEPT !.state = "up", !.installed = b, !.node = "never"]
Created(s, op, id, life) == [Unused EXCEPT !.state = "pending", !.slot = s, !.op = op, !.id = id,
                                           !.life = life]
Indexed(r, known, saved) == [r EXCEPT !.known = known, !.saved = saved]
Forgotten(r, known, bound) == [r EXCEPT !.known = known, !.bound = bound]

LEMMA TurnsShape ==
    ASSUME NEW r \in Server, NEW to \in CloudStates
    PROVE  Turned(r, to) \in Server /\ Turned(r, to).state = to /\ Alike(r, Turned(r, to))
BY DEF Server, Alike, Turned, CloudStates

LEMMA EyedShape ==
    ASSUME NEW r \in Server, NEW reap \in {"no", "listed", "doomed"}
    PROVE  Eyed(r, reap) \in Server /\ Eyed(r, reap).state = r.state /\ Alike(r, Eyed(r, reap))
BY DEF Server, Alike, Eyed

LEMMA ReapedShape ==
    ASSUME NEW r \in Server, NEW to \in CloudStates
    PROVE  ReapedAs(r, to) \in Server /\ ReapedAs(r, to).state = to /\ Alike(r, ReapedAs(r, to))
BY DEF Server, Alike, ReapedAs, CloudStates

LEMMA InstalledShape ==
    ASSUME NEW r \in Server, NEW b \in BOOLEAN, NEW new, new = InstalledAs(r, b)
    PROVE  /\ new \in Server /\ new.state = "up" /\ new.node = "never" /\ new.installed = b
           /\ new.slot = r.slot /\ new.op = r.op /\ new.bound = r.bound
BY DEF Server, InstalledAs

LEMMA CreatedShape ==
    ASSUME NEW s \in Slots, NEW op \in Nat, NEW id \in Nat, NEW life \in Nat,
           NEW new, new = Created(s, op, id, life)
    PROVE  /\ new \in Server /\ new.state = "pending" /\ new.slot = s /\ new.op = op
           /\ ~new.bound /\ new.node = "never" /\ ~new.installed
BY DEF Server, Unused, Created

LEMMA IndexedShape ==
    ASSUME NEW r \in Server, NEW known \in BOOLEAN, NEW saved \in BOOLEAN
    PROVE  /\ Indexed(r, known, saved) \in Server /\ Indexed(r, known, saved).state = r.state
           /\ Alike(r, Indexed(r, known, saved))
BY DEF Server, Alike, Indexed

LEMMA ForgottenShape ==
    ASSUME NEW r \in Server, NEW known \in BOOLEAN, NEW bound \in BOOLEAN,
           NEW new, new = Forgotten(r, known, bound)
    PROVE  /\ new \in Server /\ new.state = r.state /\ new.slot = r.slot /\ new.op = r.op
           /\ new.installed = r.installed /\ new.node = r.node /\ new.bound = bound
BY DEF Server, Forgotten

-----------------------------------------------------------------------------
(* Changes of the hosts that disturb no slot.                               *)

Mild(h) ==
    /\ host'[h].slot = host[h].slot /\ host'[h].op = host[h].op
    /\ host'[h].installed = host[h].installed
    /\ \/ host'[h].state = host[h].state
       \/ host[h].state # "none" /\ host'[h].state = "gone"
       \/ Live(h) /\ host'[h].state \in {"booting", "up", "off", "error"}
    /\ \/ host'[h].node = host[h].node
       \/ /\ host'[h].node = "left" /\ host[h].state # "none"
          /\ provider = "scaleway-metal" => host[h].installed
    /\ host'[h].bound => host[h].bound \/ (MarkTrue(h) => host[h].node # "never")

\* The process goes on, or starts its counter over without a state file.
Same == /\ durable' = durable /\ provider' = provider /\ lapsed \subseteq lapsed'
        /\ durable => nextOp' = nextOp

LEMMA MildIsCalm ==
    ASSUME HostInv, Same, NEW s \in Slots \union {NoSlot},
           host' \in [Hosts -> Server], \A h \in Hosts : Mild(h)
    PROVE  Calm(s)
<1> SUFFICES ASSUME NEW h \in Hosts
             PROVE  /\ Sound(h)'
                    /\ host[h].state = "none" => host'[h].state = "none"
                    /\ host[h].state # "none" => host'[h].state # "none"
                    /\ Settled(h) => Settled(h)'
                    /\ host[h].node # "never" => host'[h].node # "never"
                    /\ Live(h)' => Live(h)
                    /\ host'[h].node = "in" => host[h].node = "in"
                    /\ host'[h].state = "going" => host[h].state = "going"
  BY DEF Calm, Spares, Mild
<1>1. Mild(h) /\ Sound(h)
  BY DEF HostInv
<1>2. Sound(h)'
  BY <1>1 DEF Mild, Sound, Same, MarkTrue, NoneGoing, Live
<1> QED
  BY <1>1, <1>2 DEF Mild, Live, Settled

LEMMA Untouched ==
    ASSUME HostInv, Same, NEW s \in Slots \union {NoSlot}, UNCHANGED host
    PROVE  Calm(s)
<1>1. host' \in [Hosts -> Server] /\ \A h \in Hosts : Mild(h)
  BY DEF HostInv, FleetType, Mild
<1> QED
  BY <1>1, MildIsCalm

LEMMA TurnIsCalm ==
    ASSUME HostInv, Same, NEW s \in Slots \union {NoSlot}, NEW h \in Hosts,
           NEW to \in {"booting", "up", "off", "error", "gone"},
           host[h].state # "none", to = "gone" \/ Live(h),
           host' = [host EXCEPT ![h].state = to]
    PROVE  Calm(s)
<1>1. host \in [Hosts -> Server]
  BY DEF HostInv, FleetType
<1>2. host' \in [Hosts -> Server]
  BY <1>1 DEF Server
<1>3. \A k \in Hosts : Mild(k)
  BY <1>1 DEF Mild, Server, Live
<1> QED
  BY <1>2, <1>3, MildIsCalm

LEMMA LeaveIsCalm ==
    ASSUME HostInv, Same, NEW s \in Slots, NEW h \in Hosts, Leaves(h),
           provider = "scaleway-metal" => host[h].installed
    PROVE  Calm(s)
<1>1. /\ host \in [Hosts -> Server] /\ host[h].state = "up"
      /\ host' = [host EXCEPT ![h].node = "left"]
  BY DEF HostInv, FleetType, Leaves
<1>2. host' \in [Hosts -> Server]
  BY <1>1 DEF Server
<1>3. \A k \in Hosts : Mild(k)
  BY <1>1 DEF Mild, Server
<1> QED
  BY <1>2, <1>3, MildIsCalm

LEMMA BindIsCalm ==
    ASSUME HostInv, Same, NEW s \in Slots, NEW h \in Hosts,
           Unbinds(h) \/ (Binds(h) /\ (MarkTrue(h) => host[h].node # "never"))
    PROVE  Calm(s)
<1>1. host \in [Hosts -> Server]
  BY DEF HostInv, FleetType
<1>2. PICK b \in BOOLEAN : /\ host' = [host EXCEPT ![h].bound = b]
                           /\ b => (MarkTrue(h) => host[h].node # "never")
  BY DEF Unbinds, Binds
<1>3. host' \in [Hosts -> Server]
  BY <1>1, <1>2 DEF Server
<1>4. \A k \in Hosts : Mild(k)
  BY <1>1, <1>2 DEF Mild, Server
<1> QED
  BY <1>3, <1>4, MildIsCalm

-----------------------------------------------------------------------------
(* A call goes on to its next request.                                      *)

LEMMA GoesShape ==
    ASSUME HostInv, NEW s \in Slots, NEW stage \in Stages, stage # "none",
           NEW h \in Hosts \union {NoHost}, Busy(s), Goes(s, stage, h), UNCHANGED provider
    PROVE  /\ Alone(s) /\ Frame /\ Same /\ Pair(s) /\ restarts' = restarts
           /\ record' = record /\ nextOp' = nextOp
           /\ call'[s] = [stage |-> stage, op |-> call[s].op, host |-> h]
<1>1. /\ call \in [Slots -> [stage : Stages, op : Nat, host : Hosts \union {NoHost}]]
      /\ record \in [Slots -> [state : States, host : Hosts \union {NoHost}]]
      /\ nextOp \in Nat
  BY DEF HostInv, FleetType
<1>2. /\ call' \in [Slots -> [stage : Stages, op : Nat, host : Hosts \union {NoHost}]]
      /\ call'[s] = [stage |-> stage, op |-> call[s].op, host |-> h]
      /\ \A t \in Slots \ {s} : call'[t] = call[t]
  BY <1>1 DEF Goes
<1> QED
  BY <1>1, <1>2 DEF Goes, Alone, Frame, Same, Pair, Busy

\* Only creates search.
LEMMA CreatesSearch ==
    ASSUME HostInv, NEW s \in Slots, call[s].stage \in Searching
    PROVE  record[s].state \in {"create", "failed"}
<1>1. CallInv(s) /\ Busy(s) /\ record[s].state \in Operations \union {"failed"}
  BY DEF HostInv, SlotInv, CallInv, Searching, Busy
<1>2. /\ record[s].state # "configure"
      /\ record[s].state # "drain"
  BY <1>1 DEF CallInv, Configuring, Draining, Reaching, Waiting, Joined, Parted, Searching
<1>3. record[s].state # "delete"
  BY <1>1 DEF CallInv, Deleting, Ended, Searching
<1> QED
  BY <1>1, <1>2, <1>3 DEF Operations

\* A create looks for its host and finds none.
LEMMA Seeks ==
    ASSUME HostInv, NEW s \in Slots, UNCHANGED <<host, provider>>,
           call[s].stage \in Searching \ {"servers.Create"}, NEW stage \in Searching,
           Goes(s, stage, NoHost)
    PROVE  HostStep
<1>1. /\ Alone(s) /\ Frame /\ Same /\ Pair(s) /\ restarts' = restarts
      /\ record' = record /\ nextOp' = nextOp
      /\ call'[s] = [stage |-> stage, op |-> call[s].op, host |-> NoHost]
      /\ Busy(s) /\ stage # "none"
  <2>1. stage \in Stages /\ stage # "none" /\ Busy(s)
    BY DEF Stages, Creating, Searching, Busy
  <2> QED
    BY <2>1, GoesShape
<1>2. Calm(s)
  BY <1>1, Untouched
<1>3. SlotInv(s) /\ record[s].state \in {"create", "failed"}
  BY <1>1, CreatesSearch DEF HostInv
<1>4. SlotInv(s)'
  <2>1. CallInv(s)'
    BY <1>1, <1>3 DEF SlotInv, CallInv, Kept, Serving, Busy, Creating, Operations
  <2>2. OwnInv(s)' /\ WayInv(s)'
    BY <1>1, <1>3 DEF SlotInv, OwnInv, WayInv, Owned, Kept, Offered, Frame
  <2>3. AloneInv(s)'
    BY <1>1, <1>3 DEF SlotInv, AloneInv, Live, Frame
  <2>4. NodeInv(s)'
    BY <1>1, <1>3 DEF SlotInv, NodeInv, Drained, Frame
  <2>5. StageInv(s)'
    BY <1>1, <1>3 DEF SlotInv, StageInv, Frame, Searching, Joined
  <2> QED
    BY <2>1, <2>2, <2>3, <2>4, <2>5 DEF SlotInv
<1> QED
  BY <1>1, <1>2, <1>4, SlotKeeps DEF Calm

\* A create takes a host of the cloud's: the slot's own, unless names come again.
LEMMA Finds ==
    ASSUME HostInv, NEW s \in Slots, UNCHANGED provider,
           call[s].stage \in Searching, Calm(s),
           NEW h \in Hosts, host[h].state # "none", Owned => host[h].slot = s,
           NEW stage \in Creating \ (Searching \union {"InstallServer"}),
           stage = "provision" => host[h].op = call[s].op,
           Goes(s, stage, h)
    PROVE  HostStep
<1>0. stage \in Stages /\ stage # "none" /\ Busy(s) /\ stage \notin Ended \union Joined \union Parted
  BY DEF Stages, Creating, Searching, Busy, Ended, Joined, Parted
<1>1. /\ Alone(s) /\ Frame /\ Same /\ Pair(s) /\ restarts' = restarts
      /\ record' = record /\ nextOp' = nextOp
      /\ call'[s] = [stage |-> stage, op |-> call[s].op, host |-> h]
  BY <1>0, GoesShape
<1>2. SlotInv(s) /\ record[s].state \in {"create", "failed"}
  BY <1>0, CreatesSearch DEF HostInv
<1>3. \A k \in Hosts : /\ host'[k].state # "none" \/ host[k].state = "none"
                       /\ Owned /\ host[k].state # "none" => host'[k].slot = host[k].slot
                       /\ host[k].state # "none" => host'[k].op = host[k].op
  BY DEF Calm, Spares
<1>5. \A k \in Hosts : durable /\ host'[k].slot = s =>
        /\ host[k].slot = s
        /\ Live(k)' => Live(k)
        /\ host'[k].node = "in" => host[k].node = "in"
  BY HostsAssumption DEF Calm, Spares
<1>4. SlotInv(s)'
  <2>1. CallInv(s)'
    BY <1>0, <1>1, <1>2, <1>3, HostsAssumption
       DEF SlotInv, CallInv, Kept, Serving, Busy, Operations
  <2>2. OwnInv(s)'
    BY <1>1, <1>2, <1>3 DEF SlotInv, OwnInv, Owned, Frame, TakesByName, Kept
  <2>3. WayInv(s)'
    BY <1>1, <1>2 DEF WayInv, Offered
  <2>4. AloneInv(s)'
    BY <1>0, <1>1, <1>2, <1>5 DEF SlotInv, AloneInv, Frame, Live
  <2>5. NodeInv(s)'
    BY <1>1, <1>2, <1>5 DEF SlotInv, NodeInv, Drained, Frame
  <2>6. StageInv(s)'
    BY <1>0, <1>1, <1>3 DEF StageInv, Frame
  <2> QED
    BY <2>1, <2>2, <2>3, <2>4, <2>5, <2>6 DEF SlotInv
<1> QED
  BY <1>1, <1>4, SlotKeeps DEF Calm

\* A create asks for a new host, of its own name and for its own slot.
LEMMA Launches ==
    ASSUME HostInv, NEW s \in Slots, UNCHANGED provider, call[s].stage \in Searching,
           NEW h \in Hosts, host[h].state = "none",
           NEW new \in Server, host' = [host EXCEPT ![h] = new],
           new.state \in {"pending", "off"}, new.slot = s, new.op = call[s].op,
           ~new.bound, new.node = "never", ~new.installed,
           NEW stage \in Creating \ (Searching \union {"ensureActive", "InstallServer"}),
           Goes(s, stage, h)
    PROVE  HostStep
<1>0. /\ stage \in Stages /\ stage # "none" /\ Busy(s)
      /\ stage \notin Ended \union Joined \union Parted
  BY DEF Stages, Creating, Searching, Busy, Ended, Joined, Parted
<1>1. /\ Alone(s) /\ Frame /\ Same /\ Pair(s) /\ restarts' = restarts
      /\ record' = record /\ nextOp' = nextOp
      /\ call'[s] = [stage |-> stage, op |-> call[s].op, host |-> h]
  BY <1>0, GoesShape
<1>2. SlotInv(s) /\ record[s].state \in {"create", "failed"}
  BY <1>0, CreatesSearch DEF HostInv
<1>3. /\ host' \in [Hosts -> Server] /\ host'[h] = new
      /\ \A k \in Hosts \ {h} : host'[k] = host[k]
  BY DEF HostInv, FleetType
<1>4. Spares(s, s)
  <2>1. \A k \in Hosts : Sound(k)'
    BY <1>0, <1>1, <1>2, <1>3 DEF HostInv, Sound, Frame, MarkTrue, NoneGoing, SlotInv, CallInv
  <2>2. \A k \in Hosts \ {h} : Settled(k) => Settled(k)'
    BY <1>3 DEF Settled
  <2>3. \A k \in Hosts \ {h} : Live(k)' => Live(k)
    BY <1>3 DEF Live
  <2>4. host[h].node = "never"
    BY DEF HostInv, Sound
  <2>5. /\ Made(h, s) /\ ~Settled(h)
        /\ host'[h].slot = s /\ host'[h].state # "going" /\ host'[h].state # "none"
    BY <1>0, <1>3 DEF Made, Settled
  <2> QED
    BY <1>3, <2>1, <2>2, <2>3, <2>4, <2>5 DEF Spares
<1>5. SlotInv(s)'
  <2>1. CallInv(s)'
    BY <1>0, <1>1, <1>2, <1>3, HostsAssumption
       DEF SlotInv, CallInv, Kept, Serving, Busy, Operations
  <2>2. OwnInv(s)'
    BY <1>1, <1>2, <1>3 DEF OwnInv, Kept
  <2>3. WayInv(s)'
    BY <1>1, <1>2 DEF WayInv, Offered
  <2>4. AloneInv(s)'
    BY <1>0, <1>1, <1>2, <1>3 DEF SlotInv, AloneInv, Frame, Live, Kept
  <2>5. NodeInv(s)'
    BY <1>1, <1>2, <1>3 DEF SlotInv, NodeInv, Drained, Frame
  <2>6. StageInv(s)'
    BY <1>0, <1>1, <1>3 DEF StageInv
  <2> QED
    BY <2>1, <2>2, <2>3, <2>4, <2>5, <2>6 DEF SlotInv
<1> QED
  BY <1>1, <1>4, <1>5, SlotKeeps

\* The request is one of the record's operation.
Suits(s, stage) == /\ record[s].state = "create" => stage \in Creating
                   /\ record[s].state = "configure" => stage \in Configuring
                   /\ record[s].state = "drain" => stage \in Draining
                   /\ record[s].state = "delete" => stage \in Deleting

\* A call that has its host goes on with it.
LEMMA Reaches ==
    ASSUME HostInv, NEW s \in Slots, UNCHANGED provider,
           Busy(s), call[s].stage \notin Searching, Calm(s),
           NEW stage \in Stages \ (Searching \union Joined \union Parted \union Ended
                                   \union {"none", "ensureActive", "provision"}),
           Suits(s, stage), Goes(s, stage, call[s].host),
           stage = "InstallServer" => /\ host'[call[s].host].op = call[s].op
                                      /\ ~host'[call[s].host].installed
    PROVE  HostStep
<1>0. stage # "none" /\ call[s].host \in Hosts /\ SlotInv(s)
  BY DEF HostInv, SlotInv, CallInv
<1>1. /\ Alone(s) /\ Frame /\ Same /\ Pair(s) /\ restarts' = restarts
      /\ record' = record /\ nextOp' = nextOp
      /\ call'[s] = [stage |-> stage, op |-> call[s].op, host |-> call[s].host]
  BY <1>0, GoesShape
<1>2. /\ Configuring' = Configuring /\ Draining' = Draining
      /\ record'[s] = record[s] /\ call'[s].host = call[s].host /\ call'[s].op = call[s].op
      /\ call'[s].stage = stage
      /\ durable' = durable /\ provider' = provider /\ lapsed' = lapsed
  BY <1>1 DEF Configuring, Draining, Waiting, Frame
<1>3. \A k \in Hosts : /\ host[k].state # "none" => host'[k].state # "none"
                       /\ Settled(k) => Settled(k)'
                       /\ Owned /\ host[k].state # "none" => host'[k].slot = host[k].slot
                       /\ Owned /\ host'[k].slot = s /\ host'[k].state = "going" => host[k].state = "going"
  BY HostsAssumption DEF Calm, Spares
<1>4. \A k \in Hosts : durable /\ host'[k].slot = s =>
        /\ host[k].slot = s
        /\ Live(k)' => Live(k)
        /\ host'[k].node = "in" => host[k].node = "in"
  BY HostsAssumption DEF Calm, Spares
<1>5. SlotInv(s)'
  <2>1. CallInv(s)'
    BY <1>0, <1>1, <1>2, <1>3 DEF SlotInv, CallInv, Suits, Busy, Serving
  <2>2. OwnInv(s)'
    BY <1>0, <1>2, <1>3 DEF SlotInv, CallInv, OwnInv, Owned, TakesByName, Settled
  <2>3. WayInv(s)'
    BY <1>2, HostsAssumption, WayStays DEF WayInv, Offered, Kept, Calm
  <2>4. AloneInv(s)'
    BY <1>0, <1>2, <1>4 DEF SlotInv, AloneInv, Live, Busy
  <2>5. NodeInv(s)'
    BY <1>0, <1>2, <1>4 DEF SlotInv, NodeInv, Drained
  <2>6. StageInv(s)'
    BY <1>0, <1>2 DEF StageInv
  <2> QED
    BY <2>1, <2>2, <2>3, <2>4, <2>5, <2>6 DEF SlotInv
<1> QED
  BY <1>1, <1>5, SlotKeeps DEF Calm

-----------------------------------------------------------------------------
(* The kit starts an operation, and has its answer.                         *)

\* The first request of an operation.
Opening == [create |-> Searching \ {"servers.Create"},
            configure |-> Configuring \ Joined,
            drain |-> Draining \ Parted,
            delete |-> Deleting \ Ended]

LEMMA StartsKeeps ==
    ASSUME HostInv, NEW s \in Slots, UNCHANGED provider,
           NEW operation \in Operations, NEW stage \in Opening[operation],
           Starts(s, operation, stage)
    PROVE  HostStep
<1>a. /\ stage \in Stages \ {"none"}
      /\ operation = "create" => stage \in Searching \ {"servers.Create"}
      /\ operation # "create" => stage \notin Searching
      /\ operation = "configure" => stage \in Configuring
      /\ operation = "drain" => stage \in Draining
      /\ operation = "delete" => stage \in Deleting
      /\ stage \notin Joined \union Parted \union Ended \union {"provision", "InstallServer"}
  <2>1. CASE operation = "create"
    BY <2>1 DEF Opening, Stages, Creating, Searching, Joined, Parted, Ended
  <2>2. CASE operation = "configure"
    BY <2>2 DEF Opening, Stages, Creating, Configuring, Waiting, Reaching, Searching, Joined, Parted, Ended
  <2>3. CASE operation = "drain"
    BY <2>3 DEF Opening, Stages, Creating, Draining, Waiting, Reaching, Searching, Joined, Parted, Ended
  <2>4. CASE operation = "delete"
    BY <2>4 DEF Opening, Stages, Deleting, Searching, Joined, Parted, Ended
  <2> QED
    BY <2>1, <2>2, <2>3, <2>4 DEF Operations
<1> USE <1>a
<1>0. /\ SlotInv(s) /\ nextOp \in Nat /\ durable \in BOOLEAN
      /\ call \in [Slots -> [stage : Stages, op : Nat, host : Hosts \union {NoHost}]]
      /\ record \in [Slots -> [state : States, host : Hosts \union {NoHost}]]
  BY DEF HostInv, FleetType
<1>1. record[s].state = From[operation] /\ record[s].state \in {"speculative", "idle", "configured"}
  BY DEF Starts, From, Operations
<1>2. ~Busy(s)
  BY <1>0, <1>1 DEF SlotInv, CallInv, Operations
<1>3. /\ Alone(s) /\ Frame /\ restarts' = restarts /\ nextOp' = nextOp + 1
      /\ host' = host /\ durable' = durable /\ provider' = provider /\ lapsed' = lapsed
      /\ record'[s] = [state |-> operation, host |-> record[s].host]
      /\ call'[s] = [stage |-> stage, op |-> nextOp, host |-> record[s].host]
      /\ record' \in [Slots -> [state : States, host : Hosts \union {NoHost}]]
      /\ call' \in [Slots -> [stage : Stages, op : Nat, host : Hosts \union {NoHost}]]
  BY <1>0 DEF Starts, Alone, Frame, States
<1>4. Pair(s)
  BY <1>3 DEF Pair
<1>5. Calm(s)
  <2>1. \A h \in Hosts : Sound(h)'
    <3> TAKE h \in Hosts
    <3>1. Sound(h) /\ host[h].op \in Nat
      BY DEF HostInv, FleetType, Server
    <3> QED
      BY <1>0, <1>3, <3>1 DEF Sound, MarkTrue, NoneGoing
  <2> QED
    BY <1>3, <2>1 DEF Calm, Spares, HostInv, FleetType, Live, Settled
<1>6. SlotInv(s)'
  <2>1. CallInv(s)'
    <3>1. operation = "create" => record[s].host = NoHost /\ stage \in Creating
      BY <1>0, <1>1 DEF SlotInv, CallInv, From, Creating
    <3>2. operation # "create" => record[s].state \in Kept
      BY <1>1 DEF From, Operations, Kept
    <3>3. Configuring' = Configuring /\ Draining' = Draining
      BY <1>3 DEF Configuring, Draining, Waiting
    <3> QED
      BY <1>0, <1>3, <3>1, <3>2, <3>3, HostsAssumption
         DEF SlotInv, CallInv, Busy, Kept, Serving, Operations, Settled
  <2>2. OwnInv(s)'
    BY <1>0, <1>1, <1>3, HostsAssumption
       DEF SlotInv, CallInv, OwnInv, Owned, TakesByName, Kept, From, Operations
  <2>3. WayInv(s)'
    BY <1>0, <1>1, <1>3 DEF SlotInv, WayInv, WaySeen, Offered, From, Operations
  <2>4. AloneInv(s)'
    BY <1>0, <1>1, <1>3 DEF SlotInv, AloneInv, Live, Busy, Kept, From, Operations
  <2>5. NodeInv(s)'
    BY <1>0, <1>1, <1>3 DEF SlotInv, NodeInv, Drained, From, Operations
  <2>6. StageInv(s)'
    BY <1>0, <1>3 DEF StageInv, HostInv, Sound, FleetType, Server
  <2> QED
    BY <2>1, <2>2, <2>3, <2>4, <2>5, <2>6 DEF SlotInv
<1> QED
  BY <1>3, <1>4, <1>5, <1>6, SlotKeeps DEF Calm

\* The slot itself gains no host and no node by the step.
Fewer(s) == durable => \A k \in Hosts : host'[k].slot = s =>
                /\ host[k].slot = s
                /\ Live(k)' => Live(k)
                /\ host'[k].node = "in" => host[k].node = "in"

LEMMA CalmIsFewer ==
    ASSUME NEW s \in Slots, Calm(s)
    PROVE  Fewer(s)
BY HostsAssumption DEF Calm, Spares, Fewer

\* The end of a call, whatever becomes of the record.
LEMMA EndShape ==
    ASSUME HostInv, NEW s \in Slots, call' = [call EXCEPT ![s] = NoCall],
           record' \in [Slots -> [state : States, host : Hosts \union {NoHost}]],
           \A t \in Slots \ {s} : record'[t] = record[t],
           UNCHANGED <<nextOp, durable, lapsed, restarts, provider>>
    PROVE  Alone(s) /\ Frame /\ Same /\ Pair(s) /\ call'[s] = NoCall
<1>1. /\ call \in [Slots -> [stage : Stages, op : Nat, host : Hosts \union {NoHost}]]
      /\ nextOp \in Nat
  BY DEF HostInv, FleetType
<1>2. NoCall \in [stage : Stages, op : Nat, host : Hosts \union {NoHost}]
  BY DEF NoCall, Stages
<1> QED
  BY <1>1, <1>2 DEF Alone, Frame, Same, Pair, Busy, NoCall

\* A call fails, or is given up at the kit's deadline.
LEMMA ErrsKeeps ==
    ASSUME HostInv, NEW s \in Slots, UNCHANGED provider, Busy(s), Errs(s),
           NEW e \in {s, NoSlot}, Spares(s, e), Fewer(s)
    PROVE  HostStep
<1>0. /\ record \in [Slots -> [state : States, host : Hosts \union {NoHost}]]
      /\ SlotInv(s) /\ record[s].state # "speculative"
  BY DEF HostInv, FleetType, SlotInv, CallInv, Operations
<1>1. /\ record' \in [Slots -> [state : States, host : Hosts \union {NoHost}]]
      /\ record'[s].state = "failed" /\ \A t \in Slots \ {s} : record'[t] = record[t]
      /\ call' = [call EXCEPT ![s] = NoCall]
      /\ UNCHANGED <<nextOp, durable, lapsed, restarts, provider>>
  BY <1>0 DEF Errs, States
<1>2. Alone(s) /\ Frame /\ Pair(s) /\ call'[s] = NoCall
  BY <1>1, EndShape
<1>3. SlotInv(s)'
  <2>1. CallInv(s)' /\ OwnInv(s)' /\ WayInv(s)'
    BY <1>1, <1>2 DEF CallInv, OwnInv, WayInv, Offered, Busy, NoCall, Kept, Serving
  <2>2. AloneInv(s)'
    BY <1>0, <1>1, <1>2 DEF SlotInv, AloneInv, Fewer, Busy, NoCall, Searching, Ended, Kept
  <2>3. NodeInv(s)'
    BY <1>0, <1>1, <1>2 DEF SlotInv, NodeInv, Drained, Fewer
  <2>4. StageInv(s)'
    BY <1>1, <1>2 DEF StageInv, NoCall, Searching, Joined
  <2> QED
    BY <2>1, <2>2, <2>3, <2>4 DEF SlotInv
<1> QED
  BY <1>1, <1>2, <1>3, SlotKeeps

\* The kit gives a call up that goes on by itself.
LEMMA AbandonKeeps ==
    ASSUME HostInv, NEW s \in Slots, Busy(s), provider = "libvirt",
           record' = [record EXCEPT ![s].state = "failed"],
           UNCHANGED <<host, call, nextOp, durable, lapsed, restarts, provider>>
    PROVE  HostStep
<1>1. /\ record \in [Slots -> [state : States, host : Hosts \union {NoHost}]]
      /\ call \in [Slots -> [stage : Stages, op : Nat, host : Hosts \union {NoHost}]]
      /\ SlotInv(s) /\ record[s].state # "speculative" /\ nextOp \in Nat
  BY DEF HostInv, FleetType, SlotInv, CallInv, Operations
<1>2. /\ Alone(s) /\ Frame /\ Same /\ Pair(s)
      /\ record'[s] = [state |-> "failed", host |-> record[s].host] /\ call'[s] = call[s]
  BY <1>1 DEF Alone, Frame, Same, Pair, Busy, States
<1>3. Calm(s)
  BY <1>2, Untouched
<1>4. SlotInv(s)'
  <2>1. CallInv(s)' /\ OwnInv(s)' /\ WayInv(s)'
    BY <1>1, <1>2 DEF SlotInv, CallInv, OwnInv, Owned, WayInv, Offered, Busy, NoCall, Kept, Serving
  <2>2. AloneInv(s)' /\ NodeInv(s)'
    BY <1>1, <1>2 DEF SlotInv, AloneInv, NodeInv, Drained, Live, Busy, Kept
  <2>3. StageInv(s)'
    BY <1>1, <1>2 DEF SlotInv, StageInv, MarkTrue
  <2> QED
    BY <2>1, <2>2, <2>3 DEF SlotInv
<1> QED
  BY <1>2, <1>3, <1>4, SlotKeeps DEF Calm

\* A create, configure or drain answers with its host.
LEMMA AnswersKeeps ==
    ASSUME HostInv, NEW s \in Slots, UNCHANGED provider, Busy(s),
           NEW h \in Hosts, h = call[s].host, Answers(s, h),
           record[s].state # "delete",
           NEW e \in {s, NoSlot}, Spares(s, e),
           e = s => host'[h].state = host[h].state,
           durable => \A k \in Hosts : host'[k].slot = s => host[k].slot = s /\ (Live(k)' => Live(k)),
           record[s].state = "create" => Settled(h)' /\ (WaySeen => host'[h].state # "going"),
           Drained(s) /\ record[s].state \in {"create", "drain", "failed"} =>
             \A k \in Hosts : host'[k].slot = s /\ host'[k].node = "in" =>
               host[k].node = "in" /\ (record[s].state = "drain" => k # h),
           Drained(s) /\ record[s].state = "configure" =>
             \A k \in Hosts : host'[k].slot = s /\ host'[k].node = "in" => host[k].node = "in" \/ k = h
    PROVE  HostStep
<1>0. /\ record \in [Slots -> [state : States, host : Hosts \union {NoHost}]]
      /\ call[s].stage \notin Searching
      /\ SlotInv(s) /\ record[s].state \in {"create", "configure", "drain", "failed"}
  BY HostsAssumption DEF HostInv, FleetType, SlotInv, CallInv, Operations
<1>1. /\ record' \in [Slots -> [state : States, host : Hosts \union {NoHost}]]
      /\ \A t \in Slots \ {s} : record'[t] = record[t]
      /\ record[s].state = "create" => record'[s] = [state |-> "idle", host |-> h]
      /\ record[s].state = "configure" => record'[s] = [state |-> "configured", host |-> h]
      /\ record[s].state = "drain" => record'[s] = [state |-> "idle", host |-> h]
      /\ record[s].state = "failed" => record'[s] = record[s]
      /\ call' = [call EXCEPT ![s] = NoCall]
      /\ UNCHANGED <<nextOp, durable, lapsed, restarts, provider>>
  BY <1>0 DEF Answers, States, Operations, Done
<1>2. Alone(s) /\ Frame /\ Pair(s) /\ call'[s] = NoCall
  BY <1>1, EndShape
<1>3. SlotInv(s)'
  <2>1. CallInv(s)'
    BY <1>0, <1>1, <1>2 DEF SlotInv, CallInv, Busy, NoCall, Kept, Serving, Spares, Settled
  <2>2. OwnInv(s)'
    BY <1>0, <1>1, <1>2, HostsAssumption
       DEF SlotInv, CallInv, OwnInv, Owned, NoCall, Kept, Spares, TakesByName
  <2>3. WayInv(s)'
    <3>1. CASE record[s].state \in {"create", "failed"}
      BY <1>1, <3>1 DEF WayInv, WaySeen, Offered
    <3>2. CASE record[s].state \in {"configure", "drain"}
      <4>1. h = record[s].host /\ Offered(s) /\ record'[s].host = record[s].host
        BY <1>0, <1>1, <3>2 DEF SlotInv, CallInv, Serving, Offered
      <4>2. CASE NoneGoing
        BY <4>1, <4>2, <1>1 DEF WayInv, NoneGoing, Spares, Sound
      <4>3. CASE ~NoneGoing
        <5>1. WaySeen => host[h].state # "going" /\ host[h].state # "none" /\ Owned /\ host[h].slot = s
          BY <1>0, <3>2, <4>1, <4>3 DEF SlotInv, CallInv, WayInv, OwnInv, Owned, WaySeen, TakesByName,
             NoneGoing, Kept, Settled
        <5> QED
          BY <1>1, <4>1, <5>1, HostsAssumption DEF WayInv, WaySeen, Spares
      <4> QED
        BY <4>2, <4>3
    <3> QED
      BY <1>0, <3>1, <3>2
  <2>4. AloneInv(s)'
    BY <1>0, <1>1, <1>2 DEF SlotInv, AloneInv, Busy, NoCall, Searching, Ended, Kept
  <2>5. NodeInv(s)'
    BY <1>0, <1>1, <1>2 DEF SlotInv, CallInv, NodeInv, Drained, Serving, Parted, NoCall
  <2>6. StageInv(s)'
    BY <1>1, <1>2 DEF StageInv, NoCall, Searching, Joined
  <2> QED
    BY <2>1, <2>2, <2>3, <2>4, <2>5, <2>6 DEF SlotInv
<1> QED
  BY <1>1, <1>2, <1>3, SlotKeeps

\* A call that ends without a change to a cluster.
LEMMA QuietAnswersKeeps ==
    ASSUME HostInv, NEW s \in Slots, UNCHANGED provider, Busy(s),
           call[s].host \in Hosts, Answers(s, call[s].host), Calm(s),
           record[s].state # "delete",
           record[s].state = "create" =>
             /\ host'[call[s].host].state \notin {"none", "pending"}
             /\ WaySeen => host'[call[s].host].state # "going",
           record[s].state = "drain" => call[s].stage \in Parted
    PROVE  HostStep
<1>0. PICK h \in Hosts : h = call[s].host
  OBVIOUS
<1>1. Spares(s, NoSlot) /\ s # NoSlot /\ SlotInv(s)
  BY HostsAssumption DEF Calm, HostInv
<1>2. durable => \A k \in Hosts : host'[k].slot = s =>
        /\ host[k].slot = s
        /\ Live(k)' => Live(k)
        /\ host'[k].node = "in" => host[k].node = "in" /\ (Drained(s) => record[s].state # "drain")
  BY <1>1 DEF Spares, SlotInv, NodeInv, Drained
<1>3. durable => \A k \in Hosts : host'[k].slot = s => host[k].slot = s /\ (Live(k)' => Live(k))
  BY <1>2
<1>4. Drained(s) /\ record[s].state \in {"create", "drain", "failed"} =>
        \A k \in Hosts : host'[k].slot = s /\ host'[k].node = "in" =>
          host[k].node = "in" /\ (record[s].state = "drain" => k # h)
  BY <1>2 DEF Drained
<1>5. Drained(s) /\ record[s].state = "configure" =>
        \A k \in Hosts : host'[k].slot = s /\ host'[k].node = "in" =>
          host[k].node = "in" \/ k = h
  BY <1>2 DEF Drained
<1>6. record[s].state = "create" => Settled(h)' /\ (WaySeen => host'[h].state # "going")
  BY <1>0 DEF Settled
<1>7. NoSlot \in {s, NoSlot} /\ (NoSlot = s => host'[h].state = host[h].state) /\ Answers(s, h)
  BY <1>0, <1>1
<1> QED
  BY <1>0, <1>1, <1>3, <1>4, <1>5, <1>6, <1>7, AnswersKeeps

-----------------------------------------------------------------------------
(* The bootstrap and the drain.                                             *)

\* The hook runs on the call's host, or on one with the same machine id.
Reached(s, k) == k = call[s].host \/ host[k].slot = host[call[s].host].slot

LEMMA JoinSpares ==
    ASSUME HostInv, Same, NEW s \in Slots, call[s].host \in Hosts,
           NEW k \in Hosts, Reached(s, k), Joins(k),
           provider = "scaleway-metal" => host[k].installed
    PROVE  /\ Spares(s, s)
           /\ host' \in [Hosts -> Server] /\ host'[k].node = "in"
           /\ \A h \in Hosts : /\ host'[h].slot = host[h].slot /\ host'[h].state = host[h].state
                               /\ host'[h].op = host[h].op /\ host'[h].installed = host[h].installed
                               /\ h # k => host'[h].node = host[h].node
           /\ durable => host[k].slot = s /\ (Busy(s) => k = call[s].host)
<1>1. /\ host \in [Hosts -> Server] /\ host' = [host EXCEPT ![k].node = "in"]
      /\ host[k].state = "up"
  BY DEF Joins, HostInv, FleetType
<1>2. /\ host' \in [Hosts -> Server] /\ host'[k].node = "in"
      /\ \A h \in Hosts : /\ host'[h].slot = host[h].slot /\ host'[h].state = host[h].state
                          /\ host'[h].op = host[h].op /\ host'[h].installed = host[h].installed
                          /\ host'[h].bound = host[h].bound
                          /\ h # k => host'[h].node = host[h].node
  BY <1>1 DEF Server
<1>3. durable => host[k].slot = s /\ (Busy(s) => k = call[s].host)
  <2>1. SlotInv(s)
    BY DEF HostInv
  <2> QED
    BY <1>1, <2>1, HostsAssumption DEF SlotInv, OwnInv, Owned, AloneInv, Reached, Live
<1>4. \A h \in Hosts : Sound(h)'
  <2> TAKE h \in Hosts
  <2>1. Sound(h)
    BY DEF HostInv
  <2> QED
    BY <1>1, <1>2, <2>1 DEF Sound, Same, MarkTrue, NoneGoing
<1>5. Spares(s, s)
  BY <1>2, <1>3, <1>4 DEF Spares, Live, Settled
<1> QED
  BY <1>2, <1>3, <1>5

\* A configure whose bootstrap, or a drain whose hook, is all that is left to do.
LEMMA JoinAnswersKeeps ==
    ASSUME HostInv, NEW s \in Slots, UNCHANGED provider, Busy(s), provider # "scaleway-metal",
           call[s].host \in Hosts, record[s].state = "configure",
           Joins(call[s].host), Answers(s, call[s].host)
    PROVE  HostStep
<1>1. Same /\ Reached(s, call[s].host)
  BY DEF Same, Answers, Reached
<1>2. /\ Spares(s, s)
      /\ \A h \in Hosts : /\ host'[h].slot = host[h].slot /\ host'[h].state = host[h].state
                          /\ h # call[s].host => host'[h].node = host[h].node
  BY <1>1, JoinSpares
<1>3. durable => \A k \in Hosts : host'[k].slot = s => host[k].slot = s /\ (Live(k)' => Live(k))
  BY <1>2 DEF Live
<1>4. Drained(s) /\ record[s].state = "configure" =>
        \A k \in Hosts : host'[k].slot = s /\ host'[k].node = "in" =>
          host[k].node = "in" \/ k = call[s].host
  BY <1>2
<1> QED
  BY <1>2, <1>3, <1>4, AnswersKeeps

LEMMA LeaveAnswersKeeps ==
    ASSUME HostInv, NEW s \in Slots, UNCHANGED provider, Busy(s), provider # "scaleway-metal",
           call[s].host \in Hosts, record[s].state = "drain",
           Leaves(call[s].host), Answers(s, call[s].host)
    PROVE  HostStep
<1>1. Same
  BY DEF Same, Answers
<1>2. Spares(s, NoSlot) /\ Fewer(s)
  BY <1>1, LeaveIsCalm, CalmIsFewer DEF Calm
<1>3. host'[call[s].host].node = "left"
  BY DEF Leaves, HostInv, FleetType, Server
<1>4. durable => \A k \in Hosts : host'[k].slot = s => host[k].slot = s /\ (Live(k)' => Live(k))
  BY <1>2 DEF Fewer
<1>5. Drained(s) /\ record[s].state \in {"create", "drain", "failed"} =>
        \A k \in Hosts : host'[k].slot = s /\ host'[k].node = "in" =>
          host[k].node = "in" /\ (record[s].state = "drain" => k # call[s].host)
  BY <1>2, <1>3 DEF Fewer, Drained
<1> QED
  BY <1>2, <1>4, <1>5, AnswersKeeps, HostsAssumption

\* A drain that answers though the node has not left: at Proxmox.
LEMMA UndrainedAnswersKeeps ==
    ASSUME HostInv, NEW s \in Slots, UNCHANGED <<host, provider>>, Busy(s), provider = "proxmox",
           call[s].host \in Hosts, record[s].state = "drain", Answers(s, call[s].host)
    PROVE  HostStep
<1>1. Spares(s, NoSlot) /\ s # NoSlot
  BY Untouched, HostsAssumption DEF Same, Answers, Calm
<1>2. ~Drained(s)
  BY DEF Drained
<1>3. \A k \in Hosts : host'[k].slot = s => host[k].slot = s /\ (Live(k)' => Live(k))
  BY DEF Live
<1> QED
  BY <1>1, <1>2, <1>3, AnswersKeeps

\* The node joins, and the mark of it is left next.
LEMMA JoinGoesKeeps ==
    ASSUME HostInv, NEW s \in Slots, UNCHANGED provider, Busy(s), call[s].stage \notin Searching,
           record[s].state \in {"configure", "failed"},
           NEW k \in Hosts, Reached(s, k), Joins(k),
           k # call[s].host => provider \in {"digitalocean", "scaleway", "scaleway-metal"},
           provider = "scaleway-metal" => host[k].installed,
           NEW stage \in Joined, Goes(s, stage, call[s].host)
    PROVE  HostStep
<1>0. /\ stage \in Stages /\ stage # "none" /\ call[s].host \in Hosts /\ SlotInv(s)
      /\ stage \in Configuring /\ stage \notin Searching \union Ended
      /\ stage \notin {"ensureActive", "provision", "InstallServer"}
  BY DEF HostInv, SlotInv, CallInv, Stages, Joined, Searching, Ended, Configuring
<1>1. /\ Alone(s) /\ Frame /\ Same /\ Pair(s) /\ restarts' = restarts
      /\ record' = record /\ nextOp' = nextOp
      /\ call'[s] = [stage |-> stage, op |-> call[s].op, host |-> call[s].host]
  BY <1>0, GoesShape
<1>2. /\ Spares(s, s) /\ host'[k].node = "in"
      /\ \A h \in Hosts : /\ host'[h].slot = host[h].slot /\ host'[h].state = host[h].state
                          /\ host'[h].op = host[h].op
                          /\ h # k => host'[h].node = host[h].node
      /\ durable => host[k].slot = s /\ k = call[s].host
  BY <1>0, <1>1, JoinSpares
<1>3. SlotInv(s)'
  <2>1. CallInv(s)'
    BY <1>0, <1>1, <1>2 DEF SlotInv, CallInv, Busy, Kept, Serving, Settled, Configuring, Waiting, Frame
  <2>2. OwnInv(s)' /\ WayInv(s)'
    BY <1>0, <1>1, <1>2, HostsAssumption
       DEF SlotInv, CallInv, OwnInv, WayInv, WaySeen, Owned, Frame, Offered, Kept
  <2>3. AloneInv(s)'
    BY <1>0, <1>1, <1>2 DEF SlotInv, AloneInv, Live, Busy, Frame
  <2>4. NodeInv(s)'
    BY <1>0, <1>1, <1>2 DEF SlotInv, CallInv, NodeInv, Drained, Serving, Frame
  <2>5. StageInv(s)'
    BY <1>0, <1>1, <1>2 DEF StageInv, MarkTrue, Frame
  <2> QED
    BY <2>1, <2>2, <2>3, <2>4, <2>5 DEF SlotInv
<1> QED
  BY <1>1, <1>2, <1>3, SlotKeeps

\* The node leaves, and the mark of it is taken off next.
LEMMA LeaveGoesKeeps ==
    ASSUME HostInv, NEW s \in Slots, UNCHANGED provider, Busy(s), call[s].stage \notin Searching,
           record[s].state \in {"drain", "failed"},
           NEW k \in Hosts, Reached(s, k), Leaves(k),
           k # call[s].host => provider \in {"digitalocean", "scaleway", "scaleway-metal"},
           provider = "scaleway-metal" => host[k].installed,
           NEW stage \in Parted, Goes(s, stage, call[s].host)
    PROVE  HostStep
<1>0. /\ stage \in Stages /\ stage # "none" /\ call[s].host \in Hosts /\ SlotInv(s)
      /\ stage \in Draining /\ stage \notin Searching \union Ended
      /\ stage \notin {"ensureActive", "provision", "InstallServer"}
  BY DEF HostInv, SlotInv, CallInv, Stages, Parted, Searching, Ended, Draining
<1>1. /\ Alone(s) /\ Frame /\ Same /\ Pair(s) /\ restarts' = restarts
      /\ record' = record /\ nextOp' = nextOp
      /\ call'[s] = [stage |-> stage, op |-> call[s].op, host |-> call[s].host]
  BY <1>0, GoesShape
<1>2. Calm(s) /\ Fewer(s)
  BY <1>1, LeaveIsCalm, CalmIsFewer
<1>3. /\ host[k].state = "up" /\ host'[k].node = "left"
      /\ \A h \in Hosts : host'[h].slot = host[h].slot /\ host'[h].state = host[h].state
  BY DEF Leaves, HostInv, FleetType, Server
<1>4. SlotInv(s)'
  <2>1. CallInv(s)'
    BY <1>0, <1>1, <1>3 DEF SlotInv, CallInv, Busy, Kept, Serving, Settled, Draining, Waiting, Frame
  <2>2. OwnInv(s)' /\ WayInv(s)'
    BY <1>0, <1>1, <1>3, HostsAssumption
       DEF SlotInv, CallInv, OwnInv, WayInv, WaySeen, Owned, Frame, Offered, Kept
  <2>3. AloneInv(s)'
    BY <1>0, <1>1, <1>3 DEF SlotInv, AloneInv, Live, Busy, Frame
  <2>4. durable => host[k].slot = s /\ k = call[s].host
    BY <1>0, <1>3, HostsAssumption DEF SlotInv, OwnInv, Owned, AloneInv, Reached, Live
  <2>5. NodeInv(s)'
    BY <1>0, <1>1, <1>2, <1>3, <2>4 DEF SlotInv, CallInv, NodeInv, Drained, Serving, Frame, Fewer
  <2>6. StageInv(s)'
    BY <1>0, <1>1, <1>3, <2>4 DEF StageInv, MarkTrue, Frame
  <2> QED
    BY <2>1, <2>2, <2>3, <2>5, <2>6 DEF SlotInv
<1> QED
  BY <1>1, <1>2, <1>4, SlotKeeps DEF Calm

LEMMA CallsHost ==
    ASSUME HostInv, NEW s \in Slots, Busy(s), call[s].stage \notin Searching
    PROVE  /\ call[s].host \in Hosts /\ host[call[s].host] \in Server
           /\ host[call[s].host].state # "none"
           /\ record[s].state \in {"create", "configure", "drain", "delete", "failed"}
BY DEF HostInv, FleetType, SlotInv, CallInv, Operations

\* A command of a lapsed slot's is taken for done, the host as it was.
LEMMA LapsesKeeps ==
    ASSUME HostInv, NEW s \in Slots, UNCHANGED <<host, provider>>, s \in lapsed,
           provider # "libvirt", NEW stage \in Joined \union Parted,
           \/ /\ call[s].stage \in Draining \ Parted /\ stage \in Parted
              /\ record[s].state = "drain" \/ call[s].stage = "DrainNode"
              /\ stage \in Joined => provider = "latitude"
           \/ /\ call[s].stage = "ApplyBootstrap" /\ stage \in Joined \ Parted
              /\ provider = "digitalocean",
           Goes(s, stage, call[s].host)
    PROVE  HostStep
<1>0. /\ stage \in Stages /\ stage # "none" /\ stage \notin Searching \union Ended
      /\ stage \notin {"ensureActive", "provision", "InstallServer"}
      /\ Busy(s) /\ call[s].stage \notin Searching /\ SlotInv(s)
  BY DEF Stages, Joined, Parted, Searching, Ended, Draining, Waiting, Reaching, Busy, HostInv
<1>1. /\ Alone(s) /\ Frame /\ Same /\ Pair(s) /\ restarts' = restarts
      /\ record' = record /\ nextOp' = nextOp
      /\ call'[s] = [stage |-> stage, op |-> call[s].op, host |-> call[s].host]
      /\ call[s].host \in Hosts
  BY <1>0, GoesShape DEF SlotInv, CallInv
<1>2. Calm(s)
  BY <1>1, Untouched
<1>3. \/ record[s].state = "drain" /\ stage \in Parted
      \/ record[s].state = "configure" /\ stage \in Joined \ Parted /\ provider = "digitalocean"
  BY <1>0, CallsHost DEF SlotInv, CallInv, Creating, Configuring, Draining, Deleting, Waiting,
     Reaching, Joined, Parted, Ended, Searching
<1>4. SlotInv(s)'
  <2>1. CallInv(s)'
    BY <1>0, <1>1, <1>3 DEF SlotInv, CallInv, Busy, Kept, Serving, Settled, Draining, Configuring,
       Waiting, Frame
  <2>2. OwnInv(s)' /\ WayInv(s)'
    BY <1>0, <1>1 DEF SlotInv, OwnInv, WayInv, WaySeen, Owned, Frame, Offered, Kept
  <2>3. AloneInv(s)'
    BY <1>0, <1>1 DEF SlotInv, AloneInv, Live, Busy, Frame
  <2>4. NodeInv(s)'
    BY <1>1 DEF NodeInv, Drained, Frame
  <2>5. StageInv(s)'
    <3>1. stage \in Joined => \/ provider = "latitude" /\ record[s].state = "drain"
                              \/ provider = "digitalocean" /\ host[call[s].host].slot = s
      BY <1>0, <1>1, <1>3, HostsAssumption DEF SlotInv, OwnInv, Owned, TakesByName
    <3> QED
      BY <1>0, <1>1, <3>1 DEF StageInv, MarkTrue, Frame
  <2> QED
    BY <2>1, <2>2, <2>3, <2>4, <2>5 DEF SlotInv
<1> QED
  BY <1>1, <1>2, <1>4, SlotKeeps DEF Calm

-----------------------------------------------------------------------------
(* The end of a host.                                                       *)

\* A call for a host's end ends it, or leaves its end to the cloud.
Ending(h) ==
    /\ host'[h].slot = host[h].slot /\ host'[h].op = host[h].op
    /\ host'[h].installed = host[h].installed /\ host'[h].node = host[h].node
    /\ host'[h].bound => host[h].bound
    /\ \/ host'[h].state = host[h].state
       \/ host[h].state # "none" /\ host'[h].state = "gone"
       \/ Listed(h) /\ host'[h].state = "going" /\ ~NoneGoing

LEMMA EndingSpares ==
    ASSUME HostInv, Same, NEW s \in Slots, Busy(s), call[s].stage \notin Searching,
           host' \in [Hosts -> Server], Ending(call[s].host),
           \A k \in Hosts \ {call[s].host} : Mild(k) /\ host'[k].node = host[k].node
    PROVE  Spares(s, s) /\ Fewer(s)
<1>0. /\ SlotInv(s) /\ call[s].host \in Hosts
      /\ Owned => host[call[s].host].slot = s
  BY HostsAssumption DEF HostInv, SlotInv, CallInv, OwnInv
<1>1. \A k \in Hosts : /\ Sound(k)'
                       /\ host'[k].slot = host[k].slot /\ host'[k].op = host[k].op
                       /\ host'[k].installed = host[k].installed
                       /\ host[k].state = "none" <=> host'[k].state = "none"
                       /\ Settled(k) => Settled(k)'
                       /\ host[k].node # "never" => host'[k].node # "never"
                       /\ host'[k].node = "in" => host[k].node = "in"
                       /\ Live(k)' => Live(k)
                       /\ k # call[s].host /\ host'[k].state = "going" => host[k].state = "going"
  <2> TAKE k \in Hosts
  <2>1. Sound(k)
    BY DEF HostInv
  <2>2. Mild(k) \/ Ending(k)
    OBVIOUS
  <2>3. k # call[s].host => Mild(k)
    OBVIOUS
  <2>4. Sound(k)'
    BY <2>1, <2>2 DEF Sound, Same, MarkTrue, NoneGoing, Mild, Ending, Live, Listed
  <2> QED
    BY <2>2, <2>3, <2>4 DEF Mild, Ending, Live, Listed, Settled
<1> QED
  BY <1>0, <1>1 DEF Spares, Fewer

\* A request for the end of a host, and nothing else.
LEMMA RemovalSpares ==
    ASSUME HostInv, Same, NEW s \in Slots, Busy(s), call[s].stage \notin Searching,
           \/ Removed(call[s].host) /\ ~NoneGoing
           \/ host' = [host EXCEPT ![call[s].host].state = "gone"]
           \/ host' = [host EXCEPT ![call[s].host].state = "going"] /\ ~NoneGoing /\ Listed(call[s].host)
           \/ host' = host
    PROVE  Spares(s, s) /\ Fewer(s)
<1>1. /\ host \in [Hosts -> Server] /\ call[s].host \in Hosts
      /\ host[call[s].host].state # "none"
  BY DEF HostInv, FleetType, SlotInv, CallInv
<1>2. PICK c \in Hosts : c = call[s].host
  BY <1>1
<1>3. PICK to \in {host[c].state, "gone", "going"} :
        /\ host' = [host EXCEPT ![c].state = to]
        /\ to = "going" /\ host[c].state # "going" => Listed(c) /\ ~NoneGoing
  <2>1. CASE host' = host
    BY <1>1, <2>1 DEF Server
  <2>2. CASE host' = [host EXCEPT ![c].state = "gone"]
    BY <2>2
  <2>3. CASE host' = [host EXCEPT ![c].state = "going"] /\ ~NoneGoing /\ Listed(c)
    BY <2>3
  <2> QED
    BY <1>2, <2>1, <2>2, <2>3 DEF Removed
<1>4. host' \in [Hosts -> Server]
  BY <1>1, <1>3 DEF Server
<1>5. Ending(c)
  BY <1>1, <1>2, <1>3 DEF Ending, Server
<1>6. \A k \in Hosts \ {c} : Mild(k) /\ host'[k].node = host[k].node
  BY <1>1, <1>3 DEF Mild
<1>7. Ending(call[s].host)
  BY <1>2, <1>5
<1> QED
  BY <1>2, <1>4, <1>6, <1>7, EndingSpares

\* What a call of a delete says of its record.
LEMMA DeletesEnd ==
    ASSUME HostInv, NEW s \in Slots, call[s].stage \in Deleting
    PROVE  /\ Busy(s) /\ call[s].stage \notin Searching /\ call[s].host \in Hosts
           /\ host[call[s].host].state # "none"
           /\ record[s].state = "delete" \/ (record[s].state = "failed" /\ provider = "libvirt")
           /\ record[s].state = "delete" => Settled(call[s].host)
<1>1. Busy(s) /\ SlotInv(s) /\ call[s].stage \notin Searching
  BY DEF HostInv, Deleting, Ended, Busy, Searching
<1>2. record[s].state \notin {"create", "configure", "drain"}
  BY <1>1 DEF SlotInv, CallInv, Creating, Configuring, Draining, Reaching, Waiting, Joined, Parted,
     Searching, Deleting, Ended
<1>3. record[s].state = "delete" \/ (record[s].state = "failed" /\ provider = "libvirt")
  <2>1. /\ record[s].state \in Operations \union {"failed"}
        /\ record[s].state = "failed" => provider = "libvirt"
    BY <1>1 DEF SlotInv, CallInv
  <2> QED
    BY <1>2, <2>1 DEF Operations
<1>4. record[s].state = "delete" => Settled(call[s].host)
  BY <1>1 DEF SlotInv, CallInv, Kept, Serving
<1> QED
  BY <1>1, <1>3, <1>4 DEF SlotInv, CallInv

\* A delete answers once its host has ended, or is to end.
LEMMA DeleteAnswersKeeps ==
    ASSUME HostInv, NEW s \in Slots, UNCHANGED provider, call[s].stage \in Deleting,
           Answers(s, NoHost), Spares(s, s), Fewer(s),
           durable /\ record[s].state = "delete" =>
             host'[call[s].host].state \in {"none", "going", "gone"}
    PROVE  HostStep
<1>0. /\ record \in [Slots -> [state : States, host : Hosts \union {NoHost}]]
      /\ call[s].stage \notin Searching /\ Busy(s) /\ SlotInv(s)
      /\ record[s].state \in {"delete", "failed"}
  BY DeletesEnd DEF HostInv, FleetType
<1>1. /\ record' \in [Slots -> [state : States, host : Hosts \union {NoHost}]]
      /\ \A t \in Slots \ {s} : record'[t] = record[t]
      /\ record[s].state = "delete" => record'[s] = [state |-> "speculative", host |-> NoHost]
      /\ record[s].state = "failed" => record'[s] = record[s]
      /\ call' = [call EXCEPT ![s] = NoCall]
      /\ UNCHANGED <<nextOp, durable, lapsed, restarts, provider>>
  BY <1>0 DEF Answers, States, Operations, Done
<1>2. Alone(s) /\ Frame /\ Pair(s) /\ call'[s] = NoCall
  BY <1>1, EndShape
<1>3. SlotInv(s)'
  <2>1. CallInv(s)' /\ OwnInv(s)' /\ WayInv(s)'
    BY <1>0, <1>1, <1>2 DEF CallInv, OwnInv, WayInv, Offered, Busy, NoCall, Kept, Serving
  <2>2. AloneInv(s)'
    BY <1>0, <1>1, <1>2 DEF SlotInv, AloneInv, Fewer, Live, Busy, NoCall, Searching, Ended, Kept
  <2>3. NodeInv(s)'
    BY <1>0, <1>1, <1>2 DEF SlotInv, NodeInv, Drained, Fewer
  <2>4. StageInv(s)'
    BY <1>1, <1>2 DEF StageInv, NoCall, Searching, Joined
  <2> QED
    BY <2>1, <2>2, <2>3, <2>4 DEF SlotInv
<1> QED
  BY <1>1, <1>2, <1>3, SlotKeeps

\* A delete that is accepted is waited for, or the slot's other hosts are looked for.
LEMMA EndGoesKeeps ==
    ASSUME HostInv, NEW s \in Slots, UNCHANGED provider, call[s].stage \in Deleting,
           provider # "libvirt", NEW stage \in Ended, Goes(s, stage, call[s].host),
           Spares(s, s), Fewer(s), host'[call[s].host].state \in {"none", "going", "gone"}
    PROVE  HostStep
<1>0. /\ stage \in Stages /\ stage # "none" /\ stage \in Deleting
      /\ stage \notin Searching \union Joined \union Parted \union {"provision", "InstallServer"}
      /\ Busy(s) /\ call[s].host \in Hosts /\ call[s].stage \notin Searching /\ SlotInv(s)
      /\ record[s].state = "delete"
  BY DeletesEnd DEF HostInv, Stages, Deleting, Ended, Searching, Joined, Parted
<1>1. /\ Alone(s) /\ Frame /\ Pair(s) /\ restarts' = restarts /\ record' = record
      /\ nextOp' = nextOp /\ durable' = durable /\ provider' = provider
      /\ call'[s] = [stage |-> stage, op |-> call[s].op, host |-> call[s].host]
  BY <1>0, GoesShape DEF Frame
<1>2. \A k \in Hosts : /\ host[k].state # "none" => host'[k].state # "none"
                       /\ Settled(k) => Settled(k)'
                       /\ Owned /\ host[k].state # "none" => host'[k].slot = host[k].slot
  BY DEF Spares
<1>3. SlotInv(s)'
  <2>1. CallInv(s)'
    BY <1>0, <1>1, <1>2 DEF SlotInv, CallInv, Busy, Kept, Serving
  <2>2. OwnInv(s)' /\ WayInv(s)'
    BY <1>0, <1>1, <1>2 DEF SlotInv, CallInv, OwnInv, WayInv, Owned, Offered, Kept, Settled
  <2>3. AloneInv(s)'
    BY <1>0, <1>1 DEF SlotInv, AloneInv, Fewer, Live, Busy
  <2>4. NodeInv(s)'
    BY <1>0, <1>1 DEF SlotInv, NodeInv, Drained, Fewer, Frame
  <2>5. StageInv(s)'
    BY <1>0, <1>1 DEF StageInv
  <2> QED
    BY <2>1, <2>2, <2>3, <2>4, <2>5 DEF SlotInv
<1> QED
  BY <1>1, <1>3, SlotKeeps

\* A server in error is given up for a new one.
LEMMA ReplacesKeeps ==
    ASSUME HostInv, NEW s \in Slots, UNCHANGED provider, provider = "ovhcloud",
           call[s].stage = "ensureActive", record[s].state = "create",
           host[call[s].host].state = "error",
           host' = host \/ host' = [host EXCEPT ![call[s].host].state = "going"],
           Goes(s, "servers.Create", NoHost)
    PROVE  HostStep
<1>0. /\ Busy(s) /\ call[s].stage \notin Searching /\ call[s].host \in Hosts /\ SlotInv(s)
      /\ "servers.Create" \in Stages /\ Listed(call[s].host) /\ ~NoneGoing
  BY DEF HostInv, SlotInv, CallInv, Busy, Searching, Stages, Creating, Listed, NoneGoing
<1>1. /\ Alone(s) /\ Frame /\ Pair(s) /\ restarts' = restarts /\ record' = record /\ Same
      /\ nextOp' = nextOp /\ durable' = durable /\ provider' = provider
      /\ call'[s] = [stage |-> "servers.Create", op |-> call[s].op, host |-> NoHost]
  BY <1>0, GoesShape DEF Frame
<1>2. ~durable
  BY <1>0, HostsAssumption DEF SlotInv, AloneInv, OwnInv, Owned, Live
<1>3. Spares(s, s)
  BY <1>0, <1>1, RemovalSpares
<1>4. SlotInv(s)'
  BY <1>0, <1>1, <1>2 DEF SlotInv, CallInv, OwnInv, AloneInv, WayInv, NodeInv, Drained, StageInv, Busy, Kept,
     Serving, Offered, Searching, Joined, Creating, Operations
<1> QED
  BY <1>1, <1>3, <1>4, SlotKeeps

-----------------------------------------------------------------------------
(* The cloud's steps, and a restart of the provider.                        *)

LEMMA CloudKeeps ==
    ASSUME HostInv, UNCHANGED <<record, call, nextOp, durable, lapsed, restarts, provider>>,
           host' \in [Hosts -> Server], \A h \in Hosts : Mild(h)
    PROVE  HostStep
<1>1. Same /\ Frame /\ Alone(NoSlot)
  BY HostsAssumption DEF Same, Frame, Alone, HostInv, FleetType
<1>2. Spares(NoSlot, NoSlot)
  BY <1>1, MildIsCalm DEF Calm
<1>3. \A t \in Slots : SlotInv(t)'
  <2> TAKE t \in Slots
  <2>1. t \in Slots \ {NoSlot} /\ NoSlot \in Slots \union {NoSlot} /\ NoSlot \in {NoSlot, NoSlot}
    BY HostsAssumption
  <2> QED
    BY <1>1, <1>2, <2>1, OthersKeep
<1>4. CallsDiffer' /\ FleetType'
  BY DEF HostInv, CallsDiffer, FleetType, Busy
<1> QED
  BY <1>2, <1>3, <1>4 DEF HostInv, HostStep, Spares

LEMMA TurnsKeeps ==
    ASSUME HostInv, UNCHANGED provider, NEW h \in Hosts,
           NEW from \in {"pending", "booting", "up", "off", "error", "going"},
           NEW to \in {"booting", "up", "off", "error", "gone"},
           from = "going" => to = "gone", Turns(h, from, to)
    PROVE  HostStep
<1>1. /\ host \in [Hosts -> Server] /\ host' = [host EXCEPT ![h].state = to]
      /\ UNCHANGED <<record, call, nextOp, durable, lapsed, restarts, provider>>
      /\ host[h].state = from
  BY DEF HostInv, FleetType, Turns
<1>2. host' \in [Hosts -> Server]
  BY <1>1 DEF Server
<1>3. \A k \in Hosts : Mild(k)
  BY <1>1 DEF Mild, Server, Live
<1> QED
  BY <1>1, <1>2, <1>3, CloudKeeps

\* What a restart does: the provider forgets marks of its own, and slots may lapse.
Lapsing == lapsed \subseteq lapsed' /\ lapsed' \subseteq Slots
Forgets(h) ==
    /\ host'[h].state = host[h].state /\ host'[h].slot = host[h].slot
    /\ host'[h].op = host[h].op /\ host'[h].node = host[h].node
    /\ host'[h].installed = host[h].installed
    /\ host'[h].bound => host[h].bound

LEMMA RecoveredKeeps ==
    ASSUME HostInv, UNCHANGED provider, Recovered, Lapsing,
           host' \in [Hosts -> Server], \A h \in Hosts : Forgets(h)
    PROVE  HostStep
<1>1. /\ call' \in [Slots -> [stage : Stages, op : Nat, host : Hosts \union {NoHost}]]
      /\ record' \in [Slots -> [state : States, host : Hosts \union {NoHost}]]
      /\ restarts' \in Nat /\ durable' = durable /\ nextOp' = nextOp /\ provider' = provider
      /\ lapsed \subseteq lapsed' /\ lapsed' \subseteq Slots
      /\ \A s \in Slots : /\ call'[s] = NoCall
                          /\ record'[s].host = record[s].host
                          /\ IF record[s].state \in Operations THEN record'[s].state = "failed"
                             ELSE record'[s].state = record[s].state
  BY DEF HostInv, FleetType, Recovered, Lapsing, NoCall, Stages, States
<1>2. \A h \in Hosts : Sound(h)'
  <2> TAKE h \in Hosts
  <2> QED
    BY <1>1 DEF HostInv, Sound, Forgets, MarkTrue, NoneGoing
<1>3. \A s \in Slots : SlotInv(s)'
  <2> TAKE s \in Slots
  <2>0. SlotInv(s) /\ \A h \in Hosts : Forgets(h)
    BY DEF HostInv
  <2>1. CallInv(s)'
    BY <1>1, <2>0 DEF SlotInv, CallInv, Busy, NoCall, Kept, Serving, Operations, Forgets, Settled
  <2>2. OwnInv(s)'
    BY <1>1, <2>0 DEF SlotInv, CallInv, OwnInv, Owned, NoCall, Kept, Forgets
  <2>3. WayInv(s)'
    BY <1>1, <2>0 DEF SlotInv, CallInv, WayInv, WaySeen, Offered, Forgets, Kept, Operations
  <2>4. AloneInv(s)'
    BY <1>1, <2>0 DEF SlotInv, AloneInv, Live, Busy, NoCall, Kept, Forgets, Operations, Searching, Ended
  <2>5. NodeInv(s)'
    BY <1>1, <2>0 DEF SlotInv, NodeInv, Drained, Forgets, Operations
  <2>6. StageInv(s)'
    BY <1>1 DEF StageInv, NoCall, Searching, Joined
  <2> QED
    BY <2>1, <2>2, <2>3, <2>4, <2>5, <2>6 DEF SlotInv
<1>4. CallsDiffer' /\ FleetType'
  BY <1>1 DEF HostInv, CallsDiffer, FleetType, Busy, NoCall
<1> QED
  BY <1>2, <1>3, <1>4 DEF HostInv, HostStep, Forgets

LEMMA ReseededKeeps ==
    ASSUME HostInv, UNCHANGED provider, NEW owners, Reseeded(owners), Lapsing,
           \A s \in Slots : /\ owners[s] \subseteq Marked(s)
                            /\ WaySeen => \A h \in owners[s] : host[h].state # "going",
           host' \in [Hosts -> Server], \A h \in Hosts : Forgets(h)
    PROVE  HostStep
<1>1. PICK owner \in [Slots -> Hosts \union {NoHost}] :
        /\ \A s \in Slots : owner[s] \in (IF owners[s] = {} THEN {NoHost} ELSE owners[s])
        /\ record' = [s \in Slots |->
                        [state |-> IF owner[s] = NoHost THEN "speculative" ELSE "idle",
                         host |-> owner[s]]]
  BY DEF Reseeded
<1>2. /\ call' \in [Slots -> [stage : Stages, op : Nat, host : Hosts \union {NoHost}]]
      /\ record' \in [Slots -> [state : States, host : Hosts \union {NoHost}]]
      /\ restarts' \in Nat /\ ~durable /\ ~durable' /\ durable' = durable /\ nextOp' = 1
      /\ provider' = provider /\ lapsed \subseteq lapsed' /\ lapsed' \subseteq Slots
      /\ \A s \in Slots : call'[s] = NoCall
  BY <1>1 DEF HostInv, FleetType, Reseeded, Lapsing, NoCall, Stages, States
<1>3. \A h \in Hosts : Sound(h)'
  <2> TAKE h \in Hosts
  <2> QED
    BY <1>2 DEF HostInv, Sound, Forgets, MarkTrue, NoneGoing
<1>4. \A s \in Slots : SlotInv(s)'
  <2> TAKE s \in Slots
  <2>0. /\ record'[s].host = owner[s]
        /\ \/ record'[s].state = "speculative" /\ owner[s] = NoHost
           \/ record'[s].state = "idle" /\ owner[s] \in Hosts
      BY <1>1
  <2>1. owner[s] \in Hosts => /\ Forgets(owner[s])
                              /\ owner[s] \in Marked(s)
                              /\ WaySeen => host[owner[s]].state # "going"
    <3>1. owner[s] \in Hosts => owner[s] \in owners[s]
      BY <1>1, HostsAssumption
    <3> QED
      BY <3>1
  <2>2. CallInv(s)'
    BY <1>2, <2>0, <2>1 DEF CallInv, Busy, NoCall, Kept, Serving, Forgets, Settled, Marked, Listed
  <2>3. OwnInv(s)'
    BY <1>2, <2>0, <2>1 DEF OwnInv, NoCall, Kept, Forgets, Marked
  <2>4. WayInv(s)'
    BY <1>2, <2>0, <2>1 DEF WayInv, WaySeen, Offered, Forgets
  <2>5. AloneInv(s)' /\ NodeInv(s)' /\ StageInv(s)'
    BY <1>2 DEF AloneInv, NodeInv, Drained, StageInv, NoCall, Searching, Joined
  <2> QED
    BY <2>2, <2>3, <2>4, <2>5 DEF SlotInv
<1>5. CallsDiffer' /\ FleetType'
  BY <1>2 DEF HostInv, CallsDiffer, FleetType, Busy, NoCall
<1> QED
  BY <1>3, <1>4, <1>5 DEF HostInv, HostStep, Forgets

-----------------------------------------------------------------------------
(* The requests that the providers' operations have in common.              *)

LEMMA LaunchedKeeps ==
    ASSUME HostInv, NEW s \in Slots, UNCHANGED provider, call[s].stage \in Searching,
           NEW h \in Hosts, Launched(h, s, call[s].op),
           NEW stage \in Creating \ (Searching \union {"ensureActive", "InstallServer"}),
           Goes(s, stage, h)
    PROVE  HostStep
<1> DEFINE new == [Unused EXCEPT !.state = "pending", !.slot = s, !.op = call[s].op]
<1>1. /\ new \in Server /\ new.state \in {"pending", "off"} /\ new.slot = s /\ new.op = call[s].op
      /\ ~new.bound /\ new.node = "never" /\ ~new.installed
  BY DEF Unused, Server, HostInv, FleetType
<1>2. host[h].state = "none" /\ host' = [host EXCEPT ![h] = new]
  BY DEF Launched
<1>3. PICK n : n = new
  OBVIOUS
<1> HIDE DEF new
<1> QED
  BY <1>1, <1>2, <1>3, Launches

\* The cloud has a host of the operation's name: one of an earlier life.
LEMMA TakesKeeps ==
    ASSUME HostInv, NEW s \in Slots, UNCHANGED <<host, provider>>, provider \in TakesByName,
           call[s].stage \in Searching \ {"servers.Create"}, NEW h \in Named(call[s].op),
           NEW stage \in Creating \ (Searching \union {"InstallServer"}), Goes(s, stage, h)
    PROVE  HostStep
<1>1. /\ h \in Hosts /\ host[h].state # "none" /\ host[h].op = call[s].op
      /\ call[s].stage \in Searching
  BY DEF Named, Listed
<1>2. ~Owned
  BY <1>1 DEF Owned, HostInv, SlotInv, StageInv
<1>3. Calm(s)
  BY Untouched DEF Same, Goes
<1> QED
  BY <1>1, <1>2, <1>3, Finds

\* The cloud has a host with the slot's machine id.
LEMMA MarkedKeeps ==
    ASSUME HostInv, NEW s \in Slots, UNCHANGED <<host, provider>>,
           call[s].stage \in Searching, NEW h \in Hosts, host[h].state # "none", host[h].slot = s,
           NEW stage \in Creating \ (Searching \union {"provision", "InstallServer"}),
           Goes(s, stage, h)
    PROVE  HostStep
<1>1. Calm(s)
  BY Untouched DEF Same, Goes
<1> QED
  BY <1>1, Finds

\* A host that is stopped is started, or the call goes on with it as it is.
LEMMA WakesIsCalm ==
    ASSUME HostInv, NEW s \in Slots, Same, Busy(s), call[s].stage \notin Searching,
           NEW to \in {"booting", "up", "off"},
           host' = host \/ (Live(call[s].host) /\ host' = [host EXCEPT ![call[s].host].state = to])
    PROVE  Calm(s)
<1>1. call[s].host \in Hosts /\ host[call[s].host].state # "none"
  BY CallsHost
<1>2. PICK h \in Hosts : h = call[s].host
  BY <1>1
<1> QED
  BY <1>1, <1>2, Untouched, TurnIsCalm

\* What was waited for has come, and the create answers.
LEMMA CreatedKeeps ==
    ASSUME HostInv, NEW s \in Slots, UNCHANGED provider,
           call[s].stage \in Creating \ Searching,
           record[s].state # "create" => call[s].stage \notin Waiting \union Reaching,
           \/ /\ host' = host /\ host[call[s].host].state \notin {"none", "pending"}
              /\ WaySeen => host[call[s].host].state # "going"
           \/ Live(call[s].host) /\ host' = [host EXCEPT ![call[s].host].state = "up"],
           Answers(s, call[s].host)
    PROVE  HostStep
<1>1. Busy(s) /\ call[s].stage \notin Searching
  BY DEF Creating, Searching, Busy
<1>2. Calm(s)
  BY <1>1, WakesIsCalm DEF Same, Answers
<1>3. call[s].host \in Hosts /\ SlotInv(s)
  BY <1>1, CallsHost DEF HostInv
<1>4. record[s].state \in {"create", "failed"}
  BY <1>1, <1>3, CallsHost DEF SlotInv, CallInv, Creating, Configuring, Draining, Deleting, Waiting, Reaching,
     Joined, Parted, Ended, Searching
<1>5. /\ host'[call[s].host].state \notin {"none", "pending"}
      /\ WaySeen => host'[call[s].host].state # "going"
  BY <1>3 DEF HostInv, FleetType, Server
<1> QED
  BY <1>1, <1>2, <1>3, <1>4, <1>5, QuietAnswersKeeps

\* A call that has its host goes on to the guest.
LEMMA GoesOnKeeps ==
    ASSUME HostInv, NEW s \in Slots, UNCHANGED provider,
           Busy(s), call[s].stage \notin Searching \union Deleting, Calm(s),
           NEW stage \in (Reaching \union Waiting) \ {"ensureActive"},
           record[s].state = "create" => stage \in Creating,
           Goes(s, stage, call[s].host)
    PROVE  HostStep
<1>1. Suits(s, stage)
  BY DEF Suits, Configuring, Draining, HostInv, SlotInv, CallInv
<1>2. stage \in Stages \ (Searching \union Joined \union Parted \union Ended
                         \union {"none", "ensureActive", "provision"})
  BY DEF Reaching, Waiting, Searching, Joined, Parted, Ended, Stages, Creating
<1>3. stage # "InstallServer"
  BY DEF Reaching, Waiting
<1> QED
  BY <1>1, <1>2, <1>3, Reaches

\* The mark of a binding is made or taken off, and the call answers.
LEMMA MarksKeeps ==
    ASSUME HostInv, NEW s \in Slots, UNCHANGED provider, provider # "latitude",
           \/ call[s].stage \in Joined /\ Binds(call[s].host)
           \/ call[s].stage \in Parted /\ Unbinds(call[s].host),
           Answers(s, call[s].host)
    PROVE  HostStep
<1>1. Busy(s) /\ call[s].stage \notin Searching
  BY DEF Joined, Parted, Searching, Busy
<1>2. call[s].host \in Hosts /\ SlotInv(s)
  BY <1>1, CallsHost DEF HostInv
<1>3. PICK h \in Hosts : h = call[s].host
  BY <1>2
<1>4. Same
  BY DEF Same, Answers
<1>5. Unbinds(h) \/ (Binds(h) /\ (MarkTrue(h) => host[h].node # "never"))
  BY <1>2, <1>3 DEF SlotInv, StageInv
<1>6. Calm(s)
  BY <1>4, <1>5, BindIsCalm
<1>7. record[s].state \notin {"create", "delete"}
  BY <1>2 DEF SlotInv, CallInv, Creating, Searching, Deleting, Ended, Joined, Parted
<1>8. record[s].state = "drain" => call[s].stage \in Parted
  BY <1>2 DEF SlotInv, CallInv, Draining, Waiting, Reaching, Joined, Parted
<1> QED
  BY <1>1, <1>2, <1>6, <1>7, <1>8, QuietAnswersKeeps

\* The cloud accepts the end of a host, and the delete answers.
LEMMA RemovedKeeps ==
    ASSUME HostInv, NEW s \in Slots, UNCHANGED provider, ~NoneGoing, call[s].stage \in Deleting,
           Removed(call[s].host), Answers(s, NoHost)
    PROVE  HostStep
<1>1. /\ Busy(s) /\ call[s].stage \notin Searching /\ call[s].host \in Hosts
      /\ record[s].state = "delete" => Settled(call[s].host)
  BY DeletesEnd
<1>2. Spares(s, s) /\ Fewer(s)
  BY <1>1, RemovalSpares DEF Same, Answers
<1>3. record[s].state = "delete" => host'[call[s].host].state \in {"none", "going", "gone"}
  BY <1>1 DEF Removed, Listed, Settled, HostInv, FleetType, Server
<1> QED
  BY <1>2, <1>3, DeleteAnswersKeeps

\* The host has ended, by this request or before, and the delete answers.
LEMMA GoneKeeps ==
    ASSUME HostInv, NEW s \in Slots, UNCHANGED provider, call[s].stage \in Deleting,
           \/ host' = [host EXCEPT ![call[s].host].state = "gone"]
           \/ host' = host /\ ~Listed(call[s].host),
           Answers(s, NoHost)
    PROVE  HostStep
<1>1. /\ Busy(s) /\ call[s].stage \notin Searching /\ call[s].host \in Hosts
      /\ record[s].state = "delete" => Settled(call[s].host)
  BY DeletesEnd
<1>2. Spares(s, s) /\ Fewer(s)
  BY <1>1, RemovalSpares DEF Same, Answers
<1>3. record[s].state = "delete" => host'[call[s].host].state \in {"none", "going", "gone"}
  BY <1>1 DEF Listed, Settled, HostInv, FleetType, Server
<1> QED
  BY <1>2, <1>3, DeleteAnswersKeeps

\* A host is stopped before it is deleted.
LEMMA StopsKeeps ==
    ASSUME HostInv, NEW s \in Slots, UNCHANGED provider, NoneGoing,
           call[s].stage \in Deleting, Listed(call[s].host),
           host' = [host EXCEPT ![call[s].host].state = "off"],
           NEW stage \in Deleting \ Ended, Goes(s, stage, call[s].host)
    PROVE  HostStep
<1>1. /\ Busy(s) /\ call[s].stage \notin Searching /\ call[s].host \in Hosts
      /\ record[s].state \in {"delete", "failed"}
  BY DeletesEnd
<1>2. Live(call[s].host)
  BY <1>1 DEF HostInv, Sound, Listed, Live
<1>3. Calm(s)
  BY <1>1, <1>2, WakesIsCalm DEF Same, Goes
<1>4. /\ Suits(s, stage) /\ stage # "InstallServer"
      /\ stage \in Stages \ (Searching \union Joined \union Parted \union Ended
                           \union {"none", "ensureActive", "provision"})
  BY <1>1 DEF Suits, Searching, Joined, Parted, Ended, Stages, Creating, Deleting
<1> QED
  BY <1>1, <1>3, <1>4, Reaches

\* The cloud accepts the end of a host, and the delete waits for it.
LEMMA EndsKeeps ==
    ASSUME HostInv, NEW s \in Slots, UNCHANGED provider, ~NoneGoing,
           call[s].stage \in Deleting, Listed(call[s].host), Removed(call[s].host),
           NEW stage \in Ended, Goes(s, stage, call[s].host)
    PROVE  HostStep
<1>1. Busy(s) /\ call[s].stage \notin Searching /\ call[s].host \in Hosts
  BY DeletesEnd
<1>2. Spares(s, s) /\ Fewer(s)
  BY <1>1, RemovalSpares DEF Same, Goes
<1>3. host'[call[s].host].state \in {"none", "going", "gone"} /\ provider # "libvirt"
  BY <1>1 DEF Removed, HostInv, FleetType, Server, NoneGoing
<1> QED
  BY <1>2, <1>3, EndGoesKeeps

LEMMA FailsKeeps ==
    ASSUME HostInv, NEW s \in Slots, UNCHANGED provider, Fails(s)
    PROVE  HostStep
<1>1. Calm(s)
  BY Untouched DEF Same, Fails, Errs
<1> QED
  BY <1>1, CalmIsFewer, ErrsKeeps DEF Calm, Fails, Busy

\* The bootstrap and the drain, by an agent of the machine id where a vault has them.
Vaults == {"digitalocean", "scaleway", "scaleway-metal"}

LEMMA BootstrapKeeps ==
    ASSUME HostInv, NEW s \in Slots, UNCHANGED provider, call[s].stage \in Configuring \ Joined,
           record[s].state = "configure" \/ call[s].stage \in {"ApplyBootstrap", "bootstrap"},
           NEW k \in Hosts, Joins(k),
           k = call[s].host \/ (provider \in Vaults /\ host[k].slot = host[call[s].host].slot),
           provider = "scaleway-metal" => host[k].installed,
           NEW stage \in Joined, Goes(s, stage, call[s].host)
    PROVE  HostStep
<1>1. Busy(s) /\ call[s].stage \notin Searching
  BY DEF Configuring, Waiting, Reaching, Joined, Searching, Busy
<1>2. record[s].state \in {"configure", "failed"}
  BY <1>1, CallsHost
     DEF HostInv, SlotInv, CallInv, Creating, Draining, Deleting, Waiting, Reaching, Parted, Ended, Searching
<1>3. Reached(s, k) /\ (k # call[s].host => provider \in {"digitalocean", "scaleway", "scaleway-metal"})
  BY DEF Reached, Vaults
<1> QED
  BY <1>1, <1>2, <1>3, JoinGoesKeeps

LEMMA DrainKeeps ==
    ASSUME HostInv, NEW s \in Slots, UNCHANGED provider, call[s].stage \in Draining \ Parted,
           record[s].state = "drain" \/ call[s].stage \in {"DrainNode", "drain"},
           NEW k \in Hosts, Leaves(k),
           k = call[s].host \/ (provider \in Vaults /\ host[k].slot = host[call[s].host].slot),
           provider = "scaleway-metal" => host[k].installed,
           NEW stage \in Parted, Goes(s, stage, call[s].host)
    PROVE  HostStep
<1>1. Busy(s) /\ call[s].stage \notin Searching
  BY DEF Draining, Waiting, Reaching, Parted, Searching, Busy
<1>2. record[s].state \in {"drain", "failed"}
  BY <1>1, CallsHost
     DEF HostInv, SlotInv, CallInv, Creating, Configuring, Deleting, Waiting, Reaching, Joined, Ended, Searching
<1>3. Reached(s, k) /\ (k # call[s].host => provider \in {"digitalocean", "scaleway", "scaleway-metal"})
  BY DEF Reached, Vaults
<1> QED
  BY <1>1, <1>2, <1>3, LeaveGoesKeeps

LEMMA RestartKeeps ==
    ASSUME HostInv, UNCHANGED provider, Lapsing,
           NEW owners, Recovered \/ Reseeded(owners),
           ~durable => \A s \in Slots : /\ owners[s] \subseteq Marked(s)
                                        /\ WaySeen => \A h \in owners[s] : host[h].state # "going",
           host' \in [Hosts -> Server], \A h \in Hosts : Forgets(h)
    PROVE  HostStep
<1>1. CASE Recovered
  BY <1>1, RecoveredKeeps
<1>2. CASE Reseeded(owners)
  <2>1. \A s \in Slots : /\ owners[s] \subseteq Marked(s)
                         /\ WaySeen => \A h \in owners[s] : host[h].state # "going"
    BY <1>2 DEF Reseeded
  <2> QED
    BY <1>2, <2>1, ReseededKeeps
<1> QED
  BY <1>1, <1>2

-----------------------------------------------------------------------------
(* The thirteen providers, request by request.                              *)

LEMMA HetznerKeeps ==
    ASSUME HostInv, provider = "hetzner", UNCHANGED provider, Hetzner!Next
    PROVE  HostStep
<1> USE DEF Hetzner!At, Hetzner!Starts, Starts, Hetzner!From, From, Hetzner!Goes, Goes,
        Hetzner!Answers, Answers, Hetzner!NoCall, NoCall, Hetzner!Operations, Operations,
        Hetzner!Done, Done
<1>1. ASSUME NEW s \in Slots, Hetzner!CreateInstance(s) PROVE HostStep
  BY <1>1, StartsKeeps DEF Hetzner!CreateInstance, Opening, Searching
<1>2. ASSUME NEW s \in Slots, Hetzner!CreateServer(s) PROVE HostStep
  <2>1. PICK h \in Hosts :
          /\ call[s].stage = "CreateServer" /\ Goes(s, "waitRunning", h)
          /\ Launched(h, s, call[s].op) \/ (h \in Named(call[s].op) /\ UNCHANGED host)
    BY <1>2 DEF Hetzner!CreateServer, Hetzner!Launched, Launched, Hetzner!Named, Named,
       Hetzner!Unused, Unused, Hetzner!Listed, Listed
  <2> QED
    BY <2>1, LaunchedKeeps, TakesKeeps DEF Searching, Creating, TakesByName
<1>3. ASSUME NEW s \in Slots, Hetzner!WaitRunning(s) PROVE HostStep
  BY <1>3, CreatedKeeps DEF Hetzner!WaitRunning, Creating, Searching, Waiting, Reaching
<1>4. ASSUME NEW s \in Slots, Hetzner!ConfigureInstance(s) PROVE HostStep
  BY <1>4, StartsKeeps DEF Hetzner!ConfigureInstance, Opening, Configuring, Joined
<1>5. ASSUME NEW s \in Slots, Hetzner!ApplyBootstrap(s) PROVE HostStep
  BY <1>5, CallsHost, BootstrapKeeps DEF Hetzner!ApplyBootstrap, Hetzner!Joins, Joins, Configuring,
     Joined, Busy, Searching
<1>6. ASSUME NEW s \in Slots, Hetzner!SetLabel(s) PROVE HostStep
  BY <1>6, MarksKeeps DEF Hetzner!SetLabel, Hetzner!Binds, Binds, Hetzner!Listed, Listed, Joined
<1>7. ASSUME NEW s \in Slots, Hetzner!DrainInstance(s) PROVE HostStep
  BY <1>7, StartsKeeps DEF Hetzner!DrainInstance, Opening, Draining, Parted
<1>8. ASSUME NEW s \in Slots, Hetzner!DrainNode(s) PROVE HostStep
  BY <1>8, CallsHost, DrainKeeps, LapsesKeeps DEF Hetzner!DrainNode, Hetzner!Leaves, Leaves,
     Hetzner!Lapses, Draining, Joined, Parted, Busy, Searching
<1>9. ASSUME NEW s \in Slots, Hetzner!ClearLabel(s) PROVE HostStep
  BY <1>9, MarksKeeps DEF Hetzner!ClearLabel, Hetzner!Unbinds, Unbinds, Hetzner!Listed, Listed,
     Parted
<1>10. ASSUME NEW s \in Slots, Hetzner!DeleteInstance(s) PROVE HostStep
  BY <1>10, StartsKeeps DEF Hetzner!DeleteInstance, Opening, Deleting, Ended
<1>11. ASSUME NEW s \in Slots, Hetzner!DeleteServer(s) PROVE HostStep
  BY <1>11, RemovedKeeps DEF Hetzner!DeleteServer, Hetzner!Removed, Removed, Hetzner!Listed, Listed,
     Deleting, NoneGoing
<1>12. ASSUME NEW s \in Slots, Hetzner!Fails(s) PROVE HostStep
  BY <1>12, FailsKeeps DEF Hetzner!Fails, Fails, Hetzner!Errs, Errs
<1>13. ASSUME NEW h \in Hosts, Hetzner!Appears(h) \/ Hetzner!Boots(h) \/ Hetzner!Ends(h) \/
            Hetzner!Breaks(h)
       PROVE  HostStep
  BY <1>13, TurnsKeeps DEF Hetzner!Appears, Hetzner!Boots, Hetzner!Ends, Hetzner!Breaks,
     Hetzner!Turns, Turns
<1>14. ASSUME Hetzner!Restart PROVE HostStep
  <2> DEFINE owners == [s \in Slots |-> Hetzner!Describe(s)]
  <2>0. Lapsing
    BY <1>14 DEF Hetzner!Restart, Lapsing, HostInv, FleetType
  <2>1. host' \in [Hosts -> Server] /\ \A h \in Hosts : Forgets(h)
    BY <1>14 DEF Hetzner!Restart, HostInv, FleetType, Forgets
  <2>2. Recovered \/ Reseeded(owners)
    BY <1>14 DEF Hetzner!Restart, Hetzner!Recovered, Recovered, Hetzner!Reseeded, Reseeded
  <2>3. ~durable => \A s \in Slots :
          /\ owners[s] \subseteq Marked(s)
          /\ WaySeen => \A h \in owners[s] : host[h].state # "going"
    BY DEF WaySeen, Hetzner!Describe, Hetzner!Marked, Marked, Hetzner!Listed, Listed
  <2> HIDE DEF owners
  <2> QED
    BY <2>0, <2>1, <2>2, <2>3, RestartKeeps
<1> QED
  BY <1>1, <1>2, <1>3, <1>4, <1>5, <1>6, <1>7, <1>8, <1>9, <1>10, <1>11, <1>12, <1>13, <1>14 DEF Hetzner!Next

LEMMA DigitalOceanKeeps ==
    ASSUME HostInv, provider = "digitalocean", UNCHANGED provider, DigitalOcean!Next
    PROVE  HostStep
<1> USE DEF DigitalOcean!At, DigitalOcean!Starts, Starts, DigitalOcean!From, From,
        DigitalOcean!Goes, Goes, DigitalOcean!Answers, Answers, DigitalOcean!NoCall, NoCall,
        DigitalOcean!Operations, Operations, DigitalOcean!Done, Done
<1>1. ASSUME NEW s \in Slots, DigitalOcean!CreateInstance(s) PROVE HostStep
  BY <1>1, StartsKeeps DEF DigitalOcean!CreateInstance, Opening, Searching
<1>2. ASSUME NEW s \in Slots, DigitalOcean!Lookup(s) PROVE HostStep
  <2>1. /\ call[s].stage = "lookup" /\ UNCHANGED host
        /\ \/ Goes(s, "Droplets.Create", NoHost)
           \/ \E h \in Hosts : /\ host[h].state # "none" /\ host[h].slot = s
                               /\ Goes(s, "waitActive", h)
    BY <1>2 DEF DigitalOcean!Lookup, DigitalOcean!ExistingManagedDroplet, DigitalOcean!Marked,
       Marked, DigitalOcean!Listed, Listed
  <2> QED
    BY <2>1, Seeks, MarkedKeeps DEF Searching, Creating
<1>3. ASSUME NEW s \in Slots, DigitalOcean!CreateDroplet(s) PROVE HostStep
  <2>1. PICK h \in Hosts :
          /\ call[s].stage = "Droplets.Create" /\ Goes(s, "waitActive", h)
          /\ Launched(h, s, call[s].op)
    BY <1>3 DEF DigitalOcean!CreateDroplet, DigitalOcean!Launched, Launched, DigitalOcean!Unused,
       Unused
  <2> QED
    BY <2>1, LaunchedKeeps DEF Searching, Creating
<1>4. ASSUME NEW s \in Slots, DigitalOcean!WaitActive(s) PROVE HostStep
  BY <1>4, CreatedKeeps DEF DigitalOcean!WaitActive, Creating, Searching, Waiting, Reaching
<1>5. ASSUME NEW s \in Slots, DigitalOcean!ConfigureInstance(s) PROVE HostStep
  BY <1>5, StartsKeeps DEF DigitalOcean!ConfigureInstance, Opening, Configuring, Joined
<1>6. ASSUME NEW s \in Slots, DigitalOcean!ApplyBootstrap(s) PROVE HostStep
  <2>1. /\ call[s].stage = "ApplyBootstrap" /\ Goes(s, "setClusterTag", call[s].host)
        /\ \/ \E k \in Hosts : host[k].slot = host[call[s].host].slot /\ Joins(k)
           \/ s \in lapsed /\ host' = host
    BY <1>6 DEF DigitalOcean!ApplyBootstrap, DigitalOcean!Agents, DigitalOcean!Marked, Marked,
       DigitalOcean!Joins, Joins, DigitalOcean!OldAck, DigitalOcean!Lapses
  <2> QED
    BY <2>1, BootstrapKeeps, LapsesKeeps DEF Vaults, Configuring, Joined, Parted, Reaching
<1>7. ASSUME NEW s \in Slots, DigitalOcean!SetClusterTag(s) PROVE HostStep
  BY <1>7, MarksKeeps DEF DigitalOcean!SetClusterTag, DigitalOcean!Binds, Binds,
     DigitalOcean!Listed, Listed, Joined
<1>8. ASSUME NEW s \in Slots, DigitalOcean!DrainInstance(s) PROVE HostStep
  BY <1>8, StartsKeeps DEF DigitalOcean!DrainInstance, Opening, Draining, Parted
<1>9. ASSUME NEW s \in Slots, DigitalOcean!DrainNode(s) PROVE HostStep
  <2>1. /\ call[s].stage = "DrainNode" /\ Goes(s, "clearClusterTag", call[s].host)
        /\ \/ \E k \in Hosts : host[k].slot = host[call[s].host].slot /\ Leaves(k)
           \/ s \in lapsed /\ host' = host
    BY <1>9 DEF DigitalOcean!DrainNode, DigitalOcean!Agents, DigitalOcean!Marked, Marked,
       DigitalOcean!Leaves, Leaves, DigitalOcean!OldAck, DigitalOcean!Lapses
  <2> QED
    BY <2>1, DrainKeeps, LapsesKeeps DEF Vaults, Draining, Joined, Parted, Reaching
<1>10. ASSUME NEW s \in Slots, DigitalOcean!ClearClusterTag(s) PROVE HostStep
  BY <1>10, MarksKeeps DEF DigitalOcean!ClearClusterTag, DigitalOcean!Unbinds, Unbinds,
     DigitalOcean!Listed, Listed, Parted
<1>11. ASSUME NEW s \in Slots, DigitalOcean!DeleteInstance(s) PROVE HostStep
  BY <1>11, StartsKeeps DEF DigitalOcean!DeleteInstance, Opening, Deleting, Ended
<1>12. ASSUME NEW s \in Slots, DigitalOcean!DeleteDroplet(s) PROVE HostStep
  BY <1>12, RemovedKeeps DEF DigitalOcean!DeleteDroplet, DigitalOcean!Removed, Removed,
     DigitalOcean!Listed, Listed, Deleting, NoneGoing
<1>13. ASSUME NEW s \in Slots, DigitalOcean!Fails(s) PROVE HostStep
  BY <1>13, FailsKeeps DEF DigitalOcean!Fails, Fails, DigitalOcean!Errs, Errs
<1>14. ASSUME NEW h \in Hosts, DigitalOcean!Appears(h) \/ DigitalOcean!Boots(h) \/
            DigitalOcean!Ends(h) \/ DigitalOcean!Breaks(h)
       PROVE  HostStep
  BY <1>14, TurnsKeeps DEF DigitalOcean!Appears, DigitalOcean!Boots, DigitalOcean!Ends,
     DigitalOcean!Breaks, DigitalOcean!Turns, Turns
<1>15. ASSUME DigitalOcean!Restart PROVE HostStep
  <2> DEFINE owners == [s \in Slots |-> DigitalOcean!Describe(s)]
  <2>0. Lapsing
    BY <1>15 DEF DigitalOcean!Restart, Lapsing, HostInv, FleetType
  <2>1. host' \in [Hosts -> Server] /\ \A h \in Hosts : Forgets(h)
    BY <1>15 DEF DigitalOcean!Restart, HostInv, FleetType, Forgets
  <2>2. Recovered \/ Reseeded(owners)
    BY <1>15 DEF DigitalOcean!Restart, DigitalOcean!Recovered, Recovered, DigitalOcean!Reseeded,
       Reseeded
  <2>3. ~durable => \A s \in Slots :
          /\ owners[s] \subseteq Marked(s)
          /\ WaySeen => \A h \in owners[s] : host[h].state # "going"
    BY DEF WaySeen, DigitalOcean!Describe, DigitalOcean!Marked, Marked, DigitalOcean!Listed, Listed
  <2> HIDE DEF owners
  <2> QED
    BY <2>0, <2>1, <2>2, <2>3, RestartKeeps
<1> QED
  BY <1>1, <1>2, <1>3, <1>4, <1>5, <1>6, <1>7, <1>8, <1>9, <1>10, <1>11, <1>12, <1>13, <1>14, <1>15 DEF DigitalOcean!Next

LEMMA LibvirtKeeps ==
    ASSUME HostInv, provider = "libvirt", UNCHANGED provider, Libvirt!Next
    PROVE  HostStep
<1> USE DEF Libvirt!At, Libvirt!Starts, Starts, Libvirt!From, From, Libvirt!Goes, Goes,
        Libvirt!Answers, Answers, Libvirt!NoCall, NoCall, Libvirt!Operations, Operations,
        Libvirt!Done, Done
<1>1. ASSUME NEW s \in Slots, Libvirt!CreateInstance(s) PROVE HostStep
  BY <1>1, StartsKeeps DEF Libvirt!CreateInstance, Opening, Searching
<1>2. ASSUME NEW s \in Slots, Libvirt!LookupByName(s) PROVE HostStep
  <2>1. /\ call[s].stage = "lookupByName" /\ UNCHANGED host
        /\ \/ Goes(s, "findByMachineID", NoHost)
           \/ \E h \in Named(call[s].op) : Goes(s, "powerOn", h)
    BY <1>2 DEF Libvirt!LookupByName, Libvirt!Named, Named, Libvirt!Listed, Listed
  <2> QED
    BY <2>1, Seeks, TakesKeeps DEF Searching, Creating, TakesByName
<1>3. ASSUME NEW s \in Slots, Libvirt!FindByMachineID(s) PROVE HostStep
  <2>1. /\ call[s].stage = "findByMachineID" /\ UNCHANGED host
        /\ \/ Goes(s, "define", NoHost)
           \/ \E h \in Hosts : /\ host[h].state # "none" /\ host[h].slot = s
                               /\ Goes(s, "powerOn", h)
    BY <1>3 DEF Libvirt!FindByMachineID, Libvirt!Marked, Marked, Libvirt!Listed, Listed
  <2> QED
    BY <2>1, Seeks, MarkedKeeps DEF Searching, Creating
<1>4. ASSUME NEW s \in Slots, Libvirt!PowerOn(s) PROVE HostStep
  <2>1. /\ call[s].stage = "powerOn" /\ Live(call[s].host)
        /\ host' = [host EXCEPT ![call[s].host].state = "up"]
        /\ IF record[s].state = "configure" THEN Goes(s, "bootstrap", call[s].host)
           ELSE IF record[s].state = "drain" THEN Goes(s, "drain", call[s].host)
           ELSE Answers(s, call[s].host)
    BY <1>4 DEF Libvirt!PowerOn, Live
  <2>2. /\ Busy(s) /\ call[s].stage \notin Searching \union Deleting
        /\ call[s].stage \in Creating \ Searching
    BY <2>1 DEF Busy, Searching, Deleting, Ended, Creating
  <2>3. Calm(s) /\ call[s].host \in Hosts /\ record[s].state # "delete"
    BY <2>1, <2>2, WakesIsCalm, CallsHost DEF Same, HostInv, SlotInv, CallInv
  <2>4. CASE record[s].state = "configure"
    <3>1. /\ Suits(s, "bootstrap")
          /\ "bootstrap" \in Stages \ (Searching \union Joined \union Parted \union Ended
                                    \union {"none", "ensureActive", "provision"})
      BY <2>4 DEF Suits, Configuring, Searching, Joined, Parted, Ended, Stages
    <3> QED
      BY <2>1, <2>2, <2>3, <2>4, <3>1, Reaches
  <2>5. CASE record[s].state = "drain"
    <3>1. /\ Suits(s, "drain")
          /\ "drain" \in Stages \ (Searching \union Joined \union Parted \union Ended
                                \union {"none", "ensureActive", "provision"})
      BY <2>5 DEF Suits, Draining, Searching, Joined, Parted, Ended, Stages
    <3> QED
      BY <2>1, <2>2, <2>3, <2>5, <3>1, Reaches
  <2>6. CASE record[s].state \notin {"configure", "drain"}
    <3>1. host'[call[s].host].state = "up"
      BY <2>1, <2>3 DEF HostInv, FleetType, Server
    <3> QED
      BY <2>1, <2>2, <2>3, <2>6, <3>1, QuietAnswersKeeps
  <2> QED
    BY <2>4, <2>5, <2>6
<1>5. ASSUME NEW s \in Slots, Libvirt!DefineDomain(s) PROVE HostStep
  <2> DEFINE new == [Unused EXCEPT !.state = "off", !.slot = s, !.op = call[s].op]
  <2>1. PICK h \in Hosts :
          /\ call[s].stage = "define" /\ Goes(s, "start", h)
          /\ host[h].state = "none" /\ host' = [host EXCEPT ![h] = new]
    BY <1>5 DEF Libvirt!DefineDomain, Libvirt!Unused, Unused
  <2>2. /\ new \in Server /\ new.state \in {"pending", "off"} /\ new.slot = s /\ new.op = call[s].op
        /\ ~new.bound /\ new.node = "never" /\ ~new.installed
    BY DEF Unused, Server, HostInv, FleetType
  <2>3. /\ call[s].stage \in Searching
        /\ "start" \in Creating \ (Searching \union {"ensureActive", "InstallServer"})
    BY <2>1 DEF Searching, Creating
  <2> HIDE DEF new
  <2> QED
    BY <2>1, <2>2, <2>3, Launches
<1>6. ASSUME NEW s \in Slots, Libvirt!StartDomain(s) PROVE HostStep
  BY <1>6, CreatedKeeps DEF Libvirt!StartDomain, Live, Creating, Searching, Waiting, Reaching
<1>7. ASSUME NEW s \in Slots, Libvirt!RollBack(s) PROVE HostStep
  <2>1. /\ call[s].stage = "start" /\ Errs(s)
        /\ host' = host \/ host' = [host EXCEPT ![call[s].host].state = "gone"]
    BY <1>7 DEF Libvirt!RollBack, Libvirt!Errs, Errs
  <2>2. Busy(s) /\ call[s].stage \notin Searching
    BY <2>1 DEF Busy, Searching
  <2>3. Spares(s, s) /\ Fewer(s)
    BY <2>1, <2>2, RemovalSpares DEF Same, Errs
  <2> QED
    BY <2>1, <2>2, <2>3, ErrsKeeps
<1>8. ASSUME NEW s \in Slots, Libvirt!ConfigureInstance(s) PROVE HostStep
  BY <1>8, StartsKeeps DEF Libvirt!ConfigureInstance, Opening, Configuring, Joined, Reaching
<1>9. ASSUME NEW s \in Slots, Libvirt!ApplyBootstrap(s) PROVE HostStep
  BY <1>9, CallsHost, BootstrapKeeps DEF Libvirt!ApplyBootstrap, Libvirt!Joins, Joins, Configuring,
     Joined, Busy, Searching
<1>10. ASSUME NEW s \in Slots, Libvirt!SetMetadata(s) PROVE HostStep
  BY <1>10, MarksKeeps DEF Libvirt!SetMetadata, Libvirt!Binds, Binds, Libvirt!Unbinds, Unbinds,
     Libvirt!Listed, Listed, Joined, Parted
<1>11. ASSUME NEW s \in Slots, Libvirt!DrainInstance(s) PROVE HostStep
  BY <1>11, StartsKeeps DEF Libvirt!DrainInstance, Opening, Draining, Parted, Reaching
<1>12. ASSUME NEW s \in Slots, Libvirt!DrainNode(s) PROVE HostStep
  BY <1>12, CallsHost, DrainKeeps DEF Libvirt!DrainNode, Libvirt!Leaves, Leaves, Draining, Parted,
     Busy, Searching
<1>13. ASSUME NEW s \in Slots, Libvirt!DeleteInstance(s) PROVE HostStep
  BY <1>13, StartsKeeps DEF Libvirt!DeleteInstance, Opening, Deleting, Ended
<1>14. ASSUME NEW s \in Slots, Libvirt!DestroyDomain(s) PROVE HostStep
  <2>1. /\ call[s].stage = "destroy"
        /\ IF Listed(call[s].host)
           THEN /\ host' = [host EXCEPT ![call[s].host].state = "off"]
                /\ Goes(s, "undefine", call[s].host)
           ELSE Answers(s, NoHost) /\ host' = host
    BY <1>14 DEF Libvirt!DestroyDomain, Libvirt!Listed, Listed
  <2> QED
    BY <2>1, StopsKeeps, GoneKeeps DEF Deleting, Ended, NoneGoing
<1>15. ASSUME NEW s \in Slots, Libvirt!UndefineDomain(s) PROVE HostStep
  BY <1>15, GoneKeeps DEF Libvirt!UndefineDomain, Deleting, Ended
<1>16. ASSUME NEW s \in Slots, ~Libvirt!At(s, "start") /\ Libvirt!Fails(s) PROVE HostStep
  BY <1>16, FailsKeeps DEF Libvirt!Fails, Fails, Libvirt!Errs, Errs
<1>17. ASSUME NEW s \in Slots, Libvirt!Abandoned(s) PROVE HostStep
  BY <1>17, AbandonKeeps DEF Libvirt!Abandoned, Busy
<1>18. ASSUME NEW h \in Hosts, Libvirt!PowersOff(h) \/ Libvirt!Breaks(h)
       PROVE  HostStep
  BY <1>18, TurnsKeeps DEF Libvirt!PowersOff, Libvirt!Breaks, Libvirt!Turns, Turns
<1>19. ASSUME Libvirt!Restart PROVE HostStep
  <2> DEFINE owners == [s \in Slots |-> Libvirt!Describe(s)]
  <2>0. Lapsing
    BY <1>19 DEF Libvirt!Restart, Lapsing, HostInv, FleetType
  <2>1. host' \in [Hosts -> Server] /\ \A h \in Hosts : Forgets(h)
    BY <1>19 DEF Libvirt!Restart, HostInv, FleetType, Forgets
  <2>2. Recovered \/ Reseeded(owners)
    BY <1>19 DEF Libvirt!Restart, Libvirt!Recovered, Recovered, Libvirt!Reseeded, Reseeded
  <2>3. ~durable => \A s \in Slots :
          /\ owners[s] \subseteq Marked(s)
          /\ WaySeen => \A h \in owners[s] : host[h].state # "going"
    BY DEF WaySeen, Libvirt!Describe, HostInv, Sound, NoneGoing, Libvirt!Marked, Marked,
       Libvirt!Listed, Listed
  <2> HIDE DEF owners
  <2> QED
    BY <2>0, <2>1, <2>2, <2>3, RestartKeeps
<1> QED
  BY <1>1, <1>2, <1>3, <1>4, <1>5, <1>6, <1>7, <1>8, <1>9, <1>10, <1>11, <1>12, <1>13, <1>14, <1>15,
     <1>16, <1>17, <1>18, <1>19 DEF Libvirt!Next

LEMMA UpCloudKeeps ==
    ASSUME HostInv, provider = "upcloud", UNCHANGED provider, UpCloud!Next
    PROVE  HostStep
<1> USE DEF UpCloud!At, UpCloud!Starts, Starts, UpCloud!From, From, UpCloud!Goes, Goes,
        UpCloud!Answers, Answers, UpCloud!NoCall, NoCall, UpCloud!Operations, Operations,
        UpCloud!Done, Done
<1>1. ASSUME NEW s \in Slots, UpCloud!CreateInstance(s) PROVE HostStep
  BY <1>1, StartsKeeps DEF UpCloud!CreateInstance, Opening, Searching
<1>2. ASSUME NEW s \in Slots, UpCloud!ServerByMachineID(s) PROVE HostStep
  <2>1. /\ call[s].stage = "serverByMachineID" /\ UNCHANGED host
        /\ \/ Goes(s, "CreateServer", NoHost)
           \/ \E h \in Hosts : /\ host[h].state # "none" /\ host[h].slot = s
                               /\ Goes(s, "waitStarted", h)
    BY <1>2 DEF UpCloud!ServerByMachineID, UpCloud!Marked, Marked, UpCloud!Listed, Listed
  <2> QED
    BY <2>1, Seeks, MarkedKeeps DEF Searching, Creating
<1>3. ASSUME NEW s \in Slots, UpCloud!CreateServer(s) PROVE HostStep
  <2>1. PICK h \in Hosts :
          /\ call[s].stage = "CreateServer" /\ Goes(s, "waitStarted", h)
          /\ Launched(h, s, call[s].op)
    BY <1>3 DEF UpCloud!CreateServer, UpCloud!Launched, Launched, UpCloud!Unused, Unused
  <2> QED
    BY <2>1, LaunchedKeeps DEF Searching, Creating
<1>4. ASSUME NEW s \in Slots, UpCloud!WaitStarted(s) PROVE HostStep
  <2>1. /\ call[s].stage = "waitStarted" /\ host[call[s].host].state = "up"
        /\ \/ /\ host' = host /\ host[call[s].host].state \notin {"none", "pending"}
              /\ WaySeen => host[call[s].host].state # "going"
           \/ Live(call[s].host) /\ host' = [host EXCEPT ![call[s].host].state = "up"]
        /\ IF record[s].state = "create" THEN Answers(s, call[s].host) ELSE Goes(s, "guest", call[s].host)
    BY <1>4 DEF UpCloud!WaitStarted, Live, Listed
  <2>2. Busy(s) /\ call[s].stage \notin Searching \union Deleting
    BY <2>1 DEF Busy, Searching, Deleting, Ended
  <2>3. CASE record[s].state = "create"
    BY <2>1, <2>3, CreatedKeeps DEF Creating, Searching
  <2>4. CASE record[s].state # "create"
    <3>1. Calm(s)
      BY <2>1, <2>2, <2>4, WakesIsCalm DEF Same
    <3>2. "guest" \in (Reaching \union Waiting) \ {"ensureActive"}
      BY DEF Reaching
    <3> QED
      BY <2>1, <2>2, <2>4, <3>1, <3>2, GoesOnKeeps
  <2> QED
    BY <2>3, <2>4
<1>5. ASSUME NEW s \in Slots, UpCloud!ConfigureInstance(s) PROVE HostStep
  BY <1>5, StartsKeeps DEF UpCloud!ConfigureInstance, Opening, Configuring, Joined, Reaching
<1>6. ASSUME NEW s \in Slots, UpCloud!DrainInstance(s) PROVE HostStep
  BY <1>6, StartsKeeps DEF UpCloud!DrainInstance, Opening, Draining, Parted, Reaching
<1>7. ASSUME NEW s \in Slots, UpCloud!EnsureRunning(s) PROVE HostStep
  <2>1. /\ call[s].stage = "EnsureRunning" /\ Goes(s, "waitStarted", call[s].host)
        /\ host' = host \/ (Live(call[s].host) /\ host' = [host EXCEPT ![call[s].host].state = "booting"])
    <3>1. /\ call[s].stage = "EnsureRunning" /\ Goes(s, "waitStarted", call[s].host)
          /\ host' = [host EXCEPT ![call[s].host].state = IF @ = "off" THEN "booting" ELSE @]
      BY <1>7 DEF UpCloud!EnsureRunning
    <3>2. call[s].host \in Hosts /\ host \in [Hosts -> Server]
      BY <3>1, CallsHost DEF Busy, Searching, HostInv, FleetType
    <3> QED
      BY <3>1, <3>2 DEF Live, Server
  <2>2. Busy(s) /\ call[s].stage \notin Searching \union Deleting
    BY <2>1 DEF Busy, Searching, Deleting, Ended
  <2>3. Calm(s)
    BY <2>1, <2>2, WakesIsCalm DEF Same
  <2>4. "waitStarted" \in (Reaching \union Waiting) \ {"ensureActive"} /\ "waitStarted" \in Creating
    BY DEF Reaching, Waiting, Creating
  <2> QED
    BY <2>1, <2>2, <2>3, <2>4, GoesOnKeeps
<1>8. ASSUME NEW s \in Slots, UpCloud!ApplyBootstrap(s) PROVE HostStep
  BY <1>8, CallsHost, BootstrapKeeps DEF UpCloud!ApplyBootstrap, UpCloud!Joins, Joins, Configuring,
     Joined, Busy, Searching, Reaching
<1>9. ASSUME NEW s \in Slots, UpCloud!DrainNode(s) PROVE HostStep
  BY <1>9, CallsHost, DrainKeeps, LapsesKeeps DEF UpCloud!DrainNode, UpCloud!Leaves, Leaves,
     UpCloud!Lapses, Draining, Joined, Parted, Busy, Searching, Reaching
<1>10. ASSUME NEW s \in Slots, UpCloud!UpdateLabels(s) PROVE HostStep
  BY <1>10, MarksKeeps DEF UpCloud!UpdateLabels, UpCloud!Binds, Binds, UpCloud!Unbinds, Unbinds,
     UpCloud!Listed, Listed, Joined, Parted
<1>11. ASSUME NEW s \in Slots, UpCloud!DeleteInstance(s) PROVE HostStep
  BY <1>11, StartsKeeps DEF UpCloud!DeleteInstance, Opening, Deleting, Ended
<1>12. ASSUME NEW s \in Slots, UpCloud!StopServer(s) PROVE HostStep
  <2>1. /\ call[s].stage = "StopServer"
        /\ IF Listed(call[s].host)
           THEN /\ host' = [host EXCEPT ![call[s].host].state = "off"]
                /\ Goes(s, "DeleteServerAndStorages", call[s].host)
           ELSE Answers(s, NoHost) /\ host' = host
    BY <1>12 DEF UpCloud!StopServer, UpCloud!Listed, Listed
  <2> QED
    BY <2>1, StopsKeeps, GoneKeeps DEF Deleting, Ended, NoneGoing
<1>13. ASSUME NEW s \in Slots, UpCloud!DeleteServerAndStorages(s) PROVE HostStep
  BY <1>13, GoneKeeps DEF UpCloud!DeleteServerAndStorages, Deleting, Ended
<1>14. ASSUME NEW s \in Slots, UpCloud!Fails(s) PROVE HostStep
  BY <1>14, FailsKeeps DEF UpCloud!Fails, Fails, UpCloud!Errs, Errs
<1>15. ASSUME NEW h \in Hosts, UpCloud!Appears(h) \/ UpCloud!Boots(h) \/ UpCloud!PowersOff(h) \/
            UpCloud!Breaks(h)
       PROVE  HostStep
  BY <1>15, TurnsKeeps DEF UpCloud!Appears, UpCloud!Boots, UpCloud!PowersOff, UpCloud!Breaks,
     UpCloud!Turns, Turns
<1>16. ASSUME UpCloud!Restart PROVE HostStep
  <2> DEFINE owners == [s \in Slots |-> UpCloud!Describe(s)]
  <2>0. Lapsing
    BY <1>16 DEF UpCloud!Restart, Lapsing, HostInv, FleetType
  <2>1. host' \in [Hosts -> Server] /\ \A h \in Hosts : Forgets(h)
    BY <1>16 DEF UpCloud!Restart, HostInv, FleetType, Forgets
  <2>2. Recovered \/ Reseeded(owners)
    BY <1>16 DEF UpCloud!Restart, UpCloud!Recovered, Recovered, UpCloud!Reseeded, Reseeded
  <2>3. ~durable => \A s \in Slots :
          /\ owners[s] \subseteq Marked(s)
          /\ WaySeen => \A h \in owners[s] : host[h].state # "going"
    BY DEF WaySeen, UpCloud!Describe, HostInv, Sound, NoneGoing, UpCloud!Marked, Marked,
       UpCloud!Listed, Listed
  <2> HIDE DEF owners
  <2> QED
    BY <2>0, <2>1, <2>2, <2>3, RestartKeeps
<1> QED
  BY <1>1, <1>2, <1>3, <1>4, <1>5, <1>6, <1>7, <1>8, <1>9, <1>10, <1>11, <1>12, <1>13, <1>14, <1>15,
     <1>16 DEF UpCloud!Next

LEMMA OvhKeeps ==
    ASSUME HostInv, provider = "ovhcloud", UNCHANGED provider, Ovh!Next
    PROVE  HostStep
<1> USE DEF Ovh!At, Ovh!Starts, Starts, Ovh!From, From, Ovh!Goes, Goes, Ovh!Answers, Answers,
        Ovh!NoCall, NoCall, Ovh!Operations, Operations, Ovh!Done, Done
<1>1. ASSUME NEW s \in Slots, Ovh!CreateInstance(s) PROVE HostStep
  BY <1>1, StartsKeeps DEF Ovh!CreateInstance, Opening, Searching
<1>2. ASSUME NEW s \in Slots, Ovh!ServerByMachineID(s) PROVE HostStep
  <2>1. /\ call[s].stage = "serverByMachineID" /\ UNCHANGED host
        /\ \/ Goes(s, "servers.Create", NoHost)
           \/ \E h \in Hosts : /\ host[h].state # "none" /\ host[h].slot = s
                               /\ Goes(s, "ensureActive", h)
    BY <1>2 DEF Ovh!ServerByMachineID, Ovh!Describe, Ovh!Marked, Marked, Ovh!Listed, Listed
  <2> QED
    BY <2>1, Seeks, MarkedKeeps DEF Searching, Creating
<1>3. ASSUME NEW s \in Slots, Ovh!EnsureActive(s) PROVE HostStep
  <2>1. /\ call[s].stage = "ensureActive"
        /\ \/ /\ Goes(s, "waitActive", call[s].host)
              /\ \/ host' = host
                 \/ Live(call[s].host) /\ host' = [host EXCEPT ![call[s].host].state = "booting"]
           \/ /\ host[call[s].host].state = "error" /\ record[s].state = "create"
              /\ host' = host \/ host' = [host EXCEPT ![call[s].host].state = "going"]
              /\ Goes(s, "servers.Create", NoHost)
    BY <1>3 DEF Ovh!EnsureActive, Live
  <2>2. Busy(s) /\ call[s].stage \notin Searching \union Deleting
    BY <2>1 DEF Busy, Searching, Deleting, Ended
  <2>3. CASE /\ Goes(s, "waitActive", call[s].host)
             /\ \/ host' = host
                \/ Live(call[s].host) /\ host' = [host EXCEPT ![call[s].host].state = "booting"]
    <3>1. Calm(s)
      BY <2>1, <2>2, <2>3, WakesIsCalm DEF Same
    <3>2. "waitActive" \in (Reaching \union Waiting) \ {"ensureActive"} /\ "waitActive" \in Creating
      BY DEF Waiting, Creating
    <3> QED
      BY <2>2, <2>3, <3>1, <3>2, GoesOnKeeps
  <2>4. CASE /\ host[call[s].host].state = "error" /\ record[s].state = "create"
             /\ host' = host \/ host' = [host EXCEPT ![call[s].host].state = "going"]
             /\ Goes(s, "servers.Create", NoHost)
    BY <2>1, <2>4, ReplacesKeeps
  <2> QED
    BY <2>1, <2>3, <2>4
<1>4. ASSUME NEW s \in Slots, Ovh!CreateServer(s) PROVE HostStep
  <2>1. PICK h \in Hosts :
          /\ call[s].stage = "servers.Create" /\ Goes(s, "waitActive", h)
          /\ Launched(h, s, call[s].op)
    BY <1>4 DEF Ovh!CreateServer, Ovh!Launched, Launched, Ovh!Unused, Unused
  <2> QED
    BY <2>1, LaunchedKeeps DEF Searching, Creating
<1>5. ASSUME NEW s \in Slots, Ovh!WaitActive(s) PROVE HostStep
  <2>1. /\ call[s].stage = "waitActive" /\ host[call[s].host].state \in {"up", "going"}
        /\ \/ /\ host' = host /\ host[call[s].host].state \notin {"none", "pending"}
              /\ WaySeen => host[call[s].host].state # "going"
           \/ Live(call[s].host) /\ host' = [host EXCEPT ![call[s].host].state = "up"]
        /\ IF record[s].state = "create" THEN Answers(s, call[s].host) ELSE Goes(s, "guest", call[s].host)
    BY <1>5 DEF Ovh!WaitActive, Live, WaySeen
  <2>2. Busy(s) /\ call[s].stage \notin Searching \union Deleting
    BY <2>1 DEF Busy, Searching, Deleting, Ended
  <2>3. CASE record[s].state = "create"
    BY <2>1, <2>3, CreatedKeeps DEF Creating, Searching
  <2>4. CASE record[s].state # "create"
    <3>1. Calm(s)
      BY <2>1, <2>2, <2>4, WakesIsCalm DEF Same
    <3>2. "guest" \in (Reaching \union Waiting) \ {"ensureActive"}
      BY DEF Reaching
    <3> QED
      BY <2>1, <2>2, <2>4, <3>1, <3>2, GoesOnKeeps
  <2> QED
    BY <2>3, <2>4
<1>6. ASSUME NEW s \in Slots, Ovh!DeleteErrored(s) PROVE HostStep
  <2>1. /\ call[s].stage = "waitActive" /\ Errs(s) /\ Listed(call[s].host)
        /\ host' = host \/ host' = [host EXCEPT ![call[s].host].state = "going"]
    BY <1>6 DEF Ovh!DeleteErrored, Ovh!Errs, Errs, Listed
  <2>2. Busy(s) /\ call[s].stage \notin Searching /\ ~NoneGoing
    BY <2>1 DEF Busy, Searching, NoneGoing
  <2>3. Spares(s, s) /\ Fewer(s)
    BY <2>1, <2>2, RemovalSpares DEF Same, Errs
  <2> QED
    BY <2>1, <2>2, <2>3, ErrsKeeps
<1>7. ASSUME NEW s \in Slots, Ovh!ConfigureInstance(s) PROVE HostStep
  BY <1>7, StartsKeeps DEF Ovh!ConfigureInstance, Opening, Configuring, Joined, Reaching
<1>8. ASSUME NEW s \in Slots, Ovh!DrainInstance(s) PROVE HostStep
  BY <1>8, StartsKeeps DEF Ovh!DrainInstance, Opening, Draining, Parted, Reaching
<1>9. ASSUME NEW s \in Slots, Ovh!ApplyBootstrap(s) PROVE HostStep
  BY <1>9, CallsHost, BootstrapKeeps DEF Ovh!ApplyBootstrap, Ovh!Joins, Joins, Configuring, Joined,
     Busy, Searching, Reaching
<1>10. ASSUME NEW s \in Slots, Ovh!DrainNode(s) PROVE HostStep
  BY <1>10, CallsHost, DrainKeeps DEF Ovh!DrainNode, Ovh!Leaves, Leaves, Draining, Parted, Busy,
     Searching, Reaching
<1>18. ASSUME NEW s \in Slots, Ovh!DrainUnkeyed(s) PROVE HostStep
  BY <1>18, LapsesKeeps DEF Ovh!DrainUnkeyed, Ovh!Lapses, Draining, Joined, Parted, Reaching
<1>11. ASSUME NEW s \in Slots, Ovh!SetMetadatum(s) PROVE HostStep
  BY <1>11, MarksKeeps DEF Ovh!SetMetadatum, Ovh!Binds, Binds, Ovh!Listed, Listed, Joined
<1>12. ASSUME NEW s \in Slots, Ovh!ClearMetadatum(s) PROVE HostStep
  BY <1>12, MarksKeeps DEF Ovh!ClearMetadatum, Ovh!Unbinds, Unbinds, Ovh!Listed, Listed, Parted
<1>13. ASSUME NEW s \in Slots, Ovh!DeleteInstance(s) PROVE HostStep
  BY <1>13, StartsKeeps DEF Ovh!DeleteInstance, Opening, Deleting, Ended
<1>14. ASSUME NEW s \in Slots, Ovh!DeleteServer(s) PROVE HostStep
  BY <1>14, RemovedKeeps DEF Ovh!DeleteServer, Ovh!Removed, Removed, Ovh!Listed, Listed, Deleting,
     NoneGoing
<1>15. ASSUME NEW s \in Slots, Ovh!Fails(s) PROVE HostStep
  BY <1>15, FailsKeeps DEF Ovh!Fails, Fails, Ovh!Errs, Errs
<1>16. ASSUME NEW h \in Hosts, Ovh!Appears(h) \/ Ovh!Boots(h) \/ Ovh!Errors(h) \/ Ovh!PowersOff(h)
            \/ Ovh!Ends(h) \/ Ovh!Breaks(h)
       PROVE  HostStep
  BY <1>16, TurnsKeeps DEF Ovh!Appears, Ovh!Boots, Ovh!Errors, Ovh!PowersOff, Ovh!Ends, Ovh!Breaks,
     Ovh!Turns, Turns
<1>17. ASSUME Ovh!Restart PROVE HostStep
  <2> DEFINE owners == [s \in Slots |-> Ovh!Describe(s)]
  <2>0. Lapsing
    BY <1>17 DEF Ovh!Restart, Lapsing, HostInv, FleetType
  <2>1. host' \in [Hosts -> Server] /\ \A h \in Hosts : Forgets(h)
    BY <1>17 DEF Ovh!Restart, HostInv, FleetType, Forgets
  <2>2. Recovered \/ Reseeded(owners)
    BY <1>17 DEF Ovh!Restart, Ovh!Recovered, Recovered, Ovh!Reseeded, Reseeded
  <2>3. ~durable => \A s \in Slots :
          /\ owners[s] \subseteq Marked(s)
          /\ WaySeen => \A h \in owners[s] : host[h].state # "going"
    BY DEF WaySeen, Ovh!Describe, Ovh!Marked, Marked, Ovh!Listed, Listed
  <2> HIDE DEF owners
  <2> QED
    BY <2>0, <2>1, <2>2, <2>3, RestartKeeps
<1> QED
  BY <1>1, <1>2, <1>3, <1>4, <1>5, <1>6, <1>7, <1>8, <1>9, <1>10, <1>11, <1>12, <1>13, <1>14, <1>15,
     <1>16, <1>17, <1>18 DEF Ovh!Next

LEMMA IndexKeeps ==
    ASSUME NEW servers \in SUBSET Hosts, NEW hosts \in [Hosts -> Server],
           Latitude!Keeps(servers, hosts)
    PROVE  /\ host' \in [Hosts -> Server]
           /\ \A h \in Hosts : Alike(hosts[h], host'[h]) /\ host'[h].state = hosts[h].state
<1>1. PICK written \in BOOLEAN :
        host' = [h \in Hosts |-> [hosts[h] EXCEPT !.known = h \in servers,
                                                  !.saved = IF written THEN h \in servers ELSE @]]
  BY DEF Latitude!Keeps
<1>2. ASSUME NEW h \in Hosts
      PROVE  /\ host'[h] \in Server /\ Alike(hosts[h], host'[h])
             /\ host'[h].state = hosts[h].state
  <2>1. \E known \in BOOLEAN : known = (h \in servers)
    <3>1. CASE h \in servers
      BY <3>1
    <3>2. CASE h \notin servers
      <4>1. FALSE = (h \in servers)
        BY <3>2
      <4> QED
        BY <4>1
    <3> QED
      BY <3>1, <3>2
  <2>2. PICK known \in BOOLEAN : known = (h \in servers)
    BY <2>1
  <2>3. PICK saved \in BOOLEAN : saved = (IF written THEN known ELSE hosts[h].saved)
    <3>1. hosts[h].saved \in BOOLEAN
      BY DEF Server
    <3> QED
      BY <3>1
  <2>4. host'[h] = Indexed(hosts[h], h \in servers, IF written THEN h \in servers ELSE hosts[h].saved)
    BY <1>1, Zenon DEF Indexed
  <2>5. host'[h] = Indexed(hosts[h], known, saved)
    BY <2>2, <2>3, <2>4
  <2> QED
    BY <2>5, IndexedShape
<1> QED
  BY <1>1, <1>2

\* The index is beside what the slots go by.
LEMMA IndexIsMild ==
    ASSUME HostInv, NEW servers \in SUBSET Hosts, Latitude!Keeps(servers, host)
    PROVE  host' \in [Hosts -> Server] /\ \A h \in Hosts : Mild(h)
<1>1. /\ host' \in [Hosts -> Server]
      /\ \A h \in Hosts : Alike(host[h], host'[h]) /\ host'[h].state = host[h].state
  BY IndexKeeps DEF HostInv, FleetType
<1> QED
  BY <1>1 DEF Mild, Alike

LEMMA LatitudeKeeps ==
    ASSUME HostInv, provider = "latitude", UNCHANGED provider, Latitude!Next
    PROVE  HostStep
<1> USE DEF Latitude!At, Latitude!Starts, Starts, Latitude!From, From, Latitude!Goes, Goes,
        Latitude!Answers, Answers, Latitude!NoCall, NoCall, Latitude!Operations, Operations,
        Latitude!Done, Done
<1>0. Latitude!Known \subseteq Hosts
  BY DEF Latitude!Known
<1>1. ASSUME NEW s \in Slots, Latitude!CreateInstance(s) PROVE HostStep
  BY <1>1, StartsKeeps DEF Latitude!CreateInstance, Opening, Searching
<1>2. ASSUME NEW s \in Slots, Latitude!MachineByID(s) PROVE HostStep
  <2>1. /\ call[s].stage = "machineByID" /\ UNCHANGED host
        /\ \/ Goes(s, "serverByHostname", NoHost)
           \/ \E h \in Hosts : /\ host[h].state # "none" /\ host[h].slot = s
                               /\ Goes(s, "waitPoweredOn", h)
    BY <1>2 DEF Latitude!MachineByID, Latitude!Known, Latitude!Marked, Latitude!Listed
  <2> QED
    BY <2>1, Seeks, MarkedKeeps DEF Searching, Creating
<1>3. ASSUME NEW s \in Slots, NEW h \in Hosts, call[s].stage \in Searching,
             h \in Latitude!Marked(s), Latitude!RecordServer(s, h), Goes(s, "waitPoweredOn", h)
      PROVE  HostStep
  <2>1. host' \in [Hosts -> Server] /\ \A k \in Hosts : Mild(k)
    <3>1. PICK servers \in SUBSET Hosts : Latitude!Keeps(servers, host)
      BY <1>0, <1>3, Zenon DEF Latitude!RecordServer
    <3> QED
      BY <3>1, IndexIsMild
  <2>2. Calm(s)
    BY <1>3, <2>1, MildIsCalm DEF Same
  <2>3. host[h].state # "none" /\ host[h].slot = s
    BY <1>3 DEF Latitude!Marked, Latitude!Listed
  <2>4. "waitPoweredOn" \in Creating \ (Searching \union {"InstallServer"})
    BY DEF Creating, Searching
  <2> QED
    BY <1>3, <2>2, <2>3, <2>4, Finds
<1>4. ASSUME NEW s \in Slots, Latitude!ServerByHostname(s) PROVE HostStep
  <2>1. CASE Goes(s, "Servers.Create", NoHost) /\ UNCHANGED host
    BY <1>4, <2>1, Seeks DEF Latitude!ServerByHostname, Searching
  <2>2. CASE \E h \in Latitude!Marked(s) :
               Latitude!RecordServer(s, h) /\ Goes(s, "waitPoweredOn", h)
    <3>1. PICK h \in Hosts : /\ h \in Latitude!Marked(s) /\ Latitude!RecordServer(s, h)
                             /\ Goes(s, "waitPoweredOn", h)
      BY <2>2 DEF Latitude!Marked
    <3>2. call[s].stage \in Searching
      BY <1>4 DEF Latitude!ServerByHostname, Searching
    <3> QED
      BY <1>3, <3>1, <3>2
  <2> QED
    BY <1>4, <2>1, <2>2 DEF Latitude!ServerByHostname
<1>5. ASSUME NEW s \in Slots, Latitude!DeployServer(s) PROVE HostStep
  <2>1. PICK h \in Hosts :
          /\ call[s].stage = "Servers.Create" /\ Goes(s, "recordServer", h)
          /\ Launched(h, s, call[s].op)
    BY <1>5 DEF Latitude!DeployServer, Latitude!Launched, Launched, Latitude!Unused, Unused
  <2> QED
    BY <2>1, LaunchedKeeps DEF Searching, Creating
<1>6. ASSUME NEW s \in Slots, Latitude!DeployErrored(s) PROVE HostStep
  <2>1. PICK h \in Hosts : /\ h \in Latitude!Marked(s) /\ Latitude!RecordServer(s, h)
                           /\ Goes(s, "waitPoweredOn", h)
    BY <1>6 DEF Latitude!DeployErrored, Latitude!Marked
  <2>2. call[s].stage \in Searching
    BY <1>6 DEF Latitude!DeployErrored, Searching
  <2> QED
    BY <1>3, <2>1, <2>2
<1>7. ASSUME NEW s \in Slots, Latitude!RecordDeployed(s) PROVE HostStep
  <2>1. call[s].stage = "recordServer" /\ Goes(s, "waitPoweredOn", call[s].host)
    BY <1>7 DEF Latitude!RecordDeployed
  <2>2. Busy(s) /\ call[s].stage \notin Searching \union Deleting
    BY <2>1 DEF Busy, Searching, Deleting, Ended
  <2>3. host' \in [Hosts -> Server] /\ \A k \in Hosts : Mild(k)
    <3>1. PICK c \in Hosts : c = call[s].host
      BY <2>2, CallsHost
    <3>2. PICK servers \in SUBSET Hosts : Latitude!Keeps(servers, host)
      BY <1>0, <1>7, <3>1, Zenon DEF Latitude!RecordDeployed, Latitude!RecordServer
    <3> QED
      BY <3>2, IndexIsMild
  <2>4. Calm(s)
    BY <2>1, <2>3, MildIsCalm DEF Same
  <2>5. "waitPoweredOn" \in (Reaching \union Waiting) \ {"ensureActive"} /\ "waitPoweredOn" \in Creating
    BY DEF Reaching, Creating
  <2> QED
    BY <2>1, <2>2, <2>4, <2>5, GoesOnKeeps
<1>8. ASSUME NEW s \in Slots, Latitude!WaitPoweredOn(s) PROVE HostStep
  <2>1. /\ call[s].stage = "waitPoweredOn" /\ host[call[s].host].state = "up" /\ host' = host
        /\ IF record[s].state = "create" THEN Answers(s, call[s].host) ELSE Goes(s, "guest", call[s].host)
    BY <1>8 DEF Latitude!WaitPoweredOn
  <2>2. Busy(s) /\ call[s].stage \notin Searching \union Deleting
    BY <2>1 DEF Busy, Searching, Deleting, Ended
  <2>3. CASE record[s].state = "create"
    BY <2>1, <2>3, CreatedKeeps DEF Creating, Searching
  <2>4. CASE record[s].state # "create"
    <3>1. Calm(s)
      BY <2>1, <2>2, <2>4, WakesIsCalm DEF Same
    <3>2. "guest" \in (Reaching \union Waiting) \ {"ensureActive"}
      BY DEF Reaching
    <3> QED
      BY <2>1, <2>2, <2>4, <3>1, <3>2, GoesOnKeeps
  <2> QED
    BY <2>3, <2>4
<1>9. ASSUME NEW s \in Slots, Latitude!ConfigureInstance(s) PROVE HostStep
  BY <1>9, StartsKeeps DEF Latitude!ConfigureInstance, Opening, Configuring, Joined, Reaching
<1>10. ASSUME NEW s \in Slots, Latitude!DrainInstance(s) PROVE HostStep
  BY <1>10, StartsKeeps DEF Latitude!DrainInstance, Opening, Draining, Parted, Reaching
<1>11. ASSUME NEW s \in Slots, Latitude!EnsureRunning(s) PROVE HostStep
  <2>1. /\ call[s].stage = "ensureRunning" /\ Goes(s, "waitPoweredOn", call[s].host)
        /\ host' = host \/ (Live(call[s].host) /\ host' = [host EXCEPT ![call[s].host].state = "booting"])
    <3>1. /\ call[s].stage = "ensureRunning" /\ Goes(s, "waitPoweredOn", call[s].host)
          /\ host' = [host EXCEPT ![call[s].host].state = IF @ = "off" THEN "booting" ELSE @]
      BY <1>11 DEF Latitude!EnsureRunning
    <3>2. call[s].host \in Hosts /\ host \in [Hosts -> Server]
      BY <3>1, CallsHost DEF Busy, Searching, HostInv, FleetType
    <3> QED
      BY <3>1, <3>2 DEF Live, Server
  <2>2. Busy(s) /\ call[s].stage \notin Searching \union Deleting
    BY <2>1 DEF Busy, Searching, Deleting, Ended
  <2>3. Calm(s)
    BY <2>1, <2>2, WakesIsCalm DEF Same
  <2>4. "waitPoweredOn" \in (Reaching \union Waiting) \ {"ensureActive"} /\ "waitPoweredOn" \in Creating
    BY DEF Reaching, Waiting, Creating
  <2> QED
    BY <2>1, <2>2, <2>3, <2>4, GoesOnKeeps
<1>12. ASSUME NEW s \in Slots, Latitude!ApplyBootstrap(s) PROVE HostStep
  BY <1>12, CallsHost, BootstrapKeeps DEF Latitude!ApplyBootstrap, Latitude!Joins, Joins,
     Configuring, Joined, Busy, Searching, Reaching
<1>13. ASSUME NEW s \in Slots, Latitude!DrainNode(s) PROVE HostStep
  BY <1>13, CallsHost, DrainKeeps, LapsesKeeps DEF Latitude!DrainNode, Latitude!Leaves, Leaves,
     Latitude!Lapses, Draining, Parted, Busy, Searching, Reaching
<1>14. ASSUME NEW s \in Slots, Latitude!SetCluster(s) PROVE HostStep
  <2>1. /\ call[s].stage = "setCluster" /\ Answers(s, call[s].host) /\ Busy(s)
        /\ call[s].stage \in Joined \intersect Parted
        /\ call[s].stage \notin Searching \union Creating \union Deleting
    BY <1>14 DEF Latitude!SetCluster, Busy, Searching, Creating, Deleting, Ended, Joined, Parted
  <2>2. /\ call[s].host \in Hosts /\ SlotInv(s) /\ host \in [Hosts -> Server]
        /\ record[s].state \notin {"create", "delete"}
    BY <2>1, CallsHost DEF HostInv, FleetType, SlotInv, CallInv
  <2>3. PICK c \in Hosts : c = call[s].host
    BY <2>2
  <2>4. record[s].state = "configure" /\ MarkTrue(c) => host[c].node # "never"
    BY <2>1, <2>2, <2>3 DEF SlotInv, StageInv
  <2>5. host' \in [Hosts -> Server] /\ \A k \in Hosts : Mild(k)
    <3>1. CASE host' = host
      BY <2>2, <3>1 DEF Mild
    <3>2. ASSUME NEW b \in BOOLEAN, NEW hosts, hosts = [host EXCEPT ![c].bound = b],
                 b => record[s].state = "configure",
                 Latitude!Keeps(Latitude!Known, hosts)
          PROVE  host' \in [Hosts -> Server] /\ \A k \in Hosts : Mild(k)
      <4>1. hosts \in [Hosts -> Server]
        BY <2>2, <3>2 DEF Server
      <4>2. \A k \in Hosts : /\ hosts[k].state = host[k].state /\ hosts[k].slot = host[k].slot
                             /\ hosts[k].op = host[k].op /\ hosts[k].node = host[k].node
                             /\ hosts[k].installed = host[k].installed
                             /\ k # c => hosts[k].bound = host[k].bound
        BY <2>2, <3>2 DEF Server
      <4>3. /\ host' \in [Hosts -> Server]
            /\ \A h \in Hosts : Alike(hosts[h], host'[h]) /\ host'[h].state = hosts[h].state
        BY <1>0, <3>2, <4>1, IndexKeeps
      <4> QED
        BY <2>4, <3>2, <4>2, <4>3 DEF Mild, Alike
    <3>3. CASE Latitude!Keeps(Latitude!Known, [host EXCEPT ![c].bound = record[s].state = "configure"])
      <4>1. PICK b \in BOOLEAN : b = (record[s].state = "configure")
        OBVIOUS
      <4>2. PICK hosts : hosts = [host EXCEPT ![c].bound = b]
        OBVIOUS
      <4>3. Latitude!Keeps(Latitude!Known, hosts)
        BY <3>3, <4>1, <4>2, Zenon
      <4> QED
        BY <3>2, <4>1, <4>2, <4>3
    <3> QED
      BY <1>14, <2>3, <3>1, <3>3, Zenon DEF Latitude!SetCluster
  <2>6. Calm(s)
    BY <2>1, <2>5, MildIsCalm DEF Same
  <2> QED
    BY <2>1, <2>2, <2>6, QuietAnswersKeeps
<1>15. ASSUME NEW s \in Slots, Latitude!DeleteInstance(s) PROVE HostStep
  BY <1>15, StartsKeeps DEF Latitude!DeleteInstance, Opening, Deleting, Ended
<1>16. ASSUME NEW s \in Slots, Latitude!DeleteServer(s) PROVE HostStep
  <2>1. call[s].stage = "DeleteServer" /\ Answers(s, NoHost) /\ call[s].stage \in Deleting
    BY <1>16 DEF Latitude!DeleteServer, Deleting
  <2>2. /\ Busy(s) /\ call[s].stage \notin Searching /\ ~NoneGoing
        /\ record[s].state = "delete" => Settled(call[s].host)
    BY <2>1, DeletesEnd DEF NoneGoing
  <2>3. PICK c \in Hosts : c = call[s].host
    BY <2>1, DeletesEnd
  <2>4. host \in [Hosts -> Server]
    BY DEF HostInv, FleetType
  <2>5. PICK to \in CloudStates, b \in BOOLEAN :
          /\ ~b /\ IF Listed(c) THEN to = "going" ELSE to = host[c].state
          /\ \E servers \in SUBSET Hosts :
               Latitude!Keeps(servers, [host EXCEPT ![c].state = to, ![c].bound = b])
    <3>1. PICK to \in CloudStates : to = IF Listed(c) THEN "going" ELSE host[c].state
      BY <2>4 DEF Server, CloudStates
    <3>2. Latitude!Keeps(Latitude!Known \ {c}, [host EXCEPT ![c].state = to, ![c].bound = FALSE])
      BY <1>16, <2>3, <3>1 DEF Latitude!DeleteServer, Latitude!Listed, Listed
    <3> QED
      BY <1>0, <3>1, <3>2
  <2>6. PICK going : going = [host EXCEPT ![c].state = to]
    OBVIOUS
  <2>7. PICK hosts : hosts = [going EXCEPT ![c].bound = b]
    OBVIOUS
  <2>8. PICK servers \in SUBSET Hosts : Latitude!Keeps(servers, hosts)
    BY <2>5, <2>6, <2>7
  <2>9. /\ going \in [Hosts -> Server] /\ going[c].state = to
        /\ \A k \in Hosts : /\ going[k].slot = host[k].slot /\ going[k].op = host[k].op
                            /\ going[k].node = host[k].node /\ going[k].bound = host[k].bound
                            /\ going[k].installed = host[k].installed
                            /\ k # c => going[k].state = host[k].state
    BY <2>4, <2>6 DEF Server, CloudStates
  <2>10. /\ hosts \in [Hosts -> Server] /\ hosts[c].state = to
         /\ \A k \in Hosts : /\ hosts[k].slot = host[k].slot /\ hosts[k].op = host[k].op
                             /\ hosts[k].node = host[k].node
                             /\ hosts[k].installed = host[k].installed
                             /\ hosts[k].bound => host[k].bound
                             /\ k # c => hosts[k].state = host[k].state
    BY <2>5, <2>7, <2>9 DEF Server
  <2>11. /\ host' \in [Hosts -> Server]
         /\ \A h \in Hosts : Alike(hosts[h], host'[h]) /\ host'[h].state = hosts[h].state
    BY <2>8, <2>10, IndexKeeps
  <2>12. /\ Ending(c)
         /\ \A k \in Hosts \ {c} : Mild(k) /\ host'[k].node = host[k].node
    BY <2>2, <2>5, <2>10, <2>11 DEF Ending, Mild, Alike
  <2>13. Spares(s, s) /\ Fewer(s)
    BY <2>1, <2>2, <2>3, <2>11, <2>12, EndingSpares DEF Same
  <2>14. record[s].state = "delete" => host'[call[s].host].state \in {"none", "going", "gone"}
    BY <2>2, <2>3, <2>4, <2>5, <2>10, <2>11 DEF Settled, Listed, Server
  <2> QED
    BY <2>1, <2>13, <2>14, DeleteAnswersKeeps
<1>17. ASSUME NEW s \in Slots, Latitude!Fails(s) PROVE HostStep
  BY <1>17, FailsKeeps DEF Latitude!Fails, Fails, Latitude!Errs, Errs
<1>18. ASSUME NEW h \in Hosts, Latitude!Appears(h) \/ Latitude!Boots(h) \/ Latitude!Errors(h) \/
            Latitude!PowersOff(h) \/ Latitude!Ends(h) \/ Latitude!Breaks(h)
       PROVE  HostStep
  BY <1>18, TurnsKeeps DEF Latitude!Appears, Latitude!Boots, Latitude!Errors, Latitude!PowersOff,
     Latitude!Ends, Latitude!Breaks, Latitude!Turns, Turns
<1>19. ASSUME Latitude!Restart PROVE HostStep
  <2> DEFINE owners == [s \in Slots |-> Latitude!Describe(s)]
  <2>0. Lapsing
    BY <1>19 DEF Latitude!Restart, Lapsing, HostInv, FleetType
  <2>1. host' \in [Hosts -> Server] /\ \A h \in Hosts : Forgets(h)
    <3>1. host' = [h \in Hosts |-> Forgotten(host[h], host[h].saved, host[h].bound /\ host[h].saved)]
      BY <1>19 DEF Latitude!Restart, Forgotten
    <3>2. ASSUME NEW h \in Hosts PROVE host'[h] \in Server /\ Forgets(h)
      <4>1. host[h] \in Server
        BY DEF HostInv, FleetType
      <4>2. host[h].saved \in BOOLEAN /\ host[h].bound \in BOOLEAN
        BY <4>1 DEF Server
      <4>20. PICK known \in BOOLEAN, bound \in BOOLEAN :
               known = host[h].saved /\ bound = (host[h].bound /\ host[h].saved)
        BY <4>2
      <4>3. host'[h] = Forgotten(host[h], known, bound)
        BY <3>1, <4>20
      <4>4. PICK new : new = Forgotten(host[h], known, bound)
        OBVIOUS
      <4>5. /\ new \in Server /\ new.state = host[h].state /\ new.slot = host[h].slot
            /\ new.op = host[h].op /\ new.installed = host[h].installed
            /\ new.node = host[h].node /\ new.bound = bound
        BY <4>1, <4>4, ForgottenShape
      <4>6. bound => host[h].bound
        BY <4>20
      <4> QED
        BY <4>3, <4>4, <4>5, <4>6 DEF Forgets
    <3> QED
      BY <3>1, <3>2
  <2>2. Recovered \/ Reseeded(owners)
    BY <1>19 DEF Latitude!Restart, Latitude!Recovered, Recovered, Latitude!Reseeded, Reseeded
  <2>3. ~durable => \A s \in Slots :
          /\ owners[s] \subseteq Marked(s)
          /\ WaySeen => \A h \in owners[s] : host[h].state # "going"
    BY DEF WaySeen, Latitude!Describe, Latitude!Marked, Marked, Latitude!Listed, Listed
  <2> HIDE DEF owners
  <2> QED
    BY <2>0, <2>1, <2>2, <2>3, RestartKeeps
<1> QED
  BY <1>1, <1>2, <1>4, <1>5, <1>6, <1>7, <1>8, <1>9, <1>10, <1>11, <1>12, <1>13, <1>14, <1>15,
     <1>16, <1>17, <1>18, <1>19 DEF Latitude!Next

LEMMA ProxmoxKeeps ==
    ASSUME HostInv, provider = "proxmox", UNCHANGED provider, Proxmox!Next
    PROVE  HostStep
<1> USE DEF Proxmox!At, Proxmox!Starts, Starts, Proxmox!From, From, Proxmox!Goes, Goes,
        Proxmox!Answers, Answers, Proxmox!NoCall, NoCall, Proxmox!Operations, Operations,
        Proxmox!Done, Done
<1>1. ASSUME NEW s \in Slots, Proxmox!CreateInstance(s) PROVE HostStep
  BY <1>1, StartsKeeps DEF Proxmox!CreateInstance, Opening, Searching
<1>2. ASSUME NEW s \in Slots, Proxmox!FindByMachineID(s) PROVE HostStep
  <2>1. /\ call[s].stage = "findByMachineID" /\ UNCHANGED host
        /\ \/ Goes(s, "Clone", NoHost)
           \/ \E h \in Hosts : /\ host[h].state # "none" /\ host[h].slot = s
                               /\ Goes(s, "EnsureRunning", h)
    BY <1>2 DEF Proxmox!FindByMachineID, Proxmox!Marked, Marked, Proxmox!Listed, Listed
  <2> QED
    BY <2>1, Seeks, MarkedKeeps DEF Searching, Creating
<1>3. ASSUME NEW s \in Slots, Proxmox!CloneVM(s) PROVE HostStep
  <2>1. PICK h \in Hosts :
          /\ call[s].stage = "Clone" /\ Goes(s, "configure", h)
          /\ Launched(h, s, call[s].op)
    BY <1>3 DEF Proxmox!CloneVM, Proxmox!Launched, Launched, Proxmox!Unused, Unused
  <2> QED
    BY <2>1, LaunchedKeeps DEF Searching, Creating
<1>4. ASSUME NEW s \in Slots, Proxmox!Configure(s) PROVE HostStep
  <2>1. /\ call[s].stage = "configure" /\ Goes(s, "EnsureRunning", call[s].host)
        /\ host' = host \/ (Live(call[s].host) /\ host' = [host EXCEPT ![call[s].host].state = "booting"])
    BY <1>4, CallsHost DEF Proxmox!Configure, Live
  <2>2. Busy(s) /\ call[s].stage \notin Searching \union Deleting
    BY <2>1 DEF Busy, Searching, Deleting, Ended
  <2>3. Calm(s)
    BY <2>1, <2>2, WakesIsCalm DEF Same
  <2>4. "EnsureRunning" \in (Reaching \union Waiting) \ {"ensureActive"} /\ "EnsureRunning" \in Creating
    BY DEF Reaching, Waiting, Creating
  <2> QED
    BY <2>1, <2>2, <2>3, <2>4, GoesOnKeeps
<1>5. ASSUME NEW s \in Slots, Proxmox!ConfigureInstance(s) PROVE HostStep
  BY <1>5, StartsKeeps DEF Proxmox!ConfigureInstance, Opening, Configuring, Joined, Reaching
<1>6. ASSUME NEW s \in Slots, Proxmox!DrainInstance(s) PROVE HostStep
  BY <1>6, StartsKeeps DEF Proxmox!DrainInstance, Opening, Draining, Parted, Reaching
<1>7. ASSUME NEW s \in Slots, Proxmox!EnsureRunning(s) PROVE HostStep
  <2>1. /\ call[s].stage = "EnsureRunning" /\ host[call[s].host].state \in {"off", "up"}
        /\ \/ /\ host' = host /\ host[call[s].host].state \notin {"none", "pending"}
              /\ WaySeen => host[call[s].host].state # "going"
           \/ Live(call[s].host) /\ host' = [host EXCEPT ![call[s].host].state = "up"]
        /\ IF record[s].state = "create" THEN Answers(s, call[s].host) ELSE Goes(s, "guest", call[s].host)
    BY <1>7 DEF Proxmox!EnsureRunning, Live
  <2>2. Busy(s) /\ call[s].stage \notin Searching \union Deleting
    BY <2>1 DEF Busy, Searching, Deleting, Ended
  <2>3. CASE record[s].state = "create"
    BY <2>1, <2>3, CreatedKeeps DEF Creating, Searching
  <2>4. CASE record[s].state # "create"
    <3>1. Calm(s)
      BY <2>1, <2>2, <2>4, WakesIsCalm DEF Same
    <3>2. "guest" \in (Reaching \union Waiting) \ {"ensureActive"}
      BY DEF Reaching
    <3> QED
      BY <2>1, <2>2, <2>4, <3>1, <3>2, GoesOnKeeps
  <2> QED
    BY <2>3, <2>4
<1>8. ASSUME NEW s \in Slots, Proxmox!ApplyBootstrap(s) PROVE HostStep
  <2>1. /\ call[s].stage = "guest" /\ record[s].state = "configure"
        /\ Joins(call[s].host) /\ Answers(s, call[s].host)
    BY <1>8 DEF Proxmox!ApplyBootstrap, Proxmox!Joins, Joins
  <2>2. Busy(s) /\ call[s].host \in Hosts
    BY <2>1, CallsHost DEF Busy, Searching
  <2> QED
    BY <2>1, <2>2, JoinAnswersKeeps
<1>9. ASSUME NEW s \in Slots, Proxmox!DrainNode(s) PROVE HostStep
  <2>1. /\ call[s].stage = "guest" /\ record[s].state = "drain"
        /\ Leaves(call[s].host) \/ host' = host
        /\ Answers(s, call[s].host)
    BY <1>9 DEF Proxmox!DrainNode, Proxmox!Leaves, Leaves
  <2>2. Busy(s) /\ call[s].host \in Hosts
    BY <2>1, CallsHost DEF Busy, Searching
  <2> QED
    BY <2>1, <2>2, LeaveAnswersKeeps, UndrainedAnswersKeeps
<1>10. ASSUME NEW s \in Slots, Proxmox!DeleteInstance(s) PROVE HostStep
  BY <1>10, StartsKeeps DEF Proxmox!DeleteInstance, Opening, Deleting, Ended
<1>11. ASSUME NEW s \in Slots, Proxmox!StopVM(s) PROVE HostStep
  <2>1. /\ call[s].stage = "Stop"
        /\ IF Listed(call[s].host)
           THEN /\ host' = [host EXCEPT ![call[s].host].state = "off"]
                /\ Goes(s, "Delete", call[s].host)
           ELSE Answers(s, NoHost) /\ host' = host
    BY <1>11 DEF Proxmox!StopVM, Proxmox!Listed, Listed
  <2> QED
    BY <2>1, StopsKeeps, GoneKeeps DEF Deleting, Ended, NoneGoing
<1>12. ASSUME NEW s \in Slots, Proxmox!DestroyVM(s) PROVE HostStep
  BY <1>12, GoneKeeps DEF Proxmox!DestroyVM, Deleting, Ended
<1>13. ASSUME NEW s \in Slots, Proxmox!Fails(s) PROVE HostStep
  BY <1>13, FailsKeeps DEF Proxmox!Fails, Fails, Proxmox!Errs, Errs
<1>14. ASSUME NEW h \in Hosts, Proxmox!Cloned(h) \/ Proxmox!PowersOff(h) \/ Proxmox!Breaks(h)
       PROVE  HostStep
  BY <1>14, TurnsKeeps DEF Proxmox!Cloned, Proxmox!PowersOff, Proxmox!Breaks, Proxmox!Turns, Turns
<1>15. ASSUME Proxmox!Restart PROVE HostStep
  <2> DEFINE read == [s \in Slots |-> Proxmox!Describe(s)]
             unread == [s \in Slots |-> Proxmox!Unread(s)]
  <2>0. Lapsing
    BY <1>15 DEF Proxmox!Restart, Lapsing, HostInv, FleetType
  <2>1. host' \in [Hosts -> Server] /\ \A h \in Hosts : Forgets(h)
    BY <1>15 DEF Proxmox!Restart, HostInv, FleetType, Forgets
  <2>2. Recovered \/ Reseeded(read) \/ Reseeded(unread)
    BY <1>15 DEF Proxmox!Restart, Proxmox!Recovered, Recovered, Proxmox!Reseeded, Reseeded
  <2>3. \A s \in Slots :
          /\ read[s] \subseteq Marked(s)
          /\ WaySeen => \A h \in read[s] : host[h].state # "going"
    BY DEF Proxmox!Describe, HostInv, Sound, NoneGoing, Proxmox!Marked, Marked, Proxmox!Listed, Listed
  <2>4. \A s \in Slots :
          /\ unread[s] \subseteq Marked(s)
          /\ WaySeen => \A h \in unread[s] : host[h].state # "going"
    BY DEF Proxmox!Unread
  <2> HIDE DEF read, unread
  <2> QED
    BY <2>0, <2>1, <2>2, <2>3, <2>4, RestartKeeps
<1> QED
  BY <1>1, <1>2, <1>3, <1>4, <1>5, <1>6, <1>7, <1>8, <1>9, <1>10, <1>11, <1>12, <1>13, <1>14, <1>15 DEF Proxmox!Next

LEMMA GcpKeeps ==
    ASSUME HostInv, provider = "gcp", UNCHANGED provider, Gcp!Next
    PROVE  HostStep
<1> USE DEF Gcp!At, Gcp!Starts, Starts, Gcp!From, From, Gcp!Goes, Goes, Gcp!Answers, Answers,
        Gcp!NoCall, NoCall, Gcp!Operations, Operations, Gcp!Done, Done
<1>1. ASSUME NEW s \in Slots, Gcp!CreateInstance(s) PROVE HostStep
  BY <1>1, StartsKeeps DEF Gcp!CreateInstance, Opening, Searching
<1>2. ASSUME NEW s \in Slots, Gcp!Insert(s) PROVE HostStep
  <2>1. PICK h \in Hosts :
          /\ call[s].stage = "Insert" /\ Goes(s, "waitRunning", h)
          /\ Launched(h, s, call[s].op) \/ (h \in Named(call[s].op) /\ UNCHANGED host)
    BY <1>2 DEF Gcp!Insert, Gcp!Launched, Launched, Gcp!Named, Named, Gcp!Unused, Unused,
       Gcp!Listed, Listed
  <2> QED
    BY <2>1, LaunchedKeeps, TakesKeeps DEF Searching, Creating, TakesByName
<1>3. ASSUME NEW s \in Slots, Gcp!WaitRunning(s) PROVE HostStep
  BY <1>3, CreatedKeeps DEF Gcp!WaitRunning, Creating, Searching, Waiting, Reaching
<1>4. ASSUME NEW s \in Slots, Gcp!ConfigureInstance(s) PROVE HostStep
  BY <1>4, StartsKeeps DEF Gcp!ConfigureInstance, Opening, Configuring, Joined, Reaching
<1>5. ASSUME NEW s \in Slots, Gcp!DrainInstance(s) PROVE HostStep
  BY <1>5, StartsKeeps DEF Gcp!DrainInstance, Opening, Draining, Parted, Reaching
<1>6. ASSUME NEW s \in Slots, Gcp!ApplyBootstrap(s) PROVE HostStep
  BY <1>6, CallsHost, BootstrapKeeps DEF Gcp!ApplyBootstrap, Gcp!Joins, Joins, Configuring, Joined,
     Busy, Searching, Reaching
<1>7. ASSUME NEW s \in Slots, Gcp!DrainNode(s) PROVE HostStep
  BY <1>7, CallsHost, DrainKeeps DEF Gcp!DrainNode, Gcp!Leaves, Leaves, Draining, Parted, Busy,
     Searching, Reaching
<1>8. ASSUME NEW s \in Slots, Gcp!MutateMetadata(s) PROVE HostStep
  BY <1>8, MarksKeeps DEF Gcp!MutateMetadata, Gcp!Binds, Binds, Gcp!Unbinds, Unbinds, Gcp!Listed,
     Listed, Joined, Parted
<1>9. ASSUME NEW s \in Slots, Gcp!DeleteInstance(s) PROVE HostStep
  BY <1>9, StartsKeeps DEF Gcp!DeleteInstance, Opening, Deleting, Ended
<1>10. ASSUME NEW s \in Slots, Gcp!DeleteHost(s) PROVE HostStep
  <2>1. /\ call[s].stage = "Delete" /\ Removed(call[s].host)
        /\ IF Listed(call[s].host) THEN Goes(s, "waitDelete", call[s].host) ELSE Answers(s, NoHost)
    BY <1>10 DEF Gcp!DeleteHost, Gcp!Removed, Removed, Gcp!Listed, Listed
  <2> QED
    BY <2>1, RemovedKeeps, EndsKeeps DEF Deleting, Ended, NoneGoing
<1>11. ASSUME NEW s \in Slots, Gcp!WaitDelete(s) PROVE HostStep
  BY <1>11, GoneKeeps DEF Gcp!WaitDelete, Listed, Deleting, Ended
<1>12. ASSUME NEW s \in Slots, Gcp!Fails(s) PROVE HostStep
  BY <1>12, FailsKeeps DEF Gcp!Fails, Fails, Gcp!Errs, Errs
<1>13. ASSUME NEW h \in Hosts, Gcp!Appears(h) \/ Gcp!Boots(h) \/ Gcp!PowersOff(h) \/ Gcp!Ends(h) \/
            Gcp!Breaks(h)
       PROVE  HostStep
  BY <1>13, TurnsKeeps DEF Gcp!Appears, Gcp!Boots, Gcp!PowersOff, Gcp!Ends, Gcp!Breaks, Gcp!Turns,
     Turns
<1>14. ASSUME Gcp!Restart PROVE HostStep
  <2> DEFINE owners == [s \in Slots |-> Gcp!Describe(s)]
  <2>0. Lapsing
    BY <1>14 DEF Gcp!Restart, Lapsing, HostInv, FleetType
  <2>1. host' \in [Hosts -> Server] /\ \A h \in Hosts : Forgets(h)
    BY <1>14 DEF Gcp!Restart, HostInv, FleetType, Forgets
  <2>2. Recovered \/ Reseeded(owners)
    BY <1>14 DEF Gcp!Restart, Gcp!Recovered, Recovered, Gcp!Reseeded, Reseeded
  <2>3. ~durable => \A s \in Slots :
          /\ owners[s] \subseteq Marked(s)
          /\ WaySeen => \A h \in owners[s] : host[h].state # "going"
    BY DEF WaySeen, Gcp!Describe, Gcp!Marked, Marked, Gcp!Listed, Listed
  <2> HIDE DEF owners
  <2> QED
    BY <2>0, <2>1, <2>2, <2>3, RestartKeeps
<1> QED
  BY <1>1, <1>2, <1>3, <1>4, <1>5, <1>6, <1>7, <1>8, <1>9, <1>10, <1>11, <1>12, <1>13, <1>14 DEF Gcp!Next

LEMMA AzureKeeps ==
    ASSUME HostInv, provider = "azure", UNCHANGED provider, Azure!Next
    PROVE  HostStep
<1> USE DEF Azure!At, Azure!Starts, Starts, Azure!From, From, Azure!Goes, Goes, Azure!Answers,
        Answers, Azure!NoCall, NoCall, Azure!Operations, Operations, Azure!Done, Done
<1>1. ASSUME NEW s \in Slots, Azure!CreateInstance(s) PROVE HostStep
  BY <1>1, StartsKeeps DEF Azure!CreateInstance, Opening, Searching
<1>2. ASSUME NEW s \in Slots, Azure!CreateVM(s) PROVE HostStep
  <2>1. PICK h \in Hosts :
          /\ call[s].stage = "BeginCreateOrUpdate" /\ Goes(s, "PollCreate", h)
          /\ \/ Launched(h, s, call[s].op)
             \/ /\ h \in Named(call[s].op) /\ host[h].state # "going"
                /\ host' = [host EXCEPT ![h].slot = s, ![h].bound = FALSE]
    BY <1>2 DEF Azure!CreateVM, Azure!Launched, Launched, Azure!Unused, Unused, Azure!Named, Named,
       Azure!Listed, Listed
  <2>2. CASE Launched(h, s, call[s].op)
    BY <2>1, <2>2, LaunchedKeeps DEF Searching, Creating
  <2>3. CASE h \in Named(call[s].op) /\ host' = [host EXCEPT ![h].slot = s, ![h].bound = FALSE]
    <3>1. h \in Hosts /\ host[h].state # "none" /\ host[h].op = call[s].op
      BY <2>3 DEF Named, Listed
    <3>2. ~durable /\ ~Owned
      <4>1. SlotInv(s) /\ call[s].stage \in Searching \ {"servers.Create"} /\ provider \in TakesByName
        BY <2>1 DEF HostInv, Searching, TakesByName
      <4> QED
        BY <3>1, <4>1 DEF Owned, SlotInv, StageInv
    <3>3. /\ host \in [Hosts -> Server] /\ host' \in [Hosts -> Server]
          /\ \A k \in Hosts : /\ host'[k].state = host[k].state /\ host'[k].op = host[k].op
                              /\ host'[k].node = host[k].node
                              /\ host'[k].installed = host[k].installed
                              /\ host'[k].bound => host[k].bound
      <4>1. host \in [Hosts -> Server]
        BY DEF HostInv, FleetType
      <4> DEFINE marked == [host EXCEPT ![h].slot = s]
      <4>2. /\ marked \in [Hosts -> Server] /\ marked[h].bound = host[h].bound
            /\ \A k \in Hosts : /\ marked[k].state = host[k].state /\ marked[k].op = host[k].op
                                /\ marked[k].node = host[k].node /\ marked[k].bound = host[k].bound
                                /\ marked[k].installed = host[k].installed
        BY <3>1, <4>1 DEF Server
      <4>3. PICK b \in BOOLEAN : host' = [marked EXCEPT ![h].bound = b] /\ ~b
        BY <2>3, <4>1
      <4> HIDE DEF marked
      <4>4. host' \in [Hosts -> Server]
        BY <4>2, <4>3 DEF Server
      <4>5. \A k \in Hosts \ {h} : host'[k] = marked[k]
        BY <4>2, <4>3
      <4>6. /\ host'[h].state = marked[h].state /\ host'[h].op = marked[h].op
            /\ host'[h].node = marked[h].node /\ host'[h].installed = marked[h].installed
            /\ ~host'[h].bound
        BY <3>1, <4>2, <4>3 DEF Server
      <4> QED
        BY <3>1, <4>1, <4>2, <4>4, <4>5, <4>6
    <3>4. \A k \in Hosts : Sound(k)'
      <4> TAKE k \in Hosts
      <4> QED
        BY <2>1, <3>2, <3>3 DEF HostInv, Sound, MarkTrue, NoneGoing
    <3>5. Calm(s)
      BY <3>2, <3>3, <3>4 DEF Calm, Spares, Settled
    <3> QED
      BY <2>1, <3>1, <3>2, <3>5, Finds DEF Searching, Creating
  <2> QED
    BY <2>1, <2>2, <2>3
<1>3. ASSUME NEW s \in Slots, Azure!PollCreate(s) PROVE HostStep
  BY <1>3, CreatedKeeps DEF Azure!PollCreate, Creating, Searching, Waiting, Reaching
<1>4. ASSUME NEW s \in Slots, Azure!ConfigureInstance(s) PROVE HostStep
  BY <1>4, StartsKeeps DEF Azure!ConfigureInstance, Opening, Configuring, Joined, Reaching
<1>5. ASSUME NEW s \in Slots, Azure!StartVM(s) PROVE HostStep
  <2>1. /\ call[s].stage = "StartVM" /\ Goes(s, "runExtension", call[s].host)
        /\ Live(call[s].host) /\ host' = [host EXCEPT ![call[s].host].state = "up"]
    BY <1>5 DEF Azure!StartVM, Live
  <2>2. Busy(s) /\ call[s].stage \notin Searching \union Deleting /\ call[s].stage \notin Creating
    BY <2>1 DEF Busy, Searching, Deleting, Ended, Creating
  <2>3. Calm(s) /\ record[s].state # "create"
    BY <2>1, <2>2, WakesIsCalm DEF Same, HostInv, SlotInv, CallInv
  <2>4. "runExtension" \in (Reaching \union Waiting) \ {"ensureActive"}
    BY DEF Reaching
  <2> QED
    BY <2>1, <2>2, <2>3, <2>4, GoesOnKeeps
<1>6. ASSUME NEW s \in Slots, Azure!DrainInstance(s) PROVE HostStep
  BY <1>6, StartsKeeps DEF Azure!DrainInstance, Opening, Draining, Parted, Reaching
<1>7. ASSUME NEW s \in Slots, Azure!ApplyBootstrap(s) PROVE HostStep
  BY <1>7, CallsHost, BootstrapKeeps DEF Azure!ApplyBootstrap, Azure!Joins, Joins, Configuring,
     Joined, Busy, Searching, Reaching
<1>8. ASSUME NEW s \in Slots, Azure!DrainNode(s) PROVE HostStep
  BY <1>8, CallsHost, DrainKeeps DEF Azure!DrainNode, Azure!Leaves, Leaves, Draining, Parted, Busy,
     Searching, Reaching
<1>9. ASSUME NEW s \in Slots, Azure!SetClusterTag(s) PROVE HostStep
  BY <1>9, MarksKeeps DEF Azure!SetClusterTag, Azure!Binds, Binds, Azure!Unbinds, Unbinds,
     Azure!Listed, Listed, Joined, Parted
<1>10. ASSUME NEW s \in Slots, Azure!DeleteInstance(s) PROVE HostStep
  BY <1>10, StartsKeeps DEF Azure!DeleteInstance, Opening, Deleting, Ended
<1>11. ASSUME NEW s \in Slots, Azure!DeleteVM(s) PROVE HostStep
  <2>1. /\ call[s].stage = "BeginDelete" /\ Removed(call[s].host)
        /\ IF Listed(call[s].host) THEN Goes(s, "PollDelete", call[s].host) ELSE Answers(s, NoHost)
    BY <1>11 DEF Azure!DeleteVM, Azure!Removed, Removed, Azure!Listed, Listed
  <2> QED
    BY <2>1, RemovedKeeps, EndsKeeps DEF Deleting, Ended, NoneGoing
<1>12. ASSUME NEW s \in Slots, Azure!PollDelete(s) PROVE HostStep
  BY <1>12, GoneKeeps DEF Azure!PollDelete, Listed, Deleting, Ended
<1>13. ASSUME NEW s \in Slots, Azure!Fails(s) PROVE HostStep
  BY <1>13, FailsKeeps DEF Azure!Fails, Fails, Azure!Errs, Errs
<1>14. ASSUME NEW h \in Hosts, Azure!Appears(h) \/ Azure!Boots(h) \/ Azure!PowersOff(h) \/
            Azure!Ends(h) \/ Azure!Breaks(h)
       PROVE  HostStep
  BY <1>14, TurnsKeeps DEF Azure!Appears, Azure!Boots, Azure!PowersOff, Azure!Ends, Azure!Breaks,
     Azure!Turns, Turns
<1>15. ASSUME Azure!Restart PROVE HostStep
  <2> DEFINE owners == [s \in Slots |-> Azure!Describe(s)]
  <2>0. Lapsing
    BY <1>15 DEF Azure!Restart, Lapsing, HostInv, FleetType
  <2>1. host' \in [Hosts -> Server] /\ \A h \in Hosts : Forgets(h)
    BY <1>15 DEF Azure!Restart, HostInv, FleetType, Forgets
  <2>2. Recovered \/ Reseeded(owners)
    BY <1>15 DEF Azure!Restart, Azure!Recovered, Recovered, Azure!Reseeded, Reseeded
  <2>3. ~durable => \A s \in Slots :
          /\ owners[s] \subseteq Marked(s)
          /\ WaySeen => \A h \in owners[s] : host[h].state # "going"
    BY DEF WaySeen, Azure!Describe, Azure!Marked, Marked, Azure!Listed, Listed
  <2> HIDE DEF owners
  <2> QED
    BY <2>0, <2>1, <2>2, <2>3, RestartKeeps
<1> QED
  BY <1>1, <1>2, <1>3, <1>4, <1>5, <1>6, <1>7, <1>8, <1>9, <1>10, <1>11, <1>12, <1>13, <1>14, <1>15 DEF Azure!Next

LEMMA AwsKeeps ==
    ASSUME HostInv, provider = "aws", UNCHANGED provider, Aws!Next
    PROVE  HostStep
<1> USE DEF Aws!At, Aws!Starts, Starts, Aws!From, From, Aws!Goes, Goes, Aws!Answers, Answers,
        Aws!NoCall, NoCall, Aws!Operations, Operations, Aws!Done, Done
<1>1. ASSUME NEW s \in Slots, Aws!CreateInstance(s) PROVE HostStep
  BY <1>1, StartsKeeps DEF Aws!CreateInstance, Opening, Searching
<1>2. ASSUME NEW s \in Slots, Aws!RunInstance(s) PROVE HostStep
  <2>1. PICK h \in Hosts :
          /\ call[s].stage = "RunInstances" /\ Goes(s, "waitRunning", h)
          /\ \/ Launched(h, s, call[s].op)
             \/ host[h].state # "none" /\ host[h].slot = s /\ UNCHANGED host
    BY <1>2 DEF Aws!RunInstance, Aws!Launch, Aws!Launched, Launched, Aws!Unused, Unused
  <2> QED
    BY <2>1, LaunchedKeeps, MarkedKeeps DEF Searching, Creating
<1>3. ASSUME NEW s \in Slots, Aws!WaitRunning(s) PROVE HostStep
  BY <1>3, CreatedKeeps DEF Aws!WaitRunning, Creating, Searching, Waiting, Reaching
<1>4. ASSUME NEW s \in Slots, Aws!ConfigureInstance(s) PROVE HostStep
  BY <1>4, StartsKeeps DEF Aws!ConfigureInstance, Opening, Configuring, Joined
<1>5. ASSUME NEW s \in Slots, Aws!CreateTags(s) PROVE HostStep
  <2>1. /\ call[s].stage = "CreateTags" /\ Binds(call[s].host)
        /\ Goes(s, "runCommand", call[s].host)
    BY <1>5 DEF Aws!CreateTags, Aws!Binds, Binds, Aws!Listed, Listed
  <2>2. /\ Busy(s) /\ call[s].stage \notin Searching \union Deleting
        /\ call[s].stage \notin Creating
    BY <2>1 DEF Busy, Searching, Deleting, Ended, Creating
  <2>3. call[s].host \in Hosts /\ record[s].state # "create"
    BY <2>2, CallsHost DEF HostInv, SlotInv, CallInv
  <2>4. PICK h \in Hosts : h = call[s].host
    BY <2>3
  <2>5. Calm(s)
    BY <2>1, <2>4, BindIsCalm DEF Same, MarkTrue
  <2>6. "runCommand" \in (Reaching \union Waiting) \ {"ensureActive"}
    BY DEF Reaching
  <2> QED
    BY <2>1, <2>2, <2>3, <2>5, <2>6, GoesOnKeeps
<1>6. ASSUME NEW s \in Slots, Aws!DrainInstance(s) PROVE HostStep
  BY <1>6, StartsKeeps DEF Aws!DrainInstance, Opening, Draining, Parted
<1>7. ASSUME NEW s \in Slots, Aws!DeleteTags(s) PROVE HostStep
  <2>1. /\ call[s].stage = "DeleteTags" /\ Unbinds(call[s].host)
        /\ Goes(s, "runCommand", call[s].host)
    BY <1>7 DEF Aws!DeleteTags, Aws!Unbinds, Unbinds, Aws!Listed, Listed
  <2>2. /\ Busy(s) /\ call[s].stage \notin Searching \union Deleting
        /\ call[s].stage \notin Creating
    BY <2>1 DEF Busy, Searching, Deleting, Ended, Creating
  <2>3. call[s].host \in Hosts /\ record[s].state # "create"
    BY <2>2, CallsHost DEF HostInv, SlotInv, CallInv
  <2>4. PICK h \in Hosts : h = call[s].host
    BY <2>3
  <2>5. Calm(s)
    BY <2>1, <2>4, BindIsCalm DEF Same, MarkTrue
  <2>6. "runCommand" \in (Reaching \union Waiting) \ {"ensureActive"}
    BY DEF Reaching
  <2> QED
    BY <2>1, <2>2, <2>3, <2>5, <2>6, GoesOnKeeps
<1>8. ASSUME NEW s \in Slots, Aws!RunCommand(s) PROVE HostStep
  <2>1. /\ call[s].stage = "runCommand" /\ Answers(s, call[s].host)
        /\ \/ record[s].state = "configure" /\ Joins(call[s].host)
           \/ record[s].state = "drain" /\ Leaves(call[s].host)
    BY <1>8 DEF Aws!RunCommand, Aws!Joins, Joins, Aws!Leaves, Leaves
  <2>2. Busy(s) /\ call[s].host \in Hosts
    BY <2>1, CallsHost DEF Busy, Searching
  <2> QED
    BY <2>1, <2>2, JoinAnswersKeeps, LeaveAnswersKeeps
<1>9. ASSUME NEW s \in Slots, Aws!DeleteInstance(s) PROVE HostStep
  BY <1>9, StartsKeeps DEF Aws!DeleteInstance, Opening, Deleting, Ended
<1>10. ASSUME NEW s \in Slots, Aws!TerminateInstance(s) PROVE HostStep
  BY <1>10, RemovedKeeps DEF Aws!TerminateInstance, Aws!Removed, Removed, Aws!Listed, Listed,
     Deleting, NoneGoing
<1>11. ASSUME NEW s \in Slots, Aws!Fails(s) PROVE HostStep
  BY <1>11, FailsKeeps DEF Aws!Fails, Fails, Aws!Errs, Errs
<1>12. ASSUME NEW h \in Hosts, Aws!Appears(h) \/ Aws!Boots(h) \/ Aws!PowersOff(h) \/ Aws!Ends(h) \/
            Aws!Breaks(h)
       PROVE  HostStep
  BY <1>12, TurnsKeeps DEF Aws!Appears, Aws!Boots, Aws!PowersOff, Aws!Ends, Aws!Breaks, Aws!Turns,
     Turns
<1>13. ASSUME Aws!Restart PROVE HostStep
  <2> DEFINE owners == [s \in Slots |-> Aws!Describe(s)]
  <2>0. Lapsing
    BY <1>13 DEF Aws!Restart, Lapsing, HostInv, FleetType
  <2>1. host' \in [Hosts -> Server] /\ \A h \in Hosts : Forgets(h)
    BY <1>13 DEF Aws!Restart, HostInv, FleetType, Forgets
  <2>2. Recovered \/ Reseeded(owners)
    BY <1>13 DEF Aws!Restart, Aws!Recovered, Recovered, Aws!Reseeded, Reseeded
  <2>3. ~durable => \A s \in Slots :
          /\ owners[s] \subseteq Marked(s)
          /\ WaySeen => \A h \in owners[s] : host[h].state # "going"
    BY DEF WaySeen, Aws!Describe, Aws!Marked, Marked, Aws!Listed, Listed
  <2> HIDE DEF owners
  <2> QED
    BY <2>0, <2>1, <2>2, <2>3, RestartKeeps
<1> QED
  BY <1>1, <1>2, <1>3, <1>4, <1>5, <1>6, <1>7, <1>8, <1>9, <1>10, <1>11, <1>12, <1>13 DEF Aws!Next

LEMMA OciKeeps ==
    ASSUME HostInv, provider = "oracle-cloud", UNCHANGED provider, Oci!Next
    PROVE  HostStep
<1> USE DEF Oci!At, Oci!Starts, Starts, Oci!From, From, Oci!Goes, Goes, Oci!Answers, Answers,
        Oci!NoCall, NoCall, Oci!Operations, Operations, Oci!Done, Done
<1>1. ASSUME NEW s \in Slots, Oci!CreateInstance(s) PROVE HostStep
  BY <1>1, StartsKeeps DEF Oci!CreateInstance, Opening, Searching
<1>2. ASSUME NEW s \in Slots, Oci!LaunchInstance(s) PROVE HostStep
  <2>1. PICK h \in Hosts :
          /\ call[s].stage = "LaunchInstance" /\ Goes(s, "waitRunning", h)
          /\ \/ Launched(h, s, call[s].op)
             \/ host[h].state # "none" /\ host[h].slot = s /\ UNCHANGED host
    BY <1>2 DEF Oci!LaunchInstance, Oci!Launch, Oci!Launched, Launched, Oci!Unused, Unused
  <2> QED
    BY <2>1, LaunchedKeeps, MarkedKeeps DEF Searching, Creating
<1>3. ASSUME NEW s \in Slots, Oci!WaitRunning(s) PROVE HostStep
  BY <1>3, CreatedKeeps DEF Oci!WaitRunning, Creating, Searching, Waiting, Reaching
<1>4. ASSUME NEW s \in Slots, Oci!ConfigureInstance(s) PROVE HostStep
  BY <1>4, StartsKeeps DEF Oci!ConfigureInstance, Opening, Configuring, Joined, Reaching
<1>5. ASSUME NEW s \in Slots, Oci!DrainInstance(s) PROVE HostStep
  BY <1>5, StartsKeeps DEF Oci!DrainInstance, Opening, Draining, Parted, Reaching
<1>6. ASSUME NEW s \in Slots, Oci!Start(s) PROVE HostStep
  <2>1. /\ call[s].stage = "EnsureRunning" /\ Goes(s, "EnsureRunning", call[s].host)
        /\ host' = host \/ (Live(call[s].host) /\ host' = [host EXCEPT ![call[s].host].state = "booting"])
    BY <1>6, CallsHost DEF Oci!Start, Live
  <2>2. Busy(s) /\ call[s].stage \notin Searching \union Deleting
    BY <2>1 DEF Busy, Searching, Deleting, Ended
  <2>3. Calm(s)
    BY <2>1, <2>2, WakesIsCalm DEF Same
  <2>4. "EnsureRunning" \in (Reaching \union Waiting) \ {"ensureActive"} /\ "EnsureRunning" \in Creating
    BY DEF Reaching, Waiting, Creating
  <2> QED
    BY <2>1, <2>2, <2>3, <2>4, GoesOnKeeps
<1>7. ASSUME NEW s \in Slots, Oci!EnsureRunning(s) PROVE HostStep
  <2>1. /\ call[s].stage = "EnsureRunning" /\ Goes(s, "runCommand", call[s].host)
        /\ host' = host \/ (Live(call[s].host) /\ host' = [host EXCEPT ![call[s].host].state = "booting"])
    BY <1>7, CallsHost DEF Oci!EnsureRunning, Live
  <2>2. Busy(s) /\ call[s].stage \notin Searching \union Deleting
    BY <2>1 DEF Busy, Searching, Deleting, Ended
  <2>3. Calm(s)
    BY <2>1, <2>2, WakesIsCalm DEF Same
  <2>4. "runCommand" \in (Reaching \union Waiting) \ {"ensureActive"} /\ "runCommand" \in Creating
    BY DEF Reaching, Waiting, Creating
  <2> QED
    BY <2>1, <2>2, <2>3, <2>4, GoesOnKeeps
<1>8. ASSUME NEW s \in Slots, Oci!ApplyBootstrap(s) PROVE HostStep
  BY <1>8, CallsHost, BootstrapKeeps DEF Oci!ApplyBootstrap, Oci!Joins, Joins, Configuring, Joined,
     Busy, Searching, Reaching
<1>9. ASSUME NEW s \in Slots, Oci!DrainNode(s) PROVE HostStep
  BY <1>9, CallsHost, DrainKeeps DEF Oci!DrainNode, Oci!Leaves, Leaves, Draining, Parted, Busy,
     Searching, Reaching
<1>10. ASSUME NEW s \in Slots, Oci!UpdateTags(s) PROVE HostStep
  BY <1>10, MarksKeeps DEF Oci!UpdateTags, Oci!Binds, Binds, Oci!Unbinds, Unbinds, Oci!Listed,
     Listed, Joined, Parted
<1>11. ASSUME NEW s \in Slots, Oci!DeleteInstance(s) PROVE HostStep
  BY <1>11, StartsKeeps DEF Oci!DeleteInstance, Opening, Deleting, Ended
<1>12. ASSUME NEW s \in Slots, Oci!TerminateInstance(s) PROVE HostStep
  BY <1>12, RemovedKeeps DEF Oci!TerminateInstance, Oci!Removed, Removed, Oci!Listed, Listed,
     Deleting, NoneGoing
<1>13. ASSUME NEW s \in Slots, Oci!Fails(s) PROVE HostStep
  BY <1>13, FailsKeeps DEF Oci!Fails, Fails, Oci!Errs, Errs
<1>14. ASSUME NEW h \in Hosts, Oci!Appears(h) \/ Oci!Boots(h) \/ Oci!PowersOff(h) \/ Oci!Ends(h) \/
            Oci!Breaks(h)
       PROVE  HostStep
  BY <1>14, TurnsKeeps DEF Oci!Appears, Oci!Boots, Oci!PowersOff, Oci!Ends, Oci!Breaks, Oci!Turns,
     Turns
<1>15. ASSUME Oci!Restart PROVE HostStep
  <2> DEFINE owners == [s \in Slots |-> Oci!Describe(s)]
  <2>0. Lapsing
    BY <1>15 DEF Oci!Restart, Lapsing, HostInv, FleetType
  <2>1. host' \in [Hosts -> Server] /\ \A h \in Hosts : Forgets(h)
    BY <1>15 DEF Oci!Restart, HostInv, FleetType, Forgets
  <2>2. Recovered \/ Reseeded(owners)
    BY <1>15 DEF Oci!Restart, Oci!Recovered, Recovered, Oci!Reseeded, Reseeded
  <2>3. ~durable => \A s \in Slots :
          /\ owners[s] \subseteq Marked(s)
          /\ WaySeen => \A h \in owners[s] : host[h].state # "going"
    BY DEF WaySeen, Oci!Describe, Oci!Marked, Marked, Oci!Listed, Listed
  <2> HIDE DEF owners
  <2> QED
    BY <2>0, <2>1, <2>2, <2>3, RestartKeeps
<1> QED
  BY <1>1, <1>2, <1>3, <1>4, <1>5, <1>6, <1>7, <1>8, <1>9, <1>10, <1>11, <1>12, <1>13, <1>14, <1>15 DEF Oci!Next

LEMMA ScalewayKeeps ==
    ASSUME HostInv, provider = "scaleway", UNCHANGED provider, Scaleway!Next
    PROVE  HostStep
<1> USE DEF Scaleway!At, Scaleway!Starts, Starts, Scaleway!From, From, Scaleway!Goes, Goes,
        Scaleway!Answers, Answers, Scaleway!NoCall, NoCall, Scaleway!Operations, Operations,
        Scaleway!Done, Done
<1>1. ASSUME NEW s \in Slots, Scaleway!CreateInstance(s) PROVE HostStep
  BY <1>1, StartsKeeps DEF Scaleway!CreateInstance, Opening, Searching
<1>2. ASSUME NEW s \in Slots, Scaleway!ServerByName(s) PROVE HostStep
  <2>1. /\ call[s].stage = "serverByName" /\ UNCHANGED host
        /\ \/ Goes(s, "CreateServer", NoHost)
           \/ \E h \in Named(call[s].op) : Goes(s, "ensureRunning", h)
    BY <1>2 DEF Scaleway!ServerByName, Scaleway!Lowest, Scaleway!Named, Named, Scaleway!Listed,
       Listed
  <2> QED
    BY <2>1, Seeks, TakesKeeps DEF Searching, Creating, TakesByName
<1>3. ASSUME NEW s \in Slots, Scaleway!CreateServer(s) PROVE HostStep
  <2>1. PICK h \in Hosts, id \in Nat :
          /\ call[s].stage = "CreateServer" /\ Goes(s, "ensureRunning", h)
          /\ host[h].state = "none"
          /\ host' = [host EXCEPT ![h] = Created(s, call[s].op, id, restarts + 1)]
    <3>1. PICK h \in Hosts, id \in 1..Scaleway!Cardinality(Hosts) :
            /\ call[s].stage = "CreateServer" /\ Goes(s, "ensureRunning", h)
            /\ host[h].state = "none"
            /\ host' = [host EXCEPT ![h] = Created(s, call[s].op, id, restarts + 1)]
      BY <1>3, Zenon DEF Scaleway!CreateServer, Scaleway!Unused, Unused, Created
    <3>2. id \in Nat
      OBVIOUS
    <3> QED
      BY <3>1, <3>2
  <2> DEFINE new == Created(s, call[s].op, id, restarts + 1)
  <2>2. call[s].op \in Nat /\ restarts + 1 \in Nat
    BY DEF HostInv, FleetType
  <2>3. /\ new \in Server /\ new.state \in {"pending", "off"} /\ new.slot = s /\ new.op = call[s].op
        /\ ~new.bound /\ new.node = "never" /\ ~new.installed
    BY <2>2, CreatedShape
  <2>4. /\ call[s].stage \in Searching
        /\ "ensureRunning" \in Creating \ (Searching \union {"ensureActive", "InstallServer"})
    BY <2>1 DEF Searching, Creating
  <2>5. host[h].state = "none" /\ host' = [host EXCEPT ![h] = new] /\ Goes(s, "ensureRunning", h)
    BY <2>1
  <2> HIDE DEF new
  <2> QED
    BY <2>3, <2>4, <2>5, Launches
<1>4. ASSUME NEW s \in Slots, Scaleway!ConfigureInstance(s) PROVE HostStep
  BY <1>4, StartsKeeps DEF Scaleway!ConfigureInstance, Opening, Configuring, Joined, Reaching
<1>5. ASSUME NEW s \in Slots, Scaleway!DrainInstance(s) PROVE HostStep
  BY <1>5, StartsKeeps DEF Scaleway!DrainInstance, Opening, Draining, Parted, Reaching
<1>6. ASSUME NEW s \in Slots, Scaleway!EnsureRunning(s) PROVE HostStep
  <2>1. /\ call[s].stage = "ensureRunning" /\ Goes(s, "waitRunning", call[s].host)
        /\ host' = host \/ (Live(call[s].host) /\ host' = [host EXCEPT ![call[s].host].state = "booting"])
    <3>1. /\ call[s].stage = "ensureRunning" /\ Goes(s, "waitRunning", call[s].host)
          /\ host' = [host EXCEPT ![call[s].host].state = IF @ = "off" THEN "booting" ELSE @]
      BY <1>6 DEF Scaleway!EnsureRunning
    <3>2. call[s].host \in Hosts /\ host \in [Hosts -> Server]
      BY <3>1, CallsHost DEF Busy, Searching, HostInv, FleetType
    <3> QED
      BY <3>1, <3>2 DEF Live, Server
  <2>2. Busy(s) /\ call[s].stage \notin Searching \union Deleting
    BY <2>1 DEF Busy, Searching, Deleting, Ended
  <2>3. Calm(s)
    BY <2>1, <2>2, WakesIsCalm DEF Same
  <2>4. "waitRunning" \in (Reaching \union Waiting) \ {"ensureActive"} /\ "waitRunning" \in Creating
    BY DEF Reaching, Waiting, Creating
  <2> QED
    BY <2>1, <2>2, <2>3, <2>4, GoesOnKeeps
<1>7. ASSUME NEW s \in Slots, Scaleway!WaitRunning(s) PROVE HostStep
  <2>1. /\ call[s].stage = "waitRunning" /\ host[call[s].host].state = "up"
        /\ \/ /\ host' = host /\ host[call[s].host].state \notin {"none", "pending"}
              /\ WaySeen => host[call[s].host].state # "going"
           \/ Live(call[s].host) /\ host' = [host EXCEPT ![call[s].host].state = "up"]
        /\ IF record[s].state = "create" THEN Answers(s, call[s].host) ELSE Goes(s, "vault.Enqueue", call[s].host)
    BY <1>7 DEF Scaleway!WaitRunning, Live
  <2>2. Busy(s) /\ call[s].stage \notin Searching \union Deleting
    BY <2>1 DEF Busy, Searching, Deleting, Ended
  <2>3. CASE record[s].state = "create"
    BY <2>1, <2>3, CreatedKeeps DEF Creating, Searching
  <2>4. CASE record[s].state # "create"
    <3>1. Calm(s)
      BY <2>1, <2>2, <2>4, WakesIsCalm DEF Same
    <3>2. "vault.Enqueue" \in (Reaching \union Waiting) \ {"ensureActive"}
      BY DEF Reaching
    <3> QED
      BY <2>1, <2>2, <2>4, <3>1, <3>2, GoesOnKeeps
  <2> QED
    BY <2>3, <2>4
<1>8. ASSUME NEW s \in Slots, Scaleway!ApplyBootstrap(s) PROVE HostStep
  <2>1. PICK k \in Hosts :
          /\ call[s].stage = "vault.Enqueue" /\ record[s].state = "configure"
          /\ host[k].slot = host[call[s].host].slot
          /\ Joins(k) /\ Goes(s, "setClusterTag", call[s].host)
    BY <1>8 DEF Scaleway!ApplyBootstrap, Scaleway!Agents, Scaleway!Marked, Marked, Scaleway!Joins,
       Joins
  <2> QED
    BY <2>1, BootstrapKeeps DEF Vaults, Configuring, Joined, Reaching
<1>9. ASSUME NEW s \in Slots, Scaleway!DrainNode(s) PROVE HostStep
  <2>1. PICK k \in Hosts :
          /\ call[s].stage = "vault.Enqueue" /\ record[s].state = "drain"
          /\ host[k].slot = host[call[s].host].slot
          /\ Leaves(k) /\ Goes(s, "clearClusterTag", call[s].host)
    BY <1>9 DEF Scaleway!DrainNode, Scaleway!Agents, Scaleway!Marked, Marked, Scaleway!Leaves,
       Leaves
  <2> QED
    BY <2>1, DrainKeeps DEF Vaults, Draining, Parted, Reaching
<1>10. ASSUME NEW s \in Slots, Scaleway!UpdateTags(s) PROVE HostStep
  BY <1>10, MarksKeeps DEF Scaleway!UpdateTags, Scaleway!Binds, Binds, Scaleway!Unbinds, Unbinds,
     Scaleway!Listed, Listed, Joined, Parted
<1>11. ASSUME NEW s \in Slots, Scaleway!DeleteInstance(s) PROVE HostStep
  BY <1>11, StartsKeeps DEF Scaleway!DeleteInstance, Opening, Deleting, Ended
<1>12. ASSUME NEW s \in Slots, Scaleway!Poweroff(s) PROVE HostStep
  <2>1. /\ call[s].stage = "Poweroff"
        /\ IF Listed(call[s].host)
           THEN /\ host' = [host EXCEPT ![call[s].host].state = "off"]
                /\ Goes(s, "DeleteServer", call[s].host)
           ELSE Goes(s, "sweep", call[s].host) /\ host' = host
    BY <1>12 DEF Scaleway!Poweroff, Scaleway!Listed, Listed
  <2>2. CASE Listed(call[s].host)
    BY <2>1, <2>2, StopsKeeps DEF Deleting, Ended, NoneGoing
  <2>3. CASE ~Listed(call[s].host)
    <3>1. call[s].stage \in Deleting /\ "sweep" \in Ended
      BY <2>1 DEF Deleting, Ended
    <3>2. /\ Busy(s) /\ call[s].stage \notin Searching /\ call[s].host \in Hosts
          /\ Settled(call[s].host)
      BY <3>1, DeletesEnd
    <3>3. Spares(s, s) /\ Fewer(s)
      BY <2>1, <2>3, <3>2, RemovalSpares DEF Same, Goes
    <3>4. host'[call[s].host].state \in {"none", "going", "gone"}
      BY <2>1, <2>3, <3>2 DEF Listed, Settled, HostInv, FleetType, Server
    <3> QED
      BY <2>1, <2>3, <3>1, <3>3, <3>4, EndGoesKeeps
  <2> QED
    BY <2>2, <2>3
<1>13. ASSUME NEW s \in Slots, Scaleway!DeleteServer(s) PROVE HostStep
  <2>1. /\ call[s].stage = "DeleteServer" /\ Goes(s, "sweep", call[s].host)
        /\ host' = [host EXCEPT ![call[s].host].state = "gone"]
    BY <1>13 DEF Scaleway!DeleteServer
  <2>2. call[s].stage \in Deleting /\ "sweep" \in Ended
    BY <2>1 DEF Deleting, Ended
  <2>3. Busy(s) /\ call[s].stage \notin Searching /\ call[s].host \in Hosts
    BY <2>2, DeletesEnd
  <2>4. Spares(s, s) /\ Fewer(s)
    BY <2>1, <2>3, RemovalSpares DEF Same, Goes
  <2>5. host'[call[s].host].state \in {"none", "going", "gone"}
    BY <2>1, <2>3 DEF HostInv, FleetType, Server
  <2> QED
    BY <2>1, <2>2, <2>4, <2>5, EndGoesKeeps
<1>14. ASSUME NEW s \in Slots, Scaleway!Sweep(s) PROVE HostStep
  <2>1. PICK swept \in SUBSET (Marked(s) \ {call[s].host}) :
          host' = [h \in Hosts |-> IF h \in swept THEN [host[h] EXCEPT !.state = "gone"] ELSE host[h]]
    BY <1>14 DEF Scaleway!Sweep, Scaleway!Marked, Marked, Scaleway!Listed, Listed
  <2>2. /\ call[s].stage = "sweep" /\ Answers(s, NoHost) /\ call[s].stage \in Deleting
        /\ call[s].stage \in Ended
    BY <1>14 DEF Scaleway!Sweep, Deleting, Ended
  <2>3. Busy(s) /\ call[s].stage \notin Searching /\ call[s].host \in Hosts
    BY <2>2, DeletesEnd
  <2>4. /\ host' \in [Hosts -> Server] /\ host'[call[s].host] = host[call[s].host]
        /\ \A h \in Hosts \ {call[s].host} : Mild(h) /\ host'[h].node = host[h].node
    <3>1. \A h \in Hosts :
            /\ host[h] \in Server
            /\ \/ host'[h] = host[h]
               \/ /\ h # call[s].host /\ host[h].state # "none"
                  /\ host'[h] = Turned(host[h], "gone")
      BY <2>1 DEF HostInv, FleetType, Marked, Listed, Turned
    <3>2. \A h \in Hosts :
            /\ host'[h] \in Server /\ Alike(host[h], host'[h])
            /\ \/ host'[h] = host[h]
               \/ h # call[s].host /\ host[h].state # "none" /\ host'[h].state = "gone"
      BY <3>1, TurnsShape DEF Alike, CloudStates
    <3>3. host' \in [Hosts -> Server]
      BY <2>1, <3>2
    <3> QED
      BY <2>3, <3>2, <3>3 DEF Alike, Mild
  <2>5. Spares(s, s) /\ Fewer(s)
    BY <2>2, <2>3, <2>4, EndingSpares DEF Ending, Same, Answers
  <2>6. durable => host'[call[s].host].state \in {"none", "going", "gone"}
    BY <2>2, <2>3, <2>4, HostsAssumption
       DEF HostInv, SlotInv, OwnInv, Owned, AloneInv, Live, FleetType, Server
  <2> QED
    BY <2>2, <2>5, <2>6, DeleteAnswersKeeps
<1>14a. ASSUME NEW reap \in [Hosts -> {"no", "listed", "doomed"}],
               host' = [h \in Hosts |-> Eyed(host[h], reap[h])],
               UNCHANGED <<record, call, nextOp, durable, lapsed, restarts>>
        PROVE  HostStep
  <2>1. \A h \in Hosts : /\ host'[h] \in Server /\ Alike(host[h], host'[h])
                         /\ host'[h].state = host[h].state
    BY <1>14a, EyedShape DEF HostInv, FleetType, Alike
  <2>2. host' \in [Hosts -> Server] /\ \A h \in Hosts : Mild(h)
    BY <1>14a, <2>1 DEF Mild, Alike
  <2> QED
    BY <1>14a, <2>2, CloudKeeps
<1>15. ASSUME NEW s \in Slots, Scaleway!ReapAsk(s) PROVE HostStep
  <2>1. PICK hosts : Scaleway!Condemned(s, hosts)
    BY <1>15 DEF Scaleway!ReapAsk
  <2> DEFINE reap == [h \in Hosts |-> IF h \notin Scaleway!Duplicates(s) THEN host[h].reap
                                      ELSE IF h \in hosts THEN "doomed" ELSE "no"]
  <2>2. reap \in [Hosts -> {"no", "listed", "doomed"}]
    BY DEF HostInv, FleetType, Server
  <2>3. host' = [h \in Hosts |-> Eyed(host[h], reap[h])]
    BY <2>1 DEF Scaleway!Condemned, Eyed, HostInv, FleetType, Server
  <2>4. UNCHANGED <<record, call, nextOp, durable, lapsed, restarts>>
    BY <1>15 DEF Scaleway!ReapAsk
  <2> HIDE DEF reap
  <2> QED
    BY <1>14a, <2>2, <2>3, <2>4
<1>15a. ASSUME Scaleway!ReapList PROVE HostStep
  <2>1. PICK H \in SUBSET Hosts :
          host' = [h \in Hosts |-> IF h \in H THEN [host[h] EXCEPT !.reap = "listed"] ELSE host[h]]
    <3> DEFINE H == {h \in Hosts : \E s \in Slots : h \in Scaleway!Marked(s) /\ Scaleway!Cardinality(Scaleway!Marked(s)) > 1}
    <3>1. host' = [h \in Hosts |-> IF h \in H THEN [host[h] EXCEPT !.reap = "listed"] ELSE host[h]]
      BY <1>15a DEF Scaleway!ReapList
    <3> QED
      BY <3>1
  <2> DEFINE reap == [h \in Hosts |-> IF h \in H THEN "listed" ELSE host[h].reap]
  <2>2. reap \in [Hosts -> {"no", "listed", "doomed"}]
    BY DEF HostInv, FleetType, Server
  <2>3. host' = [h \in Hosts |-> Eyed(host[h], reap[h])]
    BY <2>1 DEF Eyed, HostInv, FleetType, Server
  <2>4. UNCHANGED <<record, call, nextOp, durable, lapsed, restarts>>
    BY <1>15a DEF Scaleway!ReapList
  <2> HIDE DEF reap
  <2> QED
    BY <1>14a, <2>2, <2>3, <2>4
<1>16. ASSUME NEW s \in Slots, Scaleway!Fails(s) PROVE HostStep
  BY <1>16, FailsKeeps DEF Scaleway!Fails, Fails, Scaleway!Errs, Errs
<1>17. ASSUME NEW h \in Hosts, Scaleway!CreatedStopped(h) \/ Scaleway!Boots(h) \/
            Scaleway!PowersOff(h) \/ Scaleway!Breaks(h)
       PROVE  HostStep
  BY <1>17, TurnsKeeps DEF Scaleway!CreatedStopped, Scaleway!Boots, Scaleway!PowersOff,
     Scaleway!Breaks, Scaleway!Turns, Turns
<1>18. ASSUME NEW h \in Hosts, Scaleway!Reaped(h) PROVE HostStep
  <2>1. /\ host' \in [Hosts -> Server] /\ \A k \in Hosts : Mild(k)
        /\ UNCHANGED <<record, call, nextOp, durable, lapsed, restarts, provider>>
    <3>1. host \in [Hosts -> Server]
      BY DEF HostInv, FleetType
    <3>2. PICK to \in CloudStates :
            /\ host' = [host EXCEPT ![h] = ReapedAs(host[h], to)]
            /\ \/ to = host[h].state
               \/ host[h].state # "none" /\ to = "gone"
               \/ Live(h) /\ to = "off"
      <4>1. PICK to \in {host[h].state} \union (IF Scaleway!Listed(h) THEN {"off", "gone"} ELSE {}) :
              host' = [host EXCEPT ![h] = ReapedAs(host[h], to)]
        BY <1>18, Zenon DEF Scaleway!Reaped, ReapedAs
      <4>2. /\ to \in CloudStates
            /\ \/ to = host[h].state
               \/ host[h].state # "none" /\ to = "gone"
               \/ Live(h) /\ to = "off"
        <5>1. Sound(h) /\ NoneGoing
          BY DEF HostInv, NoneGoing
        <5> QED
          BY <3>1, <4>1, <5>1 DEF Server, CloudStates, Scaleway!Listed, Live, Sound
      <4> QED
        BY <4>1, <4>2
    <3> DEFINE new == ReapedAs(host[h], to)
    <3>3. new \in Server /\ new.state = to /\ Alike(host[h], new)
      BY <3>1, ReapedShape
    <3>4. host' = [host EXCEPT ![h] = new]
      BY <3>1, <3>2
    <3> HIDE DEF new
    <3> QED
      <4>1. /\ host' \in [Hosts -> Server] /\ host'[h] = new
            /\ \A k \in Hosts \ {h} : host'[k] = host[k]
        BY <3>1, <3>3, <3>4
      <4>2. Mild(h)
        BY <3>2, <3>3, <4>1 DEF Mild, Alike
      <4>3. \A k \in Hosts \ {h} : Mild(k)
        BY <4>1 DEF Mild
      <4> QED
        BY <1>18, <4>1, <4>2, <4>3 DEF Scaleway!Reaped
  <2> QED
    BY <2>1, CloudKeeps
<1>19. ASSUME Scaleway!Restart PROVE HostStep
  <2> DEFINE owners == [s \in Slots |-> Scaleway!Describe(s)]
  <2>0. Lapsing
    BY <1>19 DEF Scaleway!Restart, Lapsing, HostInv, FleetType
  <2>1. host' \in [Hosts -> Server] /\ \A h \in Hosts : Forgets(h)
    <3>1. \A h \in Hosts : /\ host[h] \in Server
                           /\ host'[h] = Eyed(host[h], "no")
      BY <1>19 DEF Scaleway!Restart, HostInv, FleetType, Eyed
    <3>2. \A h \in Hosts : /\ host'[h] \in Server /\ Alike(host[h], host'[h])
                           /\ host'[h].state = host[h].state
      BY <3>1, EyedShape DEF Alike
    <3> QED
      BY <1>19, <3>2 DEF Scaleway!Restart, Forgets, Alike
  <2>2. Recovered \/ Reseeded(owners)
    BY <1>19 DEF Scaleway!Restart, Scaleway!Recovered, Recovered, Scaleway!Reseeded, Reseeded
  <2>3. ~durable => \A s \in Slots :
          /\ owners[s] \subseteq Marked(s)
          /\ WaySeen => \A h \in owners[s] : host[h].state # "going"
    BY DEF WaySeen, Scaleway!Describe, Scaleway!Lowest, Scaleway!Marked, Marked, Scaleway!Listed,
       Listed
  <2> HIDE DEF owners
  <2> QED
    BY <2>0, <2>1, <2>2, <2>3, RestartKeeps
<1> QED
  BY <1>1, <1>2, <1>3, <1>4, <1>5, <1>6, <1>7, <1>8, <1>9, <1>10, <1>11, <1>12, <1>13, <1>14, <1>15,
     <1>15a, <1>16, <1>17, <1>18, <1>19 DEF Scaleway!Next

LEMMA MetalKeeps ==
    ASSUME HostInv, provider = "scaleway-metal", UNCHANGED provider, Scaleway!MetalNext
    PROVE  HostStep
<1> USE DEF Scaleway!At, Scaleway!Starts, Starts, Scaleway!From, From, Scaleway!Goes, Goes,
        Scaleway!Answers, Answers, Scaleway!NoCall, NoCall, Scaleway!Operations, Operations,
        Scaleway!Done, Done
<1>1. ASSUME NEW s \in Slots, Scaleway!CreateInstance(s) PROVE HostStep
  BY <1>1, StartsKeeps DEF Scaleway!CreateInstance, Opening, Searching
<1>2. ASSUME NEW s \in Slots, Scaleway!MetalServerByName(s) PROVE HostStep
  <2>1. /\ call[s].stage = "serverByName" /\ UNCHANGED host
        /\ \/ Goes(s, "CreateServer", NoHost)
           \/ \E h \in Named(call[s].op) : Goes(s, "provision", h)
    BY <1>2 DEF Scaleway!MetalServerByName, Scaleway!Named, Named, Scaleway!Listed, Listed
  <2> QED
    BY <2>1, Seeks, TakesKeeps DEF Searching, Creating, TakesByName
<1>3. ASSUME NEW s \in Slots, Scaleway!MetalCreateServer(s) PROVE HostStep
  <2>1. PICK h \in Hosts :
          /\ call[s].stage = "CreateServer" /\ Goes(s, "provision", h)
          /\ Launched(h, s, call[s].op)
    BY <1>3 DEF Scaleway!MetalCreateServer, Scaleway!Launched, Launched, Scaleway!Unused, Unused
  <2> QED
    BY <2>1, LaunchedKeeps DEF Searching, Creating
<1>4. ASSUME NEW s \in Slots, Scaleway!MetalProvision(s) PROVE HostStep
  <2>1. /\ call[s].stage = "provision" /\ host' = host
        /\ Goes(s, IF host[call[s].host].installed THEN "powerOn" ELSE "InstallServer", call[s].host)
    BY <1>4 DEF Scaleway!MetalProvision
  <2>2. PICK stage \in {"powerOn", "InstallServer"} :
          /\ Goes(s, stage, call[s].host)
          /\ stage = "InstallServer" => ~host[call[s].host].installed
    BY <2>1
  <2>3. /\ Busy(s) /\ call[s].stage \notin Searching
        /\ call[s].stage \notin Deleting \union Configuring \union Draining
        /\ stage \in Creating
        /\ stage \in Stages \ (Searching \union Joined \union Parted \union Ended
                           \union {"none", "ensureActive", "provision"})
    BY <2>1 DEF Busy, Searching, Creating, Configuring, Draining, Deleting, Waiting, Reaching,
       Joined, Parted, Ended, Stages
  <2>4. Suits(s, stage) /\ SlotInv(s)
    BY <2>3 DEF Suits, HostInv, SlotInv, CallInv
  <2>5. Calm(s)
    BY <2>1, Untouched DEF Same, Goes
  <2>6. stage = "InstallServer" => /\ host'[call[s].host].op = call[s].op
                                   /\ ~host'[call[s].host].installed
    BY <2>1, <2>2, <2>4 DEF SlotInv, StageInv
  <2> QED
    BY <2>2, <2>3, <2>4, <2>5, <2>6, Reaches
<1>5. ASSUME NEW s \in Slots, Scaleway!MetalInstallServer(s) PROVE HostStep
  <2>1. /\ call[s].stage = "InstallServer" /\ Goes(s, "powerOn", call[s].host)
        /\ host[call[s].host].state \in {"up", "off"}
        /\ host' = [host EXCEPT ![call[s].host] = [@ EXCEPT !.state = "up", !.installed = TRUE, !.node = "never"]]
    BY <1>5 DEF Scaleway!MetalInstallServer
  <2>2. Busy(s) /\ call[s].stage \notin Searching \union Deleting /\ SlotInv(s)
    BY <2>1 DEF Busy, Searching, Deleting, Ended, HostInv
  <2>3. PICK c \in Hosts : c = call[s].host
    BY <2>2, CallsHost
  <2>4. /\ host \in [Hosts -> Server] /\ Sound(c) /\ host[c].op = call[s].op
        /\ ~host[c].installed /\ host[c].node = "never"
    BY <2>1, <2>2, <2>3 DEF HostInv, FleetType, SlotInv, StageInv, Sound
  <2>5. PICK b \in BOOLEAN :
          b /\ host' = [host EXCEPT ![c] = InstalledAs(host[c], b)]
    <3>1. host' = [host EXCEPT ![c] = InstalledAs(host[c], TRUE)]
      BY <2>1, <2>3, Zenon DEF InstalledAs
    <3> QED
      BY <3>1
  <2> DEFINE new == InstalledAs(host[c], b)
  <2>50. /\ new \in Server /\ new.state = "up" /\ new.node = "never" /\ new.slot = host[c].slot
        /\ new.op = host[c].op /\ new.bound = host[c].bound /\ new.installed = b
    BY <2>4, InstalledShape
  <2>6. host' = [host EXCEPT ![c] = new]
    BY <2>4, <2>5
  <2> HIDE DEF new
  <2>7. /\ host' \in [Hosts -> Server] /\ host'[c] = new
        /\ \A k \in Hosts \ {c} : host'[k] = host[k]
    BY <2>4, <2>50, <2>6
  <2>8. \A k \in Hosts : Sound(k)'
    <3>1. Sound(c)'
      BY <2>1, <2>3, <2>4, <2>5, <2>50, <2>7 DEF Sound, MarkTrue, NoneGoing, Goes
    <3>2. \A k \in Hosts \ {c} : Sound(k)'
      BY <2>1, <2>7 DEF HostInv, Sound, MarkTrue, NoneGoing, Goes
    <3> QED
      BY <3>1, <3>2
  <2>9. Calm(s)
    BY <2>1, <2>2, <2>3, <2>4, <2>5, <2>50, <2>7, <2>8 DEF Calm, Spares, Made, Settled, Live
  <2>10. "powerOn" \in (Reaching \union Waiting) \ {"ensureActive"} /\ "powerOn" \in Creating
    BY DEF Reaching, Creating
  <2> QED
    BY <2>1, <2>2, <2>9, <2>10, GoesOnKeeps
<1>6. ASSUME NEW s \in Slots, Scaleway!MetalStartServer(s) PROVE HostStep
  <2>1. /\ call[s].stage = "powerOn" /\ Goes(s, "powerOn", call[s].host)
        /\ host' = host \/ (Live(call[s].host) /\ host' = [host EXCEPT ![call[s].host].state = "booting"])
    BY <1>6, CallsHost DEF Scaleway!MetalStartServer, Live
  <2>2. Busy(s) /\ call[s].stage \notin Searching \union Deleting
    BY <2>1 DEF Busy, Searching, Deleting, Ended
  <2>3. Calm(s)
    BY <2>1, <2>2, WakesIsCalm DEF Same
  <2>4. "powerOn" \in (Reaching \union Waiting) \ {"ensureActive"} /\ "powerOn" \in Creating
    BY DEF Reaching, Waiting, Creating
  <2> QED
    BY <2>1, <2>2, <2>3, <2>4, GoesOnKeeps
<1>7. ASSUME NEW s \in Slots, Scaleway!MetalPowerOn(s) PROVE HostStep
  <2>1. /\ call[s].stage = "powerOn" /\ host[call[s].host].state \in {"booting", "up", "error"}
        /\ \/ /\ host' = host /\ host[call[s].host].state \notin {"none", "pending"}
              /\ WaySeen => host[call[s].host].state # "going"
           \/ Live(call[s].host) /\ host' = [host EXCEPT ![call[s].host].state = "up"]
        /\ IF record[s].state = "create" THEN Answers(s, call[s].host) ELSE Goes(s, "vault.Enqueue", call[s].host)
    BY <1>7 DEF Scaleway!MetalPowerOn, Live
  <2>2. Busy(s) /\ call[s].stage \notin Searching \union Deleting
    BY <2>1 DEF Busy, Searching, Deleting, Ended
  <2>3. CASE record[s].state = "create"
    BY <2>1, <2>3, CreatedKeeps DEF Creating, Searching
  <2>4. CASE record[s].state # "create"
    <3>1. Calm(s)
      BY <2>1, <2>2, <2>4, WakesIsCalm DEF Same
    <3>2. "vault.Enqueue" \in (Reaching \union Waiting) \ {"ensureActive"}
      BY DEF Reaching
    <3> QED
      BY <2>1, <2>2, <2>4, <3>1, <3>2, GoesOnKeeps
  <2> QED
    BY <2>3, <2>4
<1>8. ASSUME NEW s \in Slots, Scaleway!MetalConfigureInstance(s) PROVE HostStep
  BY <1>8, StartsKeeps DEF Scaleway!MetalConfigureInstance, Opening, Configuring, Joined, Reaching
<1>9. ASSUME NEW s \in Slots, Scaleway!MetalDrainInstance(s) PROVE HostStep
  BY <1>9, StartsKeeps DEF Scaleway!MetalDrainInstance, Opening, Draining, Parted, Reaching
<1>10. ASSUME NEW s \in Slots, Scaleway!MetalApplyBootstrap(s) PROVE HostStep
  <2>1. PICK k \in Hosts :
          /\ call[s].stage = "vault.Enqueue" /\ record[s].state = "configure"
          /\ host[k].slot = host[call[s].host].slot /\ host[k].installed
          /\ Joins(k) /\ Goes(s, "setClusterTag", call[s].host)
    BY <1>10 DEF Scaleway!MetalApplyBootstrap, Scaleway!MetalAgents, Scaleway!Marked, Marked,
       Scaleway!Joins, Joins
  <2> QED
    BY <2>1, BootstrapKeeps DEF Vaults, Configuring, Joined, Reaching
<1>11. ASSUME NEW s \in Slots, Scaleway!MetalDrainNode(s) PROVE HostStep
  <2>1. PICK k \in Hosts :
          /\ call[s].stage = "vault.Enqueue" /\ record[s].state = "drain"
          /\ host[k].slot = host[call[s].host].slot /\ host[k].installed
          /\ Leaves(k) /\ Goes(s, "clearClusterTag", call[s].host)
    BY <1>11 DEF Scaleway!MetalDrainNode, Scaleway!MetalAgents, Scaleway!Marked, Marked,
       Scaleway!Leaves, Leaves
  <2> QED
    BY <2>1, DrainKeeps DEF Vaults, Draining, Parted, Reaching
<1>12. ASSUME NEW s \in Slots, Scaleway!MetalUpdateTags(s) PROVE HostStep
  BY <1>12, MarksKeeps DEF Scaleway!MetalUpdateTags, Scaleway!Binds, Binds, Scaleway!Unbinds,
     Unbinds, Scaleway!Listed, Listed, Joined, Parted
<1>13. ASSUME NEW s \in Slots, Scaleway!Fails(s) PROVE HostStep
  BY <1>13, FailsKeeps DEF Scaleway!Fails, Fails, Scaleway!Errs, Errs
<1>14. ASSUME NEW h \in Hosts, Scaleway!Appears(h) \/ Scaleway!Boots(h) \/ Scaleway!Errors(h) \/
            Scaleway!PowersOff(h) \/ Scaleway!Breaks(h)
       PROVE  HostStep
  BY <1>14, TurnsKeeps DEF Scaleway!Appears, Scaleway!Boots, Scaleway!Errors, Scaleway!PowersOff,
     Scaleway!Breaks, Scaleway!Turns, Turns
<1>15. ASSUME Scaleway!MetalRestart PROVE HostStep
  <2> DEFINE owners == [s \in Slots |-> Scaleway!MetalDescribe(s)]
  <2>0. Lapsing
    BY <1>15 DEF Scaleway!MetalRestart, Lapsing, HostInv, FleetType
  <2>1. host' \in [Hosts -> Server] /\ \A h \in Hosts : Forgets(h)
    BY <1>15 DEF Scaleway!MetalRestart, HostInv, FleetType, Forgets
  <2>2. Recovered \/ Reseeded(owners)
    BY <1>15 DEF Scaleway!MetalRestart, Scaleway!Recovered, Recovered, Scaleway!Reseeded, Reseeded
  <2>3. ~durable => \A s \in Slots :
          /\ owners[s] \subseteq Marked(s)
          /\ WaySeen => \A h \in owners[s] : host[h].state # "going"
    BY DEF WaySeen, Scaleway!MetalDescribe, Scaleway!Marked, Marked, Scaleway!Listed, Listed
  <2> HIDE DEF owners
  <2> QED
    BY <2>0, <2>1, <2>2, <2>3, RestartKeeps
<1> QED
  BY <1>1, <1>2, <1>3, <1>4, <1>5, <1>6, <1>7, <1>8, <1>9, <1>10, <1>11, <1>12, <1>13, <1>14, <1>15 DEF Scaleway!MetalNext

-----------------------------------------------------------------------------
(* The invariant, and what it says.                                         *)

\* Before the first operation there is no host, no call, and every slot is on offer.
LEMMA InitInv == Init => HostInv
<1> SUFFICES ASSUME FleetInit
             PROVE  HostInv
  BY DEF Init, Hetzner!Init, DigitalOcean!Init, Libvirt!Init, UpCloud!Init, Ovh!Init,
     Latitude!Init, Proxmox!Init, Gcp!Init, Azure!Init, Aws!Init, Oci!Init, Scaleway!Init,
     FleetInit, Hetzner!FleetInit, DigitalOcean!FleetInit, Libvirt!FleetInit, UpCloud!FleetInit,
     Ovh!FleetInit, Latitude!FleetInit, Proxmox!FleetInit, Gcp!FleetInit, Azure!FleetInit,
     Aws!FleetInit, Oci!FleetInit, Scaleway!FleetInit,
     Unused, Hetzner!Unused, DigitalOcean!Unused, Libvirt!Unused, UpCloud!Unused, Ovh!Unused,
     Latitude!Unused, Proxmox!Unused, Gcp!Unused, Azure!Unused, Aws!Unused, Oci!Unused,
     Scaleway!Unused,
     NoCall, Hetzner!NoCall, DigitalOcean!NoCall, Libvirt!NoCall, UpCloud!NoCall, Ovh!NoCall,
     Latitude!NoCall, Proxmox!NoCall, Gcp!NoCall, Azure!NoCall, Aws!NoCall, Oci!NoCall,
     Scaleway!NoCall
<1>1. /\ \A h \in Hosts : host[h] = Unused
      /\ \A s \in Slots : /\ record[s] = [state |-> "speculative", host |-> NoHost]
                          /\ call[s] = NoCall
  BY DEF FleetInit
<1>2. Unused \in Server
  BY DEF Unused, Server
<1>3. FleetType
  BY <1>1, <1>2 DEF FleetInit, FleetType, NoCall, Stages, States
<1>4. \A h \in Hosts : Sound(h)
  BY <1>1 DEF Sound, Unused
<1>5. CallsDiffer
  BY <1>1 DEF CallsDiffer, Busy, NoCall
<1>6. ASSUME NEW s \in Slots PROVE SlotInv(s)
  <2>1. CallInv(s)
    BY <1>1 DEF CallInv, Busy, NoCall, Kept, Serving
  <2>2. OwnInv(s) /\ WayInv(s) /\ StageInv(s)
    BY <1>1 DEF OwnInv, WayInv, StageInv, NoCall, Kept, Offered, Searching, Joined
  <2>3. AloneInv(s) /\ NodeInv(s)
    BY <1>1 DEF AloneInv, NodeInv, Drained, Live, Unused
  <2> QED
    BY <2>1, <2>2, <2>3 DEF SlotInv
<1> QED
  BY <1>3, <1>4, <1>5, <1>6 DEF HostInv

LEMMA StepInv == HostInv /\ [Next]_allVars => HostStep
<1> SUFFICES ASSUME HostInv, [Next]_allVars
             PROVE  HostStep
  OBVIOUS
<1>1. CASE Next
  BY <1>1, HetznerKeeps, DigitalOceanKeeps, LibvirtKeeps, UpCloudKeeps, OvhKeeps, LatitudeKeeps,
     ProxmoxKeeps, GcpKeeps, AzureKeeps, AwsKeeps, OciKeeps, ScalewayKeeps, MetalKeeps DEF Next
<1>2. CASE UNCHANGED allVars
  <2>1. UNCHANGED <<record, call, nextOp, durable, lapsed, restarts, provider>> /\ host' = host
    BY <1>2 DEF allVars, vars
  <2>2. host' \in [Hosts -> Server] /\ \A h \in Hosts : Mild(h)
    BY <2>1 DEF HostInv, FleetType, Mild
  <2> QED
    BY <2>1, <2>2, CloudKeeps
<1> QED
  BY <1>1, <1>2

\* At every provider, in every state: types, calls that differ, and of each slot who it
\* belongs to, that it is alone, on nobody's way out, and where its node is; the last
\* not of Proxmox, whose drain hides its failure, and not of a lapsed slot.
THEOREM HostsAlways == Spec => []HostInv
<1>1. HostInv /\ [Next]_allVars => HostInv'
  BY StepInv DEF HostStep
<1> QED
  BY InitInv, <1>1, PTL DEF Spec

\* The host a record offers is marked with that record's machine id, for any number of
\* slots, across failed creates, late launches and restarts.
THEOREM HostsAreOwn == Spec => []OwnHost
<1>1. HostInv => OwnHost
  BY DEF HostInv, SlotInv, OwnInv, Owned, OwnHost, Offered, Kept
<1> QED
  BY HostsAlways, <1>1, PTL

\* No record is on a host that is being deleted.
THEOREM NoneOnItsWayOut == Spec => []NotOnItsWayOut
<1>1. HostInv => NotOnItsWayOut
  BY DEF HostInv, SlotInv, WayInv, WaySeen, NotOnItsWayOut
<1> QED
  BY HostsAlways, <1>1, PTL

\* A slot on offer for a create has no host that runs or is to run.
THEOREM FreeSlotsAreFree == Spec => []FreeSlotIsFree
<1>1. HostInv => FreeSlotIsFree
  BY DEF HostInv, SlotInv, AloneInv, FreeSlotIsFree
<1> QED
  BY HostsAlways, <1>1, PTL

\* No slot pays for two hosts.
THEOREM OneHostEach == Spec => []OneHostPerSlot
<1>1. HostInv => OneHostPerSlot
  <2> SUFFICES ASSUME HostInv, durable, NEW s \in Slots
               PROVE  Cardinality({h \in Hosts : Live(h) /\ host[h].slot = s}) <= 1
    BY DEF OneHostPerSlot
  <2> DEFINE paid == {h \in Hosts : Live(h) /\ host[h].slot = s}
  <2>1. \A h, k \in paid : h = k
    BY DEF HostInv, SlotInv, AloneInv
  <2>2. CASE paid = {}
    BY <2>2, FS_EmptySet
  <2>3. CASE paid # {}
    <3>1. PICK h : paid = {h}
      BY <2>1, <2>3
    <3>2. Cardinality({h}) = 1
      BY FS_Singleton
    <3> QED
      BY <3>1, <3>2
  <2> QED
    BY <2>2, <2>3
<1> QED
  BY HostsAlways, <1>1, PTL

\* A binding mark is on a host whose node has joined: at every provider but AWS, at the
\* vaults' with a state file, and at DigitalOcean not in a lapsed slot.
THEOREM MarksAreTrue == Spec => []MarkIsTrue
<1>1. HostInv => MarkIsTrue
  BY DEF HostInv, Sound, MarkTrue, MarkIsTrue
<1> QED
  BY HostsAlways, <1>1, PTL

\* A host offered for binding or deletion has no node in a cluster: with a state file,
\* at every provider but Proxmox, in every slot that has not lapsed (a restart may leave
\* DigitalOcean's to old acknowledgements, and the SSH drains without a key).
THEOREM IdleHostsAreUnbound == Spec => []IdleIsUnbound
<1>1. HostInv => IdleIsUnbound
  <2> SUFFICES ASSUME HostInv, durable, provider # "proxmox", NEW s \in Slots \ lapsed,
                      record[s].state = "idle", host[record[s].host].node = "in"
               PROVE  FALSE
    BY DEF IdleIsUnbound
  <2>1. SlotInv(s) /\ record[s].host \in Hosts /\ host[record[s].host].slot = s
    BY DEF HostInv, SlotInv, CallInv, OwnInv, Owned, Kept
  <2> QED
    BY <2>1 DEF SlotInv, NodeInv, Drained
<1> QED
  BY HostsAlways, <1>1, PTL

\* No step installs a server whose node is in a cluster: at no provider does a host
\* whose node has joined lose it but by leaving.
THEOREM NoneIsWiped == Spec => NeverWiped
<1>1. HostInv /\ [Next]_allVars =>
        [\A h \in Hosts : host[h].node = "in" => host'[h].node # "never"]_allVars
  BY StepInv DEF HostStep
<1> QED
  BY HostsAlways, <1>1, PTL DEF Spec, NeverWiped

-----------------------------------------------------------------------------
(* Scaleway's reaper and the creates around it.                             *)

\* A server asked for in this life has a name of this life: no create that still looks
\* for its name will find it, and the one that waits for it is of the server's own slot.
Ours(h) == host[h].life = restarts + 1
Awaited(s, h) == record[s].state = "create" /\ call[s].host = h
ReapInv == provider = "scaleway" =>
    /\ \A h \in Hosts : /\ host[h].life <= restarts + 1
                        /\ Ours(h) => host[h].op < nextOp
    /\ \A s \in Slots, h \in Hosts : Ours(h) =>
         /\ call[s].stage \in Searching => host[h].op # call[s].op
         /\ Awaited(s, h) => host[h].slot = s /\ host[h].reap # "doomed"

\* What a step that begins no create and asks for no server leaves as it was.
HostsSteady == \A h \in Hosts :
    /\ host'[h].life = host[h].life /\ host'[h].slot = host[h].slot /\ host'[h].op = host[h].op
    /\ host'[h].reap = "doomed" => host[h].reap = "doomed"
CallsSteady ==
    /\ restarts' = restarts /\ nextOp' \in Nat /\ nextOp <= nextOp'
    /\ \A s \in Slots :
         /\ record'[s].state = "create" => record[s].state = "create" /\ call'[s].host = call[s].host
         /\ call'[s].stage \in Searching => /\ call[s].stage \in Searching
                                            /\ call'[s].op = call[s].op

LEMMA SteadyKeeps ==
    ASSUME HostInv, ReapInv, UNCHANGED provider, HostsSteady, CallsSteady
    PROVE  ReapInv'
<1>1. \A h \in Hosts : host[h].op \in Nat /\ nextOp \in Nat
  BY DEF HostInv, FleetType, Server
<1> QED
  BY <1>1 DEF ReapInv, HostsSteady, CallsSteady, Ours, Awaited

LEMMA GoesSteadily ==
    ASSUME HostInv, NEW s \in Slots, NEW stage \in Stages \ Searching, Goes(s, stage, call[s].host)
    PROVE  CallsSteady
<1>1. /\ call \in [Slots -> [stage : Stages, op : Nat, host : Hosts \union {NoHost}]]
      /\ nextOp \in Nat
  BY DEF HostInv, FleetType
<1>2. /\ record' = record /\ nextOp' = nextOp /\ restarts' = restarts
      /\ call'[s].host = call[s].host /\ call'[s].stage = stage
      /\ \A t \in Slots \ {s} : call'[t] = call[t]
  BY <1>1 DEF Goes
<1> QED
  BY <1>1, <1>2 DEF CallsSteady

LEMMA CallsSteadily ==
    ASSUME HostInv, NEW s \in Slots,
           \/ \E stage \in Stages \ Searching : Goes(s, stage, call[s].host)
           \/ \E h \in Hosts \union {NoHost} : Answers(s, h)
           \/ Errs(s)
           \/ \E operation \in Operations \ {"create"}, stage \in Stages \ Searching :
                Starts(s, operation, stage)
           \/ UNCHANGED <<record, call, nextOp, durable, lapsed, restarts>>
    PROVE  CallsSteady
<1>1. /\ record \in [Slots -> [state : States, host : Hosts \union {NoHost}]]
      /\ call \in [Slots -> [stage : Stages, op : Nat, host : Hosts \union {NoHost}]]
      /\ nextOp \in Nat
  BY DEF HostInv, FleetType
<1>2. ASSUME NEW stage \in Stages \ Searching, Goes(s, stage, call[s].host) PROVE CallsSteady
  BY <1>2, GoesSteadily
<1>3. ASSUME NEW h \in Hosts \union {NoHost}, Answers(s, h) PROVE CallsSteady
  BY <1>1, <1>3 DEF CallsSteady, Answers, NoCall, Searching, Operations, Done
<1>4. CASE Errs(s)
  BY <1>1, <1>4 DEF CallsSteady, Errs, NoCall, Searching
<1>5. ASSUME NEW operation \in Operations \ {"create"}, NEW stage \in Stages \ Searching,
             Starts(s, operation, stage)
      PROVE  CallsSteady
  BY <1>1, <1>5 DEF CallsSteady, Starts
<1>6. CASE UNCHANGED <<record, call, nextOp, durable, lapsed, restarts>>
  BY <1>1, <1>6 DEF CallsSteady
<1> QED
  BY <1>2, <1>3, <1>4, <1>5, <1>6

LEMMA HostsSteadily ==
    ASSUME HostInv,
           \/ host' = host
           \/ \E h \in Hosts, to \in CloudStates : host' = [host EXCEPT ![h].state = to]
           \/ \E h \in Hosts, b \in BOOLEAN : host' = [host EXCEPT ![h].bound = b]
           \/ \E h \in Hosts : Joins(h) \/ Leaves(h)
    PROVE  HostsSteady
<1>1. host \in [Hosts -> Server]
  BY DEF HostInv, FleetType
<1>2. ASSUME NEW h \in Hosts, NEW to \in CloudStates, host' = [host EXCEPT ![h].state = to]
      PROVE  HostsSteady
  BY <1>1, <1>2 DEF HostsSteady, Server
<1>3. ASSUME NEW h \in Hosts, NEW b \in BOOLEAN, host' = [host EXCEPT ![h].bound = b]
      PROVE  HostsSteady
  BY <1>1, <1>3 DEF HostsSteady, Server
<1>4. ASSUME NEW h \in Hosts, Joins(h) \/ Leaves(h)
      PROVE  HostsSteady
  BY <1>1, <1>4 DEF HostsSteady, Server, Joins, Leaves
<1>5. CASE host' = host
  BY <1>5 DEF HostsSteady
<1> QED
  BY <1>2, <1>3, <1>4, <1>5

LEMMA ReapStep ==
    ASSUME HostInv, ReapInv, provider = "scaleway", UNCHANGED provider, Scaleway!Next
    PROVE  ReapInv'
<1> USE DEF Scaleway!At, Scaleway!Goes, Goes, Scaleway!Answers, Answers, Scaleway!NoCall, NoCall,
        Scaleway!Operations, Operations, Scaleway!Done, Done
<1>0. /\ host \in [Hosts -> Server] /\ nextOp \in Nat /\ restarts \in Nat
      /\ call \in [Slots -> [stage : Stages, op : Nat, host : Hosts \union {NoHost}]]
      /\ record \in [Slots -> [state : States, host : Hosts \union {NoHost}]]
  BY DEF HostInv, FleetType
<1>a. \A s \in Slots : record[s].state = "create" /\ call[s].host \in Hosts =>
        Busy(s) /\ host[call[s].host].state # "none"
  BY HostsAssumption DEF HostInv, SlotInv, CallInv, Busy, Creating, Searching
<1>b. \A s \in Slots : call[s].stage \notin Searching \union {"none"} => call[s].host \in Hosts
  BY DEF HostInv, SlotInv, CallInv, Busy
<1>1. ASSUME NEW s \in Slots, Scaleway!CreateInstance(s) PROVE ReapInv'
  <2>1. /\ record[s].state = "speculative" /\ record[s].host = NoHost
        /\ host' = host /\ restarts' = restarts /\ nextOp' = nextOp + 1
        /\ record'[s].state = "create"
        /\ call'[s] = [stage |-> "serverByName", op |-> nextOp, host |-> NoHost]
        /\ \A t \in Slots \ {s} : record'[t] = record[t] /\ call'[t] = call[t]
    BY <1>0, <1>1 DEF Scaleway!CreateInstance, Scaleway!Starts, Scaleway!From, HostInv, SlotInv, CallInv
  <2>2. \A h \in Hosts : host[h].op \in Nat
    BY <1>0 DEF Server
  <2> QED
    BY <1>0, <2>1, <2>2, HostsAssumption DEF ReapInv, Ours, Awaited
<1>2. ASSUME NEW s \in Slots, Scaleway!ServerByName(s) PROVE ReapInv'
  <2>1. /\ host' = host /\ restarts' = restarts /\ nextOp' = nextOp /\ record' = record
        /\ \A t \in Slots \ {s} : call'[t] = call[t]
        /\ call[s].stage \in Searching /\ call'[s].op = call[s].op
        /\ \/ call'[s].host = NoHost
           \/ host[call'[s].host].op = call[s].op /\ call'[s].stage \notin Searching
    BY <1>0, <1>2 DEF Scaleway!ServerByName, Scaleway!Lowest, Scaleway!Named, Searching
  <2> QED
    BY <2>1, HostsAssumption DEF ReapInv, Ours, Awaited
<1>3. ASSUME NEW s \in Slots, Scaleway!CreateServer(s) PROVE ReapInv'
  <2>1. PICK h \in Hosts, id \in Nat :
          /\ call[s].stage = "CreateServer" /\ Goes(s, "ensureRunning", h)
          /\ host[h].state = "none"
          /\ host' = [host EXCEPT ![h] = Created(s, call[s].op, id, restarts + 1)]
    <3>1. PICK h \in Hosts, id \in 1..Scaleway!Cardinality(Hosts) :
            /\ call[s].stage = "CreateServer" /\ Goes(s, "ensureRunning", h)
            /\ host[h].state = "none"
            /\ host' = [host EXCEPT ![h] = Created(s, call[s].op, id, restarts + 1)]
      BY <1>3, Zenon DEF Scaleway!CreateServer, Scaleway!Unused, Unused, Created
    <3>2. id \in Nat
      OBVIOUS
    <3> QED
      BY <3>1, <3>2
  <2>2. PICK new : new = Created(s, call[s].op, id, restarts + 1)
    OBVIOUS
  <2>3. new.slot = s /\ new.op = call[s].op /\ new.life = restarts + 1 /\ new.reap = "no"
    BY <2>2 DEF Created, Unused
  <2>4. /\ host'[h] = new /\ \A k \in Hosts \ {h} : host'[k] = host[k]
        /\ restarts' = restarts /\ nextOp' = nextOp /\ record' = record
        /\ \A t \in Slots \ {s} : call'[t] = call[t]
        /\ call'[s] = [stage |-> "ensureRunning", op |-> call[s].op, host |-> h]
        /\ call[s].op < nextOp /\ Busy(s) /\ call[s].stage \in Searching
    <3>1. host'[h] = new /\ \A k \in Hosts \ {h} : host'[k] = host[k]
      BY <1>0, <2>1, <2>2
    <3>2. Goes(s, "ensureRunning", h)
      BY <2>1
    <3>3. /\ restarts' = restarts /\ nextOp' = nextOp /\ record' = record
          /\ \A t \in Slots \ {s} : call'[t] = call[t]
          /\ call'[s] = [stage |-> "ensureRunning", op |-> call[s].op, host |-> h]
      BY <1>0, <3>2
    <3>4. call[s].stage \in Searching /\ Busy(s)
      BY <2>1 DEF Searching, Busy
    <3>5. call[s].op < nextOp
      BY <3>4 DEF HostInv, SlotInv, CallInv
    <3> QED
      BY <3>1, <3>3, <3>4, <3>5
  <2>5. \A t \in Slots \ {s} : /\ call[t].stage \in Searching => call[t].op # call[s].op
                               /\ ~Awaited(t, h)
    BY <1>a, <2>1, <2>4 DEF HostInv, CallsDiffer, Busy, Searching, Awaited
  <2> QED
    <3>1. /\ \A k \in Hosts : k # h => host'[k] = host[k]
          /\ host'[h].life = restarts + 1 /\ host'[h].op = call[s].op
          /\ host'[h].slot = s /\ host'[h].reap = "no"
      BY <2>3, <2>4
    <3>2. \A k \in Hosts : /\ host'[k].life <= restarts' + 1
                           /\ Ours(k)' => host'[k].op < nextOp'
      BY <1>0, <2>4, <3>1 DEF ReapInv, Ours
    <3>3. call'[s].stage \notin Searching
      BY <2>4 DEF Searching
    <3>4. ASSUME NEW t \in Slots, NEW k \in Hosts, Ours(k)'
          PROVE  /\ call'[t].stage \in Searching => host'[k].op # call'[t].op
                 /\ Awaited(t, k)' => host'[k].slot = t /\ host'[k].reap # "doomed"
      <4>1. CASE t = s /\ k = h
        BY <3>1, <3>3, <4>1
      <4>2. CASE t = s /\ k # h
        BY <2>4, <3>3, <4>2 DEF Awaited
      <4>3. CASE t # s /\ k = h
        BY <2>4, <2>5, <3>1, <4>3 DEF Awaited
      <4>4. CASE t # s /\ k # h
        BY <2>4, <3>1, <3>4, <4>4 DEF ReapInv, Ours, Awaited
      <4> QED
        BY <4>1, <4>2, <4>3, <4>4
    <3> HIDE DEF Searching
    <3> QED
      BY <3>2, <3>4 DEF ReapInv, Ours, Awaited
<1>4. ASSUME NEW s \in Slots,
             \/ Scaleway!ConfigureInstance(s) \/ Scaleway!DrainInstance(s) \/ Scaleway!DeleteInstance(s)
      PROVE  ReapInv'
  <2>1. /\ host' = host
        /\ \E operation \in Operations \ {"create"}, stage \in Stages \ Searching :
             Starts(s, operation, stage)
    BY <1>4 DEF Scaleway!ConfigureInstance, Scaleway!DrainInstance, Scaleway!DeleteInstance,
       Scaleway!Starts, Starts, Scaleway!From, From, Stages, Reaching, Deleting, Searching
  <2> QED
    BY <2>1, CallsSteadily, HostsSteadily, SteadyKeeps
<1>5. ASSUME NEW s \in Slots,
             \/ Scaleway!EnsureRunning(s) \/ Scaleway!WaitRunning(s) \/ Scaleway!ApplyBootstrap(s)
             \/ Scaleway!DrainNode(s) \/ Scaleway!UpdateTags(s) \/ Scaleway!Poweroff(s)
             \/ Scaleway!DeleteServer(s) \/ Scaleway!Fails(s)
      PROVE  ReapInv'
  <2>1. CASE Scaleway!Fails(s)
    BY <2>1, CallsSteadily, HostsSteadily, SteadyKeeps DEF Scaleway!Fails, Scaleway!Errs, Errs
  <2>2. CASE ~Scaleway!Fails(s)
    <3>1. call[s].stage \notin Searching \union {"none"} /\ call[s].host \in Hosts
      BY <1>5, <1>b, <2>2 DEF Scaleway!EnsureRunning, Scaleway!WaitRunning, Scaleway!ApplyBootstrap,
         Scaleway!DrainNode, Scaleway!UpdateTags, Scaleway!Poweroff, Scaleway!DeleteServer, Searching
    <3>2. PICK c \in Hosts : c = call[s].host
      BY <3>1
    <3>3. CallsSteady
      <4>1. \/ \E stage \in Stages \ Searching : Goes(s, stage, c)
            \/ \E h \in Hosts \union {NoHost} : Answers(s, h)
        BY <1>5, <2>2, <3>2 DEF Scaleway!EnsureRunning, Scaleway!WaitRunning,
           Scaleway!ApplyBootstrap, Scaleway!DrainNode, Scaleway!UpdateTags, Scaleway!Poweroff,
           Scaleway!DeleteServer, Stages, Creating, Reaching, Joined, Parted, Deleting, Ended, Searching
      <4> QED
        BY <3>2, <4>1, CallsSteadily
    <3>4. HostsSteady
      <4>1. CASE Scaleway!EnsureRunning(s) \/ Scaleway!Poweroff(s) \/ Scaleway!DeleteServer(s)
        <5>1. \E to \in CloudStates : host' = [host EXCEPT ![c].state = to]
          BY <1>0, <3>2, <4>1 DEF Scaleway!EnsureRunning, Scaleway!Poweroff, Scaleway!DeleteServer,
             CloudStates, Server
        <5> QED
          BY <5>1, HostsSteadily
      <4>2. CASE Scaleway!WaitRunning(s)
        BY <4>2, HostsSteadily DEF Scaleway!WaitRunning
      <4>3. CASE Scaleway!ApplyBootstrap(s) \/ Scaleway!DrainNode(s)
        <5>1. \E h \in Hosts : Joins(h) \/ Leaves(h)
          BY <4>3 DEF Scaleway!ApplyBootstrap, Scaleway!DrainNode, Scaleway!Agents, Scaleway!Marked,
             Scaleway!Joins, Joins, Scaleway!Leaves, Leaves
        <5> QED
          BY <5>1, HostsSteadily
      <4>4. CASE Scaleway!UpdateTags(s)
        <5>1. \E b \in BOOLEAN : host' = [host EXCEPT ![c].bound = b]
          BY <3>2, <4>4 DEF Scaleway!UpdateTags, Scaleway!Binds, Scaleway!Unbinds
        <5> QED
          BY <5>1, HostsSteadily
      <4> QED
        BY <1>5, <2>2, <4>1, <4>2, <4>3, <4>4
    <3> QED
      BY <3>3, <3>4, SteadyKeeps
  <2> QED
    BY <2>1, <2>2
<1>6. ASSUME NEW s \in Slots, Scaleway!Sweep(s) PROVE ReapInv'
  <2>1. CallsSteady
    BY <1>6, CallsSteadily DEF Scaleway!Sweep
  <2>2. HostsSteady
    BY <1>0, <1>6 DEF Scaleway!Sweep, HostsSteady, Server
  <2> QED
    BY <2>1, <2>2, SteadyKeeps
<1>7. ASSUME NEW s \in Slots, Scaleway!ReapAsk(s) PROVE ReapInv'
  <2>1. /\ UNCHANGED <<record, call, nextOp, restarts>>
        /\ \A h \in Hosts : /\ host'[h].life = host[h].life /\ host'[h].op = host[h].op
                            /\ host'[h].slot = host[h].slot
                            /\ \/ host'[h].reap = "doomed" => host[h].reap = "doomed"
                               \/ host[h].slot = s /\ ~Scaleway!CreateInFlight(s)
    BY <1>0, <1>7 DEF Scaleway!ReapAsk, Scaleway!Condemned, Scaleway!Duplicates, Server
  <2>2. \A h \in Hosts : Awaited(s, h) => Scaleway!CreateInFlight(s)
    BY <1>a DEF Awaited, Scaleway!CreateInFlight, Busy
  <2> QED
    BY <2>1, <2>2 DEF ReapInv, Ours, Awaited
<1>8. ASSUME Scaleway!ReapList PROVE ReapInv'
  <2>1. CallsSteady
    BY <1>0, <1>8 DEF Scaleway!ReapList, CallsSteady
  <2>2. HostsSteady
    BY <1>0, <1>8 DEF Scaleway!ReapList, HostsSteady, Server
  <2> QED
    BY <2>1, <2>2, SteadyKeeps
<1>9. ASSUME NEW h \in Hosts,
             \/ Scaleway!CreatedStopped(h) \/ Scaleway!Boots(h) \/ Scaleway!PowersOff(h)
             \/ Scaleway!Breaks(h)
      PROVE  ReapInv'
  <2>1. PICK to \in CloudStates : host' = [host EXCEPT ![h].state = to]
    BY <1>9 DEF Scaleway!CreatedStopped, Scaleway!Boots, Scaleway!PowersOff, Scaleway!Breaks,
       Scaleway!Turns, CloudStates
  <2>2. UNCHANGED <<record, call, nextOp, durable, lapsed, restarts>>
    BY <1>9 DEF Scaleway!CreatedStopped, Scaleway!Boots, Scaleway!PowersOff, Scaleway!Breaks,
       Scaleway!Turns
  <2>3. CallsSteady
    BY <1>0, <2>2 DEF CallsSteady
  <2> QED
    BY <2>1, <2>3, HostsSteadily, SteadyKeeps
<1>10. ASSUME NEW h \in Hosts, Scaleway!Reaped(h) PROVE ReapInv'
  <2>1. CallsSteady
    BY <1>0, <1>10 DEF Scaleway!Reaped, CallsSteady
  <2>2. PICK to : host' = [host EXCEPT ![h] = ReapedAs(host[h], to)]
    BY <1>10, Zenon DEF Scaleway!Reaped, ReapedAs
  <2>3. HostsSteady
    BY <1>0, <2>2 DEF HostsSteady, ReapedAs, Server
  <2> QED
    BY <2>1, <2>3, SteadyKeeps
<1>11. ASSUME Scaleway!Restart PROVE ReapInv'
  <2>1. /\ restarts' = restarts + 1
        /\ \A s \in Slots : call'[s].stage = "none" /\ call'[s].host = NoHost
    BY <1>11 DEF Scaleway!Restart, Scaleway!Recovered, Scaleway!Reseeded
  <2>2. \A h \in Hosts : host'[h].life = host[h].life /\ host[h].life \in Nat
    BY <1>0, <1>11 DEF Scaleway!Restart, Server
  <2> QED
    BY <1>0, <2>1, <2>2 DEF ReapInv, Ours, Searching, Awaited
<1> QED
  BY <1>1, <1>2, <1>3, <1>4, <1>5, <1>6, <1>7, <1>8, <1>9, <1>10, <1>11 DEF Scaleway!Next

\* Scaleway's reaper, which lists, asks and deletes while creates begin and end, deletes
\* no server that a create of this life has asked for and waits for.
THEOREM CreatesAreSpared == Spec => CreateSpared
<1>1. Init => ReapInv
  <2> SUFFICES ASSUME Scaleway!Init PROVE ReapInv
    BY DEF Init, ReapInv
  <2> QED
    BY DEF Scaleway!Init, Scaleway!FleetInit, Scaleway!Unused, Scaleway!NoCall, ReapInv, Ours, Awaited,
       Searching
<1>2. HostInv /\ ReapInv /\ [Next]_allVars => ReapInv'
  <2> SUFFICES ASSUME HostInv, ReapInv, [Next]_allVars
               PROVE  ReapInv'
    OBVIOUS
  <2>1. CASE Next
    BY <2>1, ReapStep DEF Next, ReapInv
  <2>2. CASE UNCHANGED allVars
    BY <2>2 DEF allVars, vars, ReapInv, Ours, Awaited
  <2> QED
    BY <2>1, <2>2
<1>3. HostInv /\ ReapInv =>
        [provider = "scaleway" =>
           \A s \in Slots, h \in Hosts :
             /\ record[s].state = "create" /\ call[s].host = h
             /\ host[h].life = restarts + 1
             => ~Scaleway!Reaped(h)]_allVars
  BY DEF ReapInv, Ours, Awaited, Scaleway!Reaped
<1> QED
  BY HostsAlways, <1>1, <1>2, <1>3, PTL DEF Spec, CreateSpared
=============================================================================
