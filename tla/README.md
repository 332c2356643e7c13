# BigFleet providers: TLA+ models and proofs

This directory holds TLA+ modules for the BigFleet capacity providers: the
shared provider kit (`providerkit/`), which is the state machine, fencing,
idempotency and persistence every provider runs on, and the stateful parts of
the provider backends (`providers/*`). TLC checks the models on small
instances; TLAPS proves, for every value of the constants, the safety of the kit,
of its poller and its store, of the deliveries, of the spot notices and of the
prices, and that kit, store and vaults implement their abstract specifications.

## 1. Inventory

### providerkit

| component | state it keeps | operations | what makes it correct |
|---|---|---|---|
| `Server` (server.go, machine.go, fence.go) | `machines`, `fences` per (shard, machine), `ops` per (machine, kind), `lastMod` per machine, `rev`, `nextOp`, all under `mu`; one goroutine per accepted transition | `Create`, `Configure`, `Drain`, `Delete` (all through `dispatch`), `Reconcile`, `New` (seed or reload), `runTransition` | each transition has exactly one driver and ends; no zombie shard is applied after its successor; a retry never dispatches twice; operation ids are unique for ever; the record and the host agree; a binding lasts exactly Configuring..Draining |
| `List` (server.go) | none; reads `rev` and `lastMod` | `since_revision`, `max_results` | a poller that carries its cursor forward misses no machine, across restarts |
| `Store` (store.go, filestore.go) | one snapshot | `Save`, `Load` | a snapshot is never torn; what `Save` acknowledged survives a crash |
| conversion (convert.go, errors.go) | none | gRPC and protobuf mapping | stateless |

### Provider backends

Each `providers/<name>` implements `Backend` (`Describe`, `CreateInstance`,
`ConfigureInstance`, `DrainInstance`, optionally `DeleteInstance` and
`ConfirmNodeReady`) over one cloud API. Much of the code is a client: request
building, response parsing, metrics, flags. What is a protocol in it is how a
create finds the host an earlier one made, in which order the marks on a host are
set and cleared, and what is cached from one tick to the next:

| component | state | what is hard | what makes it correct |
|---|---|---|---|
| DigitalOcean `bootstrapVault` (bootstrap.go), Scaleway `bootstrapVault` (scwbootstrap.go) | pending command per machine; a counter, or random ids | the agent polls and acknowledges over HTTP while a call waits, is superseded or times out; process restarts | a call succeeds on its own acknowledgement only, nobody waits for a command no agent can see, nothing given up on is served |
| SSH delivery (`runSSH`, hostkey.go, `substrateIndex` on Latitude), guest-agent delivery (`guestExec`, `callCtx`, `agentRun`) | the fingerprint recorded with the server; the script on the host | the call waits for a script on a machine that the deadline does not stop; the first connection records a key, a later one checks it, and the record may fail | one script at a time on a machine, a key on record is the only one accepted, a call ends with its deadline |
| AWS `interruption` and `interruptionPoller` | warned machines | SQS at-least-once delivery against Reconcile, Delete and restarts | a notice for a live VM is not lost, and the published risk stays raised until the VM is gone |
| Azure `evictionReporter`, OCI `preemptionPoller`, GCP `observePreemptions` | the same map | reports repeated by an agent; commit-on-get; a poll in the reconciler's tick | the same |
| Latitude `substrateIndex` (substratestate.go) | slot to server and cluster, in a JSON file | saves outside the lock, crash between write and rename | the file never goes back to an older map |
| each backend over its cloud (backend.go, `*real.go`, openstack.go, scwbaremetal.go) | the machine-id mark, the name and the binding mark on each host; nothing in memory but Latitude's index | every request may fail, be answered late or succeed unseen; deletes take time; without a state file operation ids start over | one host for one slot and one slot for one host; a slot on offer has no host; a host on offer is bound to no cluster, is not on its way out, and is never installed over |
| Scaleway server list (backend.go) | in-flight create counters | Describe deletes duplicate servers while creates run | no server in use is deleted |
| price and size caches (pricing.go, instancetypes.go, catalog.go, gcebilling.go, ociprices.go) | live prices, known sizes, the client's own copy of a list | partial and failing refreshes, a list that names a type at 0, a start at which a lookup fails, a Describe that read before a refresh | no billed machine is served as free, a price once known is kept, a pinned size stands, and the published price follows the cloud's |

`conformance/` is the test suite and its fault-injecting provider, `hack/` and
`.github/` are CI scripts, `site/` is the documentation site.

### How the parts interact

A shard calls the kit's gRPC methods with a fencing token. `dispatch` decides
under `Server.mu`, saves through the `Store` before it lets the lock go, and
starts one goroutine for an accepted call. The goroutine calls the `Backend` with
a deadline and settles the record when the call returns. A ticker in each
provider's `main.go` calls `Server.Reconcile`, which calls `Backend.Describe`
without the lock. The backend's `ConfigureInstance` and `DrainInstance` block in
the bootstrap vault on DigitalOcean and Scaleway, and in an SSH session or the
guest agent on seven others. The interruption trackers are
written by their own goroutines and read by `Describe`, so what they know reaches
a shard by way of Reconcile and the record it refreshes. After a start, the kit
loads its snapshot, and every in-memory structure of the provider is empty. Prices
and sizes take the same way: refresh loops fill caches, `Describe` reads them, and
Reconcile carries what it read into the records.

## 2. Modules

| module | models | extends or composes |
|---|---|---|
| `Lifecycle` | machine.go, fence.go: states, kinds, edges, token order | |
| `ProviderKit` | server.go, and the substrate it drives | `Lifecycle` |
| `MachineContract` | abstract: what the kit promises, with no crash in it | `Lifecycle` |
| `ProviderKitContract` | the refinement mapping from the kit to the contract, and TLC's instances of the kit | `ProviderKit`, instance of `MachineContract` |
| `ListPolling` | `Server.List` and one poller | `ProviderKit` |
| `FileStore` | filestore.go over a file system with a volatile cache | instance of `DurableStore` |
| `DurableStore` | abstract: what store.go says a Store does | |
| `BootstrapChannel` | what the two vaults share, the agent, the calling kit | instance of `CommandDelivery` |
| `CommandDelivery` | abstract: a call ends well only after its command was applied | |
| `DigitalOceanVault`, `ScalewayVault` | the vaults themselves | `BootstrapChannel` |
| `ScriptDelivery` | a script in an SSH session (hetzner, upcloud, ovhcloud, gcp, latitude) or through the guest agent (libvirt, proxmox) | |
| `BootstrapDelivery` | every way a command reaches a machine, and what they promise | `BootstrapChannel`, instances of the two vaults and of `ScriptDelivery` |
| `SpotFleet` | slots, VMs, tracker, records, Reconcile and restart, as the four spot providers share them | |
| `AwsInterruption`, `AzureEviction`, `OciPreemption`, `GcpPreemption` | each provider's way from the cloud's notice to the tracker | `SpotFleet` |
| `SpotProviders` | the four in one environment, and what they promise | instances of the four |
| `HostFleet` | slots, records, calls and hosts as all backends share them; the kit around a backend call; the cloud | |
| `HetznerHosts`, `DigitalOceanHosts`, `LibvirtHosts`, `UpCloudHosts`, `OvhHosts`, `LatitudeHosts`, `ProxmoxHosts`, `GcpHosts`, `AzureHosts`, `AwsHosts`, `OciHosts`, `ScalewayHosts` (Instances and, in definitions that start with `Metal`, Elastic Metal) | each backend's Create, Configure, Drain, Delete, Describe and restart, one action per cloud request | `HostFleet` |
| `HostProviders` | the thirteen in one environment, what they promise, and TLC's instance | instances of the twelve modules |
| `PriceFleet` | quotes, pinned tables, caches, the steps of main and of the refresh loops, Describe and Reconcile as far as prices and sizes go | |
| `MeterPrices` (AWS, Azure, GCP), `CataloguePrices` (Hetzner, Latitude, DigitalOcean, Scaleway, OCI, OVHcloud, UpCloud) | each provider's lookup, check at the start, refresh and size lookup, in definitions that start with its name | `PriceFleet` |
| `PriceProviders` | the ten in one environment, and what they promise | `MeterPrices`, `CataloguePrices` |
| `MCCatalogue` | TLC's instance of `ListPolling` and `PriceProviders` side by side | `ListPolling`, `PriceProviders` |
| `ProviderKitProofs`, `KitRecordProofs` | theorems about the kit: drivers, history, fencing; records, substrate, contract | `ProviderKit`; `ProviderKitProofs`, `ProviderKitContract` |
| `ListPollingProofs`, `FileStoreProofs`, `DeliveryProofs`, `SpotProofs`, `HostProofs`, `PriceProofs` | theorems about one component each | `ListPolling` and `KitRecordProofs`, `FileStore`, `BootstrapDelivery`, `SpotProviders`, `HostProviders`, `PriceProviders` |

### ProviderKit

One dispatch is one step: the fence check, the retry check, the state check, the
mark, the id, the record, the Save. That is what `Server.mu` and the Save inside
it make of it. `Dispatch` has the three ways out of the code: `Refuse` (no such
machine, stale token, wrong state, not implemented), `RetryAck`, `Accept`. A
refused or repeated call still advances the mark and saves it.

`running` is the set of goroutines. `Accept` puts the request on the `wire` when
it starts one. `Land` lets a request on the wire take effect at any later time or
never. `ActuatorReturns`, `NodeConfirmed` and `ActuatorErrs` are the backend's
answers, `Finish` is the result being applied, `Timeout` the deadline.
`ReconcileDescribe` and `ReconcileApply` are the two sides of the unlocked
Describe. `Crash` empties memory; `BootFresh` and `BootStored` are `New`. With
`SaveMayFail`, `Persist` may leave the disk behind: the code logs the error only.

`hosts`, `wire` and `node` are the substrate, `accepted`, `acked`, `highest`,
`behind` and `lost` are history, read by properties and by no guard. `price`
stands for every fact Reconcile refreshes; the substrate may report a negative
one, which `validate` has to keep out.

Where properties look at `View`, they look at what a reader sees, or, while the
process is down, will see after the next start.

### FileStore

Each system call of `Save` is a step, with its error path (`Fails`), a kill and a
power loss between any two. The kernel may write data or the directory back by
itself at any time. `Return` covers the directory sync, which is best effort:
`Save` returns nil when it fails. `acked` therefore counts the Saves that synced.

### The bootstrap vaults

`call` holds every `Enqueue` with its buffered done channel; `pending` is the map.
The critical sections of the code are single steps; DigitalOcean's `handleAck` is
two, because it sends after it unlocked. The agent is external: it may be late,
repeat an acknowledgement it got no answer to, and apply a command it fetched
after the call that issued it is over. With `Serial`, the caller is the kit, one
call per machine at a time; without, calls supersede each other, which the code
provides for.

### SSH and the guest agent

`delivery` holds every `ApplyBootstrap` or `DrainNode` call of one machine: the
stage of `runSSH`, the fingerprint its caller read (`view`), the key that answered
the dial (`peer`), the key that was accepted (`key`) and whether it went on record.
`pin` is the fingerprint the provider reads, `savedPin` what it will read after a
restart; the two differ on Latitude only, whose index keeps it in memory and in a
file, and another machine's save that began earlier may put an older index back
(`LatitudeOlderSave`). Every return of the code is an action or a disjunct: the lookup and the dial
(`Errs`, `Dial`), the handshake with its callback (`Handshake`), the first key
(`Recorded`, `Unrecorded`, `LatitudeOnTOFU`, `LatitudeOrphan`), the two arms of the
select (`Finishes`, `Deadline`). `Expire` is a context's deadline and ends nothing
by itself: whatever selects on the context does. The handshake and the opening of
the session do not, so a call may sit there past its deadline.

The guest agent's calls share the record and the script, not the keys. libvirt's
has a worker of its own: `LibvirtCallCtx` answers the kit, and the worker goes on
polling, or even starts the script afterwards.

External are the host (another key may answer at the address at any time, a script
exits when and how it likes, and may go on when nobody listens), and the kit, which
sends the next call only after the last one succeeded. That is what it does with a
state file: a transition cut short by a restart leaves its machine Failed.

### The spot providers

A VM has a slot and is alive, stopped or gone. A slot's record is what the kit
keeps across a restart; `observed` is the tracker, which it does not. `issued` are
the notices the cloud gave, `channel` the ones on their way, `poller` the
goroutine that carries one, `scan` each Reconcile that runs. `excused` remembers
the notices that may have been lost (to a failed lookup, a restart, the missing
group or the lost answer), so that the properties can say what is promised of the
others.

The providers differ in how a notice gets lost or repeated. SQS repeats it until
it is deleted, and the poller deletes it even when the lookup failed. OCI's
consumer group is created at LATEST: an event older than the group is never read
(`Grouped`), and a poller whose first cursor fails returns and reads none. A read
commits what it takes, also when its answer is lost (`GetMessagesLost`). Azure's agents post again every few seconds, and
each post starts a Reconcile beside the periodic one. GCP sends nothing; the
reconciler lists preempted VMs after its Reconcile.

### The hosts

`host` is the cloud's list: each host's state, the machine id it is marked with,
the operation id its name is made of, the binding mark, and what its node did
(`never`, `in`, `left`). A launch that was accepted is `pending` until the cloud
lists it, whoever still waits; a deletion is `going` until it is done. `record` is
what the kit keeps and `call` the backend call a slot has in progress: its stage
is the request made next, so that each action is one request with its answer, and
`Fails` may end any call between two of them. The kit is sketched (`Starts`,
`Answers`, `Errs`); `ProviderKit` has it in full.

A restart has two forms. With a state file (`durable`) the records stay and what
was in progress is failed. Without, records are what `Describe` makes of the hosts
and operation ids begin again, which is where names and tokens of an earlier life
come back.

The providers differ in what finds a host again. The name carries the operation id
on hetzner, gcp, azure, libvirt and scaleway; the machine-id mark is asked for on
digitalocean, upcloud, ovhcloud, proxmox and latitude; aws and oracle-cloud hand
the operation id to the cloud as a token, and a token used for another slot is
refused. Latitude keeps an index in a file of its own (`known`, `saved`), whose
writes may fail silently. libvirt's calls go on in a goroutine after the kit gave
them up (`Abandoned`). Scaleway's Describe reaps duplicates in three steps, as the
code does it with no lock around them: it lists (`ReapList`), asks machine by machine
whether a create is in flight (`ReapAsk`) and deletes all but the lowest of the
servers it listed (`Reaped`); creates begin, launch and end in between. Elastic Metal installs an operating system on
delivery, and a create that resumes must not do it twice.

A drain may be answered without the node having left. Proxmox's script ends in
`|| true`, so it always may. DigitalOcean's may in a slot with a droplet whose agent
has run a command when the process restarts: an old acknowledgement then has a number
that comes again (`OldAck`). Hetzner, Latitude, UpCloud and OVHcloud clear the mark
only when they have no SSH key. A provider that never had one never joined a node
either, so what matters is one that is started again without it. `lapsed` holds the
slots this may happen in. It only grows, and so includes more behaviors than the code
has: a life with the key after one without is not told apart.

What is not promised is carved out by name in the properties, with the reason:
adoption by name across lives without a state file (`TakesByName`), hosts on their
way out that some Describes cannot tell (`NotOnItsWayOut`), AWS, which tags a
host as bound before the bootstrap (`MarkIsTrue`), and, where a node is, Proxmox and
the lapsed slots (`IdleIsUnbound`, and of DigitalOcean `MarkIsTrue`).

### The prices

`quote` and `spotQuote` are the cloud's, and change at any time. `pinned` is the
build: the price table, the operator's overrides, the table of sizes. `live` and
`liveSpot` are the caches, `listing` the copy of the list that the DigitalOcean,
Scaleway and GCP clients keep. `loop` is each refresh: which types are still to be
asked for, and an answer not yet laid over the cache. `stage` is how far main has
come: each provider warms its caches, checks its prices and looks its sizes up in
an order of its own, and some refuse to start. `reading` is a Describe whose records
the kit has not taken yet. Prices are small numbers: the table says 30, the cloud
10, later 20, 0 or nothing.

## 3. What the runs show

| run | question | states | bounds |
|---|---|---|---|
| `lifecycle` | Over creates, configures, drains, deletes, Reconciles and crashes: one driver per transition, record and hosts agree, no phantom capacity, bindings last exactly as long as they should, records keep their shape, a reader sees legal steps only | 325,022 | 2 machines (a slot and an existing host), 4 operations, 3 prices one of them invalid |
| `fencing` | With saves that fail and tokens out of order: what memory admitted is on disk, ids stay unique, no zombie is applied after its successor | 34,051 | 1 machine, 1 shard, 2 epochs x 2 sequence numbers, 3 operations |
| `contract` | Is the kit, with its crashes, the crash-free inventory of `MachineContract`, and does every accepted call end? | 22,627 | 1 machine, 2 tokens, 4 operations |
| `list_polling` | What a shard learns of the catalogue. Does a poller that carries its cursor forward have every record, over restarts, and learn of every failure? And is the price and the size in a record right: never free, never lost, sized, and the cloud's in the end? | 167,703 | 2 machines, 2 operations, no cap on results; for prices, each of 10 providers, 1 type, 3 menus of offerings, 1 change of quote, 1 restart |
| `list_paging` | Does the same hold with `max_results`? It does not | violated | 2 machines, one result a page |
| `file_store` | Is a snapshot ever torn or an acknowledged one lost, at any kill, power loss or failing system call; is `FileStore` a `DurableStore`? | 41,229 | 4 saves |
| `delivery` | Does each way of delivery end with its deadline? The vaults, under calls that supersede each other and agents late or repeating: is a call released by its own acknowledgement, and nothing served or waited for in vain? SSH and the guest agent: is one script at most on the machine, and a key on record the only one accepted? | 1,181,326 | 1 machine, 2 calls (not serial at the vaults), 2 host keys, 1 restart; each of 9 providers |
| `do_vault_restart` | Does an old acknowledgement release a newer command after a restart? It does | violated | 1 machine, 3 serial calls, 1 restart |
| `spot_risk` | Is a notice for a live VM kept until it is marked, and does a threatened VM's raised risk reach the records and stay there? | 331,208 | 1 slot, 2 VMs one after the other, 2 notices, 1 restart |
| `aws_raised` | Does the raised risk survive a restart of the provider? It does not | violated | as above |
| `azure_evicted` | Does Reconcile return an evicted slot to Speculative? It does not | violated | as above |
| `hosts` | At each of 13 backends: does every host on offer belong to the slot that offers it, is a free slot free, is one host the most a slot pays for, are binding marks true, is an idle host unbound, does the reaper spare the server that a create waits for, and is none in use installed anew? | 2,873,180 | 2 slots, 2 hosts, 3 operations a life, 1 restart with or without a state file |

Every property of a passing run has a mutant of the modelled code that TLC
finds (PROJECT.json, "mutants"): a dropped `recoverInterrupted`, a snapshot
without its counter, a mark left to the next save, an fsync left out, a deferred
cleanup that clears nothing, a tracker cleared before the termination, and so on.

### Why the bounds are enough

- Machines of the kit interact only through the counters `rev` and `nextOp`, the
  shared snapshot and one Reconcile. Two machines are the least that show an order
  among counters and a record untouched by another's step. Four operations are one
  whole life of a slot, or a create that failed after an earlier one worked.
- Marks are per shard and machine, so one shard shows fencing. Two epochs and two
  sequence numbers give every pair of the lexicographic order, and "newer epoch
  with a smaller number" among them.
- `MaxRev` bounds the revision at which a Reconcile may still start; without it a
  price that moves to and fro would never let the run end. `MaxOp`, `MaxSaves`,
  `MaxCalls`, `MaxRestarts` and `MaxNotices` bound their counters in the guards.
- Four saves allow one cut short, one that fails, one that succeeds on top, and a
  Save after a Load of any of them.
- Two deliveries are what superseding needs at a vault; over SSH the first records
  a key or leaves a script behind, the second is the one that meets them, a
  restart or a new key in between. Two keys are one on record and another. The serial run needs three: one
  before the restart, two after it, so that numbers repeat.
- Two VMs are a slot's host and its next host, which is where a late notice and a
  late Reconcile meet the wrong VM. Two notices are AWS's recommendation and its
  warning, in either order.
- Two hosts and two slots are what it takes for one slot to get two hosts and for
  one host to get to two slots. Three operations of a life are a create that fails, a
  second one, and a delete or a configure on top; after a restart the count, and the
  ids, start over. A failed record stays failed, so that longer lives of one slot add
  only repetitions of an idle one.
- One instance type shows every price hazard, since the caches are keyed by type and
  no lookup joins two: an answer that leaves "a type" out is one that leaves it out.
  The menus sell it on demand, on demand and as spot, or as bare metal. One change of
  quote is enough for "the last one"; the values it takes are another price, 0 and
  none. `list_polling` keeps the two halves apart (a behavior has a poller or a price
  provider), because nothing but one number passes between them.
- `Fencing` has `CONSTRAINT NothingLost`: after a failed save was lost in a crash
  the kit promises nothing of what was lost, and the properties say so
  themselves (`~lost =>`). The constraint only keeps TLC from looking there.
  `Symmetry` is used in this run and in `hosts`, which have no liveness property.
- Where a run switches deadlock checking off, the system may stop: all calls were
  made or all restarts used up, and no agent has anything to say; in `hosts`, all
  operations were made and the records are failed or at rest.

### Fairness

| where | assumed | why the code justifies it |
|---|---|---|
| kit | `WF(Boot)` | a supervisor restarts the process (the Deployment in each `providers/*/deploy/helm`) |
| kit | `WF(Ends(m))` | `runTransition` selects on the result and on a context with a timeout, so one of the two ends it |
| poller | `WF(List)` | external: a shard that polls at all |
| delivery | `WF(Wait(c))` | every context the kit hands to a backend has a deadline; `Enqueue`, the SSH session, `callCtx` and the Proxmox client select on it |
| spot | `WF(Scanning)`, `WF(Polling)` | `runReconciler` and the pollers are loops that only the process's end stops |
| spot | `WF(Sending)` | the agent's loop posts every few seconds while the event is listed |
| spot | `SF(Answer)`, `SF(Describes)` | one call to a cloud may fail and the next be made; what is assumed is that they do not all fail |
| prices | `WF(RefresherSteps)`, `WF(SpotRefresherSteps)`, `WF(Reconciling)` | main, each refresher and the reconciler are one goroutine each, on a ticker |
| prices | `WF(Staling)` | a client's copy of a list has a time to live |
| prices | `SF(Answered(t))`, `SF(SpotAnswered(t))` | a price list that is asked again at every tick answers at some time |

No fairness is assumed of the substrate (a request may never land), of agents that
apply and acknowledge, of shards that call, or of SQS beyond its delivery.

## 4. What is proved

`ProviderKitProofs`, for every set of machines, shards, clusters and tokens, and
every pattern of crashes, failing saves and late requests:

| theorem | inductive invariant |
|---|---|
| `TypeCorrect` | `TypeOK` itself |
| `OneDriverAlways` | `DriverInv` = `TypeOK`, `DownIsEmpty`, and `Driven(m)` for each machine |
| `DiskIsCurrent`, `FencesAreDurable`, `AcceptedAreInTokenOrder`, `OpIdsAreUnique` | `HistoryInv` |

`OneDriver` is nearly inductive. What it lacks is that a dead process has no
goroutine, and that the snapshot of a dead process's memory is the empty one
(`DownIsEmpty`): a start then finds no goroutine left over from an earlier life.
`Recover` fails every machine that was in between, so none is undriven.

`HistoryInv` adds four things to `DriverInv`. `DiskCurrent` says the disk is memory
unless the last save failed, so the state a restart continues from is the one
that was acted on. `OpInv` bounds every accepted id by the counter that mints the
next. `OrderInv` says the mark covers every token accepted so far: a token that
passes it is newer than all of them. `CounterInv` (`nextOp <= rev`) is the
unexpected one: a kit that finds revision 0 on disk takes the store for fresh
and seeds it, so there must be no id on a disk with that revision, or the counter
would start over.

The proofs assume what `ProviderKit` names: finite `Machines`, integer tokens, the
null values distinct from real ones.

### The kit's records (`KitRecordProofs`)

| theorem | states | inductive invariant |
|---|---|---|
| `BindingsSpan`, `RecordsAreInShape` | `BindingSpan`, `RecordsInShape` | `RecordInv`: every record in memory and on disk has the shape of its state |
| `StepsAreLegal` | `LegalSteps` | `HistoryInv`, for the goroutine behind each completion |
| `SubstrateMatches`, `NoCapacityIsPhantom` | `SubstrateMatchesRecord`, `NoPhantomCapacity` | `KitInv` = `HistoryInv`, `RecordInv`, `SubstrateInv` |
| `StepsOfTheContract` | until a refused save is lost in a crash, every step of the kit is one of `MachineContract` or a stutter | `KitInv` |
| `KeepsTheContract` | with `SaveMayFail = FALSE`, `Spec => Contract!ContractSpec` | the same |

`RecordInv` speaks of the disk's copy too, because a start makes it the record. It
needs nothing of the substrate: `validate` keeps a negative price out whatever
Describe says.

`SubstrateMatchesRecord` is about machines at rest and is far from inductive: what a
finished transition leaves depends on whether its one request had landed.
`SubstrateInv` says so of each moment. `AtRest(m)`: no request of `m` that counts is
on the wire, and the hosts are what the record says. `Underway(m, r)`: the hosts
and the node are what the request found or what it leaves, as it is still on the
wire or has landed. `Reported(m)`: a Describe that has begun has not seen a host of
an unknown machine that is no longer so, so that the Reconcile that adds the record
adds a true one. A `Configure` without a readiness gate is the one request that may
land after its machine is at rest, or gone; it moves a node that nothing is then
promised of, and the properties leave it out by name.

The contract has a theorem without a hypothesis (`StepsOfTheContract`) and one for a
store that takes every write. A crash that loses an acknowledged transition is no
step of a provider that never dies, so the second cannot do without
`SaveMayFail = FALSE`. `ContractSpec` is `ContractInit` and the steps; that accepted
calls end (`ImplementsContract`'s other half) is liveness and stays with run
`contract`.

### The poller (`ListPollingProofs`)

| theorem | states | inductive invariant |
|---|---|---|
| `CursorIsNotAhead` | `CursorNotAhead` | `CursorInv`, from `StampInv` |
| `NothingIsMissed` | `ASSUME NeverCut PROVE PollSpec => []NothingMissed` | `PollInv` = `CursorInv` and `CopyInv`, beside the kit's own |

The invariant follows the inventory through a crash: `Head`, `HeadRev` and `Stamp` are
memory's, or, while the process is down, what the next start makes of the disk,
where every record is stamped with the stored revision. Each step of the kit leaves a
record and stamps it no earlier, or stamps it beyond the head revision
(`StampMoves`); hence what a cursor has passed has not changed since (`CopyInv`).
`NeverCut` says that `MaxResults` is off or as large as the inventory. Without
it the statement is false, which run `list_paging` shows.

### The file store (`FileStoreProofs`)

| theorem | states |
|---|---|
| `NeverReadTorn`, `AckedAlwaysSurvives` | `NeverTorn`, `AckedSurvives` |
| `NoLitterLeft` | `NoLitter`: no return of `Save` leaves its temp file |
| `FileStoreIsAStore` | `ImplementsStore`: a step of the file store is a step of `DurableStore` or a stutter |

All from `StoreInv`. That data is whole once it is synced (`DataInv`) and that the
target's two names, in memory and on the disk, are only ever given to synced data,
in the order of the Saves (`EntryInv`), is what makes the fsync before the rename
necessary; `SaveInv` ties both to the place the running `Save` has reached.

### The deliveries (`DeliveryProofs`)

| theorem | states | inductive invariant |
|---|---|---|
| `OneScriptRuns`, `LaterConnectionsAreVerified` | `OneScriptAtATime`, `LaterConnectionsVerified` | `ScriptInv` |
| `OwnAckReleases`, `OnlyWantedIsServed`, `WaitersAreServed` | `OwnAckWhileIdsAreFresh`, `ServedWhileWanted`, `NoOrphanWaiter` | `VaultInv` |
| `FreshIdsDeliver` | `Spec /\ []Fresh` implements `CommandDelivery` | `VaultInv` |
| `VaultDelivers` | the same of Scaleway's vault, over any number of restarts | |

`ScriptInv` has one conjunct per call and one per pair of calls. A running script
belongs to a call that has not seen it exit, and a call begins only after every
earlier one has succeeded (`PairInv`), so the earlier script has exited. A call that
has not met a key goes by the fingerprint on record, or by none when none is
(`CallInv`); a key on record stays, so any two calls after it met the same.

`VaultInv` says that an id names its call at the vault, at the agents and between the
two critical sections of `handleAck` (`IdsNameCalls`), and that a positive result
on its way was reached by the agent (`ResultsAreReal`). Both are promised while
`Fresh`: of Scaleway always, of DigitalOcean until the first restart. That is the
widest hypothesis there is: after a restart run `do_vault_restart` finds the
counterexample. Scaleway's `newCommandID` is 128 random bits, modelled as a number
no other call has.

### The spot notices (`SpotProofs`)

`NoticesAreHeld` states `NoticeHeld` for any number of slots, VMs, notices and
restarts. `NoticeHeld` knows the notice's slot, not that the slot is still the VM's:
a clear on the slot's behalf could take the mark of its next VM. `SpotInv` adds
`LiveIsHeld` (a live VM is the one of its slot's record, or the slot has failed), so
that `Terminate` never clears a live VM's mark; `InHand`, which follows a notice through the
poller's stages; and `Kept`, which is `NoticeHeld` of every provider at every stage.

### The hosts (`HostProofs`)

| theorem | states |
|---|---|
| `HostsAlways` | `HostInv`, the inductive invariant |
| `HostsAreOwn`, `NoneOnItsWayOut` | `OwnHost`, `NotOnItsWayOut` |
| `FreeSlotsAreFree`, `OneHostEach` | `FreeSlotIsFree`, `OneHostPerSlot` |
| `MarksAreTrue`, `IdleHostsAreUnbound` | `MarkIsTrue`, `IdleIsUnbound` |
| `NoneIsWiped` | `NeverWiped` |
| `CreatesAreSpared` | `CreateSpared`, from `HostInv` and `ReapInv` |

For any number of slots, hosts, operations and restarts, at all thirteen backends.
`HostInv` says, beside the types, one thing of pairs of calls (`CallsDiffer`: no two
have one operation id), some of each host by itself (`Sound`) and six of each slot:

- `CallInv`: the stage of a call fits the operation of its record, a call past its
  search has a host, and the hosts of a configure, a drain and a delete are their
  records'. Only a libvirt call may outlive its record's operation.
- `OwnInv`: the hosts a record and a call name are marked with their slot.
- `AloneInv`: with a state file, a live host of the slot's is the one its record or
  its call names. A create that still searches has none: this is where a create that
  failed must have left the slot failed, not free.
- `WayInv`: no offered host is being deleted.
- `NodeInv`: a node in a cluster is on the host of a record that says so, and not
  of a drain that has got as far as the mark. It says nothing of Proxmox, nor of the
  slots in `lapsed`, whose drains may be answered undone; as `lapsed` never shrinks,
  what it says of the others is inductive.
- `StageInv`: a host about to be marked has joined; no host has the operation id of
  a create that still searches; what Elastic Metal is about to install is this
  create's machine, with nothing on it.

The argument has two layers. `Spares(s, e)` is what a step in the name of slot `s`
leaves to every other slot, however little is known of the step; `OthersKeep` shows
that it is enough, once and for all requests. What the acting slot itself needs is
proved for the kinds of requests the providers have in common: a create looks and
misses (`Seeks`), finds (`Finds`), launches (`Launches`), a call goes on (`Reaches`),
joins, leaves, is answered undone (`UndrainedAnswersKeeps`, `LapsesKeeps`), marks, ends,
fails or answers, and the two restarts. The lemma of each
provider (`HetznerKeeps` to `MetalKeeps`) then has one step per action, which says of
what kind it is: the stage it goes from and to, and what it asks of the cloud.

`CreateSpared` needs `ReapInv` beside it: a server asked for in this life has an
operation id of this life, so that no create still looking for its name finds it; the
create that waits for it is of its own slot; and it is not condemned. When the reaper
asks about the slot, that create is in flight, and what it condemns it has listed
before. Servers of an earlier life are left out with good reason: a create may find one by
its name after the reaper has asked. `SteadyKeeps` covers every step that begins no
create and asks for no server.

### The prices (`PriceProofs`)

| theorem | states |
|---|---|
| `PricesAreKept` | `PriceInv`, the inductive invariant |
| `PricesAreCharged` | `NeverFree`: no billed machine of a provider that checks its prices is published at 0 |
| `SizesAreKnown` | `CapacityKnown` |
| `LastKnownIsKept` | `LastKnownKept`: no step of a serving process brings a price back to the build's table once the cloud has told it |

A price is checked once, at the start, and looked up for ever. `GateHolds` is what the
check leaves: every billed offering has a price in a cache, a table or an override,
and no refresh takes one away (a refresh overlays, it does not replace).
`FairRecords` carries it into the kit's records, the ones of an earlier life and the
answer of a Describe that the kit has not taken yet. `NoZeros` is why it is enough
that there is a price: the caches of the providers that check refuse 0.

### Assumptions

The proofs assume what the modules name and TLC evaluates on the runs: finite
machine sets, integer tokens and prices, the null values distinct from real ones
(`ProviderKit`); counters that are numbers (`ListPolling`, `FileStore`,
`BootstrapChannel`); host keys distinct from the two values that mean none
(`BootstrapDelivery`); `NoNotice` not a notice (`SpotFleet`); finitely many hosts, and
`NoHost` and `NoSlot` none of them (`HostFleet`); menus of pairs of a type
and a capacity type (`PriceFleet`).

### What is only model-checked

- Liveness: `TransitionsEnd`, `FailuresAreSeen`, `CallsEnd`, `ThreatReported`,
  `PriceFollows`, and the half of `ImplementsContract` that needs fairness. TLAPS does
  not prove liveness under fairness.

## 5. Where the code and its documents disagree

1. `List` stamps an answer cut short by `max_results` with the head revision, so a
   caller that sends it back as `since_revision` is never sent the machines that
   were cut off. conformance.md (B907) says paging with the two skips no machine
   (run `list_paging`).
2. DigitalOcean's command ids start over with the process. An acknowledgement
   from before a restart, posted again because it was never answered, matches a
   command of the same number after it, and the call returns nil for a command
   the agent did not apply. The comment in `handleAck` says this never happens
   (run `do_vault_restart`).
3. AWS's warnings are in memory only and their messages are deleted. A restart
   before the reclaim publishes the forecast again; the document says the raised
   value is kept until the instance is gone (run `aws_raised`).
4. `Reconcile` refreshes facts and never the state of a machine it tracks. Azure's
   document says it returns an evicted VM's slot to Speculative (run
   `azure_evicted`).

Seven more were met while the hosts and the deliveries were modelled. They are left
out of the properties rather than kept as runs of their own:

5. ovhcloud/openstack.go:178-179 says a host being deleted is never adopted;
   `serverByMachineID` (line 694) does not look at the server's state, so a create
   after a delete may take the server that is going.
6. gcp/gcereal.go:673-674 says a name taken is this operation's own instance. Without
   a state file, operation ids and with them names come again (line 675), and the
   instance of another slot is adopted. The same holds of hetzner, azure, libvirt and
   scaleway.
7. scaleway/backend.go:102-104 says a machine with a create in flight is never reaped.
   The reaper lists (line 191), then asks (line 281), then deletes (line 298), one
   server after the other. A create that begins after the question may take by its name
   a server of an earlier life that is about to be deleted. `CreateSpared` therefore
   speaks of servers asked for in this life: of those, none that a create waits for is
   deleted. Which of two servers a finished create's record names is not asked at all:
   the lowest id stays (line 284).
8. scaleway/scwreal.go:654-656 says the tag follows the acknowledged bootstrap. The
   command goes to whichever server polls for the machine id (line 640), and the tag
   on the server of the record, which without a state file may be another.
9. providerkit/backend.go:19 asks backends to return promptly when the kit cancels
   the context. `runSSH` dials under the context, but the handshake and
   `NewSession` (hetzner/hcloudreal.go:455,472, and the same lines of the other
   four) wait for the peer. The kit settles the record in any case; the
   backend's goroutine stays. `CallsEnd` therefore begins, over SSH, where the
   script does.
10. A Latitude key met first is changed in the index's memory and then saved; when the
    save fails, or an older save of another machine's replaces the file after it
    (substratestate.go:148-179 renames outside the lock), the next connection of this
    process is checked, and the first one after a restart accepts any key again
    (hetzner/hostkey.go:87 and its copies say all later connections are verified).
    `LaterConnectionsVerified` is about keys that are where a restart finds them.
11. hetzner/hcloudreal.go:286-287 says of the drain script that "the DRAIN must NOT
    swallow its failure", and aws, gcp, upcloud and ovhcloud say the same. Proxmox's ends in
    `|| true` (proxmoxreal.go:330) and swallows it. `IdleIsUnbound` leaves Proxmox out.

## 6. What the models leave out

- Reads without a cursor (`Get`, the `states` filter), argument checks that only
  answer `InvalidArgument`, gRPC codes, logging, metrics.
- Two processes on one state file. The charts ask for one replica; nothing in
  the code excludes a second.
- A failed save that is then lost in a crash: the kit promises nothing of it, and
  the properties start from `~lost`. Memory-only operation (no `--state`) is the
  same as losing every save; what it does to hosts is in `hosts` (`durable`).
- A create that timed out leaves its machine Failed, with a host perhaps. That is
  the code's choice, and `SubstrateMatchesRecord` speaks of slots and hosts on
  offer only. No operation leaves Failed. A `Configure` that no readiness gate
  waited for may still be on the wire when its machine is deleted; the property
  leaves that request out, since it creates no host.
- A `Configure` repeated with another cluster returns the first call's id; the
  model has it (`RetryAck`) and no property forbids it.
- A `Configure` with an empty cluster id, which the code does not refuse
  (server.go:374-387): its record is bound to no cluster, and what `BindingSpan` says
  of a bound machine cannot be said of it.
- `mapsEqual`'s treatment of a key with an empty value against a missing key.
- In the deliveries: tokens, cloud-config rendering, key generation, HTTP status
  codes, what the scripts say and how they are quoted. Without a state file a kit
  that restarts may take a machine whose script still runs for idle and send it
  another; `OneScriptAtATime` is about a kit that has one.
- In the spot providers: the configure and drain path, which never touches the
  tracker, more than one Azure propagation at a time, batches (a batch of ten is
  ten notices one after the other), the difference between 0.5 and 0.99 beyond
  "the last one wins".

- In the hosts: addresses, how a command gets to the host (that is `BootstrapDelivery`;
  a bootstrap is one request here), user data, volumes and NICs (a server's storages go with it where the delete says so), metadata other
  than the three marks, rate limits. A pagination is one request. A record that failed
  stays failed, as in the kit.
- In a provider without a state file: that a free slot is free, that a slot has one
  host, and that an idle host is unbound. A restart forgets a failed record, and
  nothing marks its host. Proxmox clones a second VM for a slot whose VM's config it
  cannot read.
- Elastic Metal's `powerOn` ignores a terminal status and waits for the deadline; the
  model has the wait, not its length.
- In the prices: exchange rates, rounding, how a rate is composed of SKUs or parts
  (an OCI shape's is the sum of its OCPU and memory SKUs; a list with one of them
  missing sets that rate to 0, ociprices.go:164-171, which the model has as a lower
  quote, and one with both missing as none), zones (a price per pair is a price per type), staleness metrics. A type that AWS
  offers as spot only is not checked at the start, and with neither a spot price nor
  an on-demand one it costs 0; `NeverFree` says so. Scaleway and UpCloud take a price
  of 0 that the cloud lists, and Hetzner, Latitude and DigitalOcean offer a type with
  no price at all as 0; `NeverFree` is about the five that refuse both. libvirt and
  Proxmox have a static table and no refresh.

Components that are not modelled at all, with the reason for each, are in
PROJECT.json: the kit's protobuf conversion, the cloud clients, the conformance
suite, CI and the site.

## 7. Plan

1. Volumes (Scaleway, libvirt) and NICs (azure): what a create that fails between
   two of them leaves, and what finds it again.
2. `SubstrateIndex` (Latitude) as a component of its own, against `DurableStore`; so
   far its overtaking saves are one action of the deliveries (`LatitudeOlderSave`).
