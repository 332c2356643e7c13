----------------------------- MODULE ProviderKit -----------------------------
(***************************************************************************)
(* The provider kit (providerkit/server.go): the authoritative inventory   *)
(* of one provider process, its fencing marks and idempotency map, the     *)
(* durable snapshot it writes through on every mutation, the goroutine     *)
(* that drives each accepted transition against its timeout, the periodic  *)
(* Reconcile, and process death and restart.                               *)
(*                                                                         *)
(* Every RPC runs under Server.mu with the Save inside the critical        *)
(* section, so one dispatch is one step; what interleaves is the dispatches*)
(* of different callers, the transition goroutines, the two halves of      *)
(* Reconcile (Describe runs without the lock), the requests the actuators  *)
(* put on the wire, and crashes.                                           *)
(*                                                                         *)
(* The substrate behind the Backend interface is external: a request put   *)
(* on the wire may land at any later time or never, also after the kit     *)
(* timed out on it or died.                                                *)
(***************************************************************************)
EXTENDS Lifecycle, FiniteSets

CONSTANTS
    Machines,       \* machine ids
    Shards,         \* shard ids
    Clusters,       \* cluster ids a Configure may carry; the empty one, which the code
                    \* does not refuse, would be NoCluster and is left out
    Metas,          \* shard_metadata maps a Configure may carry
    Epochs, Seqs,   \* the components of the fencing tokens in use
    Prices,         \* price_per_hour values Describe may report; negative is invalid
    FreePool,       \* the ids whose host exists before the provider first starts
    CanDelete,      \* the backend implements Deleter
    HasReadiness,   \* the backend implements ReadinessChecker
    SaveMayFail,    \* Store.Save may return an error
    MaxOp,          \* bound on operation ids
    MaxRev,         \* bound on the revision at which a Reconcile may still start
    NoHost, PreHost, NoCluster, NoMeta, NoMark, ZeroToken

ASSUME MachinesAssumption == IsFiniteSet(Machines) /\ FreePool \subseteq Machines
ASSUME BoundsAssumption == MaxOp \in Nat /\ MaxRev \in Nat
ASSUME TokensAssumption == Epochs \subseteq Int /\ Seqs \subseteq Int /\ Prices \subseteq Int
ASSUME FlagsAssumption == /\ CanDelete \in BOOLEAN
                          /\ HasReadiness \in BOOLEAN
                          /\ SaveMayFail \in BOOLEAN
ASSUME NullsAssumption ==
    /\ NoHost \notin Nat /\ PreHost \notin Nat /\ NoHost # PreHost
    /\ NoCluster \notin Clusters /\ NoMeta \notin Metas
    /\ NoMark \notin [epoch : Epochs, seq : Seqs]
    /\ ZeroToken \notin [shard : Shards, epoch : Epochs, seq : Seqs]

VARIABLES
    up,         \* the process is running
    machines,   \* Server.machines
    fences,     \* Server.fences, keyed by shard and machine
    ops,        \* Server.ops: 0 when (machine, kind) has no operation id
    lastMod,    \* Server.lastMod
    rev,        \* Server.rev
    nextOp,     \* Server.nextOp
    running,    \* the transition goroutines
    described,  \* what the ongoing Reconcile, if any, read from Describe
    disk,       \* the snapshot the Store holds
    wire,       \* external: requests that have not taken effect yet
    hosts,      \* external: the hosts that exist for each machine id
    node,       \* external: the cluster the machine's node is Ready on
    accepted,   \* history: every dispatch that was accepted
    acked,      \* history: every operation id a TransitionAck carried
    highest,    \* history: the newest token admitted per shard and machine
    behind,     \* history: the last Save failed
    lost        \* history: the process died with its last Save failed

memory == <<machines, fences, ops, lastMod, rev, nextOp>>
store == <<disk, behind>>
substrate == <<wire, hosts, node>>
history == <<accepted, acked, highest, lost>>
vars == <<up, memory, running, described, store, substrate, history>>

-----------------------------------------------------------------------------
Tokens == [shard : Shards, epoch : Epochs, seq : Seqs]
Marks == [epoch : Epochs, seq : Seqs]
Hosts == Nat \union {PreHost}

NoMachine == [state |-> Absent, host |-> NoHost, cluster |-> NoCluster,
              metadata |-> NoMeta, lastError |-> FALSE, price |-> 0]

Machine == [state : States \union {Absent}, host : Hosts \union {NoHost},
            cluster : Clusters \union {NoCluster}, metadata : Metas \union {NoMeta},
            lastError : BOOLEAN, price : Int]

\* What a transition goroutine hands to the backend: the operation id and the
\* fields of the dispatch-time copy of the record that the substrate acts on.
Request == [op : Nat, id : Machines, kind : Kinds,
            host : Hosts \union {NoHost}, cluster : Clusters \union {NoCluster}]

Snapshots == [machines : [Machines -> Machine],
              fences : [Shards -> [Machines -> Marks \union {NoMark}]],
              ops : [Machines -> [Kinds -> Nat]], rev : Nat, nextOp : Nat]

EmptySnapshot == [machines |-> [m \in Machines |-> NoMachine],
                  fences |-> [s \in Shards |-> [m \in Machines |-> NoMark]],
                  ops |-> [m \in Machines |-> [k \in Kinds |-> 0]],
                  rev |-> 0, nextOp |-> 0]

\* Mutant: the operation counter is not part of the snapshot.
SnapshotNoCounter == [machines |-> machines, fences |-> fences, ops |-> ops, rev |-> rev,
                      nextOp |-> 0]

\* Mutant: the revision is not part of the snapshot.
SnapshotNoRevision == [machines |-> machines, fences |-> fences, ops |-> ops, rev |-> 0,
                       nextOp |-> nextOp]

\* snapshotLocked
Snapshot == [machines |-> machines, fences |-> fences, ops |-> ops, rev |-> rev,
             nextOp |-> nextOp]

\* persistLocked: a failed Save is only logged, memory stays ahead of the disk.
Persist == \/ disk' = Snapshot' /\ behind' = FALSE
           \/ SaveMayFail /\ UNCHANGED disk /\ behind' = TRUE

\* Mutant: an advanced mark is left to the next accepted call's save.
PersistLater(cond) == UNCHANGED store

PersistIf(cond) == IF cond THEN Persist ELSE UNCHANGED store

Known(m) == machines[m].state # Absent

-----------------------------------------------------------------------------
(* Touching a batch of records under one lock gives each its own revision,  *)
(* in the order the batch is walked.                                        *)
Ranks(S) == {f \in [S -> 1..Cardinality(S)] :
               \A a, b \in S : f[a] = f[b] => a = b}

TouchAll(S) ==
    /\ rev' = rev + Cardinality(S)
    /\ \E rank \in Ranks(S) :
          lastMod' = [m \in Machines |-> IF m \in S THEN rev + rank[m] ELSE lastMod[m]]

\* Mutant: the record keeps the revision from before the bump.
TouchStale(m) == /\ rev' = rev + 1
                 /\ lastMod' = [lastMod EXCEPT ![m] = rev]

Touch(m) == /\ rev' = rev + 1
            /\ lastMod' = [lastMod EXCEPT ![m] = rev + 1]

-----------------------------------------------------------------------------
(* Fencing: checkFenceLocked.                                               *)
MarkOf(f) == [epoch |-> f.epoch, seq |-> f.seq]

\* Mutant: any sequence number passes within the epoch.
PassesFenceByEpoch(m, f) ==
    f # ZeroToken /\ fences[f.shard][m] # NoMark => f.epoch >= fences[f.shard][m].epoch

PassesFence(m, f) ==
    f # ZeroToken /\ fences[f.shard][m] # NoMark => Newer(fences[f.shard][m], f)

\* A token that passes advances the mark, whatever becomes of the call.
AdvanceMark(m, f) ==
    /\ fences' = IF f = ZeroToken THEN fences
                 ELSE [fences EXCEPT ![f.shard][m] = MarkOf(f)]
    /\ highest' = IF f = ZeroToken THEN highest
                  ELSE IF highest[f.shard][m] = NoMark \/ Newer(highest[f.shard][m], f)
                       THEN [highest EXCEPT ![f.shard][m] = MarkOf(f)]
                       ELSE highest

\* The backend lacks Deleter: Delete answers Unimplemented before the fence.
Implemented(k) == k = "delete" => CanDelete

\* dispatch step 3: same (machine, kind), at or progressing to its target.
IsRetry(m, k) == /\ ops[m][k] # 0
                 /\ machines[m].state \in {Transitional[k], Stable[k]}

-----------------------------------------------------------------------------
(* The four mutating RPCs: the outcomes of dispatch after its fence. A      *)
(* fenced-out call changes nothing and is not a step.                       *)

\* Not found, or out of position. The mark has advanced all the same.
Refuse(k, m, f) ==
    /\ up
    /\ Implemented(k)
    /\ PassesFence(m, f)
    /\ \/ ~Known(m)
       \/ ~IsRetry(m, k) /\ ~CanStart(machines[m].state, k)
    /\ AdvanceMark(m, f)
    /\ UNCHANGED <<up, machines, ops, lastMod, rev, nextOp, running, described,
                   substrate, accepted, acked, lost>>
    /\ PersistIf(f # ZeroToken)

\* The idempotent retry: the recorded operation id, no second dispatch.
RetryAck(k, m, f) ==
    /\ up
    /\ Implemented(k)
    /\ PassesFence(m, f)
    /\ Known(m)
    /\ IsRetry(m, k)
    /\ AdvanceMark(m, f)
    /\ acked' = acked \union {[op |-> ops[m][k], id |-> m, kind |-> k]}
    /\ UNCHANGED <<up, machines, ops, lastMod, rev, nextOp, running, described,
                   substrate, accepted, lost>>
    /\ PersistIf(f # ZeroToken)

\* Mutant: the binding is left to the completion.
BeginUnbound(r, k, c, d) == [r EXCEPT !.state = Transitional[k]]

\* The record as the accept leaves it: Configure binds it at accept time.
Begin(r, k, c, d) ==
    IF k = "configure"
    THEN [r EXCEPT !.state = Transitional[k], !.cluster = c, !.metadata = d]
    ELSE [r EXCEPT !.state = Transitional[k]]

\* Mint and record the operation, enter the transitional state, save, and only
\* then start the goroutine whose backend call goes on the wire.
Accept(k, m, f, c, d) ==
    /\ up
    /\ nextOp < MaxOp
    /\ Implemented(k)
    /\ PassesFence(m, f)
    /\ Known(m)
    /\ ~IsRetry(m, k)
    /\ CanStart(machines[m].state, k)
    /\ AdvanceMark(m, f)
    /\ nextOp' = nextOp + 1
    /\ ops' = [ops EXCEPT ![m][k] = nextOp + 1]
    /\ machines' = [machines EXCEPT ![m] = Begin(@, k, c, d)]
    /\ Touch(m)
    /\ LET req == [op |-> nextOp + 1, id |-> m, kind |-> k,
                   host |-> machines'[m].host, cluster |-> machines'[m].cluster]
       IN  /\ running' = running \union {[req |-> req, phase |-> "calling"]}
           /\ wire' = wire \union {req}
    /\ accepted' = accepted \union {[op |-> nextOp + 1, id |-> m, kind |-> k, fence |-> f]}
    /\ acked' = acked \union {[op |-> nextOp + 1, id |-> m, kind |-> k]}
    /\ UNCHANGED <<up, described, hosts, node, lost>>
    /\ Persist

-----------------------------------------------------------------------------
(* The transition goroutine: runTransition around the RPC's backendOp.      *)

\* Mutant: Configured as soon as ConfigureInstance returns, gate or no gate.
ActuatorReturnsUngated(r) ==
    /\ r.phase = "calling"
    /\ r.req.kind = "configure" \/ r.req \notin wire
    /\ running' = (running \ {r}) \union {[r EXCEPT !.phase = "ok"]}
    /\ UNCHANGED <<up, memory, described, store, substrate, history>>

\* The actuator returns nil. A create, drain or delete has taken effect by
\* then; a configure has been handed over, its node may not have joined yet.
ActuatorReturns(r) ==
    /\ r.phase = "calling"
    /\ r.req.kind = "configure" \/ r.req \notin wire
    /\ LET next == IF r.req.kind = "configure" /\ HasReadiness THEN "confirming" ELSE "ok"
       IN  running' = (running \ {r}) \union {[r EXCEPT !.phase = next]}
    /\ UNCHANGED <<up, memory, described, store, substrate, history>>

\* ConfirmNodeReady returns nil: the node is Ready on the target cluster.
NodeConfirmed(r) ==
    /\ r.phase = "confirming"
    /\ node[r.req.id] = r.req.cluster
    /\ running' = (running \ {r}) \union {[r EXCEPT !.phase = "ok"]}
    /\ UNCHANGED <<up, memory, described, store, substrate, history>>

\* Either backend call returns an error, whether or not the request landed.
ActuatorErrs(r) ==
    /\ r.phase \in {"calling", "confirming"}
    /\ running' = (running \ {r}) \union {[r EXCEPT !.phase = "err"]}
    /\ UNCHANGED <<up, memory, described, store, substrate, history>>

\* Mutant: Drain clears the cluster and keeps the metadata.
SettleKeepsMetadata(rec, req) ==
    CASE req.kind = "create"    -> [rec EXCEPT !.state = "Idle", !.host = req.op]
      [] req.kind = "configure" -> [rec EXCEPT !.state = "Configured"]
      [] req.kind = "drain"     -> [rec EXCEPT !.state = "Idle", !.cluster = NoCluster]
      [] req.kind = "delete"    -> [rec EXCEPT !.state = "Speculative", !.host = NoHost]

\* The success post-effect of each RPC.
Settle(rec, req) ==
    CASE req.kind = "create"    -> [rec EXCEPT !.state = "Idle", !.host = req.op]
      [] req.kind = "configure" -> [rec EXCEPT !.state = "Configured"]
      [] req.kind = "drain"     -> [rec EXCEPT !.state = "Idle", !.cluster = NoCluster,
                                               !.metadata = NoMeta]
      [] req.kind = "delete"    -> [rec EXCEPT !.state = "Speculative", !.host = NoHost]

\* Mutant: a failed transition silently reverts.
FailReverts(rec) ==
    [rec EXCEPT !.state = IF rec.state = "Creating" THEN "Speculative" ELSE "Idle"]

Fail(rec) == [rec EXCEPT !.state = "Failed", !.lastError = TRUE]

\* The locked tail of runTransition. A record that has left the transitional
\* state makes the completion stale; the test does not look at the operation id.
Complete(r, failed) ==
    LET m == r.req.id
    IN  /\ running' = running \ {r}
        /\ IF machines[m].state = Transitional[r.req.kind]
           THEN /\ machines' = [machines EXCEPT
                                  ![m] = IF failed THEN Fail(@) ELSE Settle(@, r.req)]
                /\ Touch(m)
                /\ UNCHANGED <<up, fences, ops, nextOp, described, substrate, history>>
                /\ Persist
           ELSE UNCHANGED <<up, memory, described, store, substrate, history>>

\* The result is taken from the channel.
Finish(r) == r.phase \in {"ok", "err"} /\ Complete(r, r.phase = "err")

\* The per-transition timeout fires; a result already in the channel may lose.
Timeout(r) == Complete(r, TRUE)

-----------------------------------------------------------------------------
(* Describe, Reconcile.                                                     *)

\* external: one instance per reported id, Idle when a host of that id exists.
Seen(m) == IF hosts[m] = {} THEN NoHost ELSE CHOOSE h \in hosts[m] : TRUE

Instances(S, price) == [m \in S |-> [host |-> Seen(m), price |-> price[m]]]

\* Mutant: nothing is checked.
ValidUnchecked(in) == TRUE

\* Instance.validate, as far as a field of the model can break it.
Valid(in) == in.price >= 0

\* Instance.toMachine
ToMachine(in) == [NoMachine EXCEPT !.state = IF in.host = NoHost THEN "Speculative" ELSE "Idle",
                                   !.host = in.host, !.price = in.price]

\* Mutant: the whole record is taken from the substrate.
RefreshOverwrites(rec, in) == ToMachine(in)

\* refreshSubstrate: the kit-owned fields stay.
Refresh(rec, in) == [rec EXCEPT !.price = in.price]

\* Reconcile reads the substrate without holding the lock.
ReconcileDescribe ==
    /\ up
    /\ described = {}
    /\ rev < MaxRev
    /\ \E S \in SUBSET Machines : \E price \in [S -> Prices] :
          described' = {Instances(S, price)}
    /\ UNCHANGED <<up, memory, running, store, substrate, history>>

\* Under the lock: unknown ids are added, known ones have their substrate facts
\* refreshed and nothing else.
ReconcileApply(in) ==
    /\ up
    /\ LET valid == {m \in DOMAIN in : Valid(in[m])}
           added == {m \in valid : ~Known(m)}
           moved == {m \in valid : Known(m) /\ machines[m].price # in[m].price}
       IN  /\ machines' = [m \in Machines |->
                              IF m \in added THEN ToMachine(in[m])
                              ELSE IF m \in moved
                                   THEN Refresh(machines[m], in[m])
                                   ELSE machines[m]]
           /\ TouchAll(added \union moved)
           /\ UNCHANGED <<fences, ops, nextOp>>
           /\ PersistIf(added \union moved # {})
    /\ described' = described \ {in}
    /\ UNCHANGED <<up, running, substrate, history>>

-----------------------------------------------------------------------------
(* Process start and death.                                                 *)
IsFresh(snap) == /\ \A m \in Machines : snap.machines[m].state = Absent
                 /\ \A s \in Shards, m \in Machines : snap.fences[s][m] = NoMark
                 /\ \A m \in Machines, k \in Kinds : snap.ops[m][k] = 0
                 /\ snap.rev = 0

\* New on a fresh store: seedFromBackend. One invalid instance fails the start,
\* which is then retried.
BootFresh ==
    /\ ~up
    /\ IsFresh(disk)
    /\ \E S \in SUBSET Machines : \E price \in [S -> Prices] :
          LET in == Instances(S, price)
          IN  /\ \A m \in S : Valid(in[m])
              /\ machines' = [m \in Machines |->
                                IF m \in S THEN ToMachine(in[m]) ELSE NoMachine]
              /\ TouchAll(S)
    /\ up' = TRUE
    /\ UNCHANGED <<fences, ops, nextOp, running, described, substrate, history>>
    /\ Persist

\* Mutant: records are reloaded verbatim.
RecoverNothing(rec) == rec

\* recoverInterrupted: the goroutine of a transition does not survive.
Recover(rec) == IF rec.state \in TransitionalStates THEN Fail(rec) ELSE rec

\* New on a stored snapshot: loadSnapshot, then recoverInterrupted.
BootStored ==
    /\ ~up
    /\ ~IsFresh(disk)
    /\ up' = TRUE
    /\ machines' = [m \in Machines |-> Recover(disk.machines[m])]
    /\ fences' = disk.fences
    /\ ops' = disk.ops
    /\ nextOp' = disk.nextOp
    /\ LET cut == {m \in Machines : disk.machines[m].state \in TransitionalStates}
       IN  /\ rev' = disk.rev + Cardinality(cut)
           /\ \E rank \in Ranks(cut) :
                lastMod' = [m \in Machines |->
                              IF m \in cut THEN disk.rev + rank[m]
                              ELSE IF disk.machines[m].state = Absent THEN 0 ELSE disk.rev]
           /\ UNCHANGED <<running, described, substrate, history>>
           /\ PersistIf(cut # {})

\* The process dies: memory and goroutines are gone, the wire and disk are not.
Crash ==
    /\ up
    /\ up' = FALSE
    /\ machines' = EmptySnapshot.machines
    /\ fences' = EmptySnapshot.fences
    /\ ops' = EmptySnapshot.ops
    /\ lastMod' = [m \in Machines |-> 0]
    /\ rev' = 0
    /\ nextOp' = 0
    /\ running' = {}
    /\ described' = {}
    /\ lost' = (lost \/ behind)
    /\ behind' = FALSE
    /\ UNCHANGED <<disk, substrate, accepted, acked, highest>>

-----------------------------------------------------------------------------
(* external: a request takes effect on the substrate. A create carries the  *)
(* operation id as its idempotency token; a delete names the recorded host. *)
Land(q) ==
    /\ wire' = wire \ {q}
    /\ hosts' = CASE q.kind = "create" -> [hosts EXCEPT ![q.id] = @ \union {q.op}]
                  [] q.kind = "delete" -> [hosts EXCEPT ![q.id] = @ \ {q.host}]
                  [] OTHER             -> hosts
    /\ node' = CASE q.kind = "configure"          -> [node EXCEPT ![q.id] = q.cluster]
                 [] q.kind \in {"drain", "delete"} -> [node EXCEPT ![q.id] = NoCluster]
                 [] OTHER                         -> node
    /\ UNCHANGED <<up, memory, running, described, store, history>>

-----------------------------------------------------------------------------
Init ==
    /\ up = FALSE
    /\ machines = EmptySnapshot.machines
    /\ fences = EmptySnapshot.fences
    /\ ops = EmptySnapshot.ops
    /\ lastMod = [m \in Machines |-> 0]
    /\ rev = 0
    /\ nextOp = 0
    /\ running = {}
    /\ described = {}
    /\ disk = EmptySnapshot
    /\ wire = {}
    /\ hosts = [m \in Machines |-> IF m \in FreePool THEN {PreHost} ELSE {}]
    /\ node = [m \in Machines |-> NoCluster]
    /\ accepted = {}
    /\ acked = {}
    /\ highest = EmptySnapshot.fences
    /\ behind = FALSE
    /\ lost = FALSE

\* The cluster and metadata a request of this kind brings.
Bindings(k) == IF k = "configure" THEN Clusters \X (Metas \union {NoMeta})
               ELSE {<<NoCluster, NoMeta>>}

Dispatch(k, m, f) ==
    \/ Refuse(k, m, f)
    \/ RetryAck(k, m, f)
    \/ \E b \in Bindings(k) : Accept(k, m, f, b[1], b[2])

RunTransition(r) ==
    \/ ActuatorReturns(r)
    \/ NodeConfirmed(r)
    \/ ActuatorErrs(r)
    \/ Finish(r)
    \/ Timeout(r)

Next ==
    \/ \E k \in Kinds, m \in Machines, f \in Tokens \union {ZeroToken} : Dispatch(k, m, f)
    \/ \E r \in running : RunTransition(r)
    \/ ReconcileDescribe
    \/ \E in \in described : ReconcileApply(in)
    \/ BootFresh
    \/ BootStored
    \/ Crash
    \/ \E q \in wire : Land(q)

Spec == Init /\ [][Next]_vars

(* The supervisor restarts a dead process, and a goroutine's select ends:   *)
(* with a result or with the context's deadline.                            *)
Boot == BootFresh \/ BootStored
Ends(m) == \E r \in running : r.req.id = m /\ (Finish(r) \/ Timeout(r))

FairSpec == Spec /\ WF_vars(Boot) /\ \A m \in Machines : WF_vars(Ends(m))

-----------------------------------------------------------------------------
(* Properties.                                                              *)

\* What a reader of the provider sees, or will see once it is up again.
View == IF up THEN machines ELSE [m \in Machines |-> Recover(disk.machines[m])]

Bound == {"Configuring", "Configured", "Draining"}

\* Every variable has its type, and a dead process holds nothing.
TypeOK ==
    /\ up \in BOOLEAN
    /\ machines \in [Machines -> Machine]
    /\ fences \in [Shards -> [Machines -> Marks \union {NoMark}]]
    /\ ops \in [Machines -> [Kinds -> Nat]]
    /\ lastMod \in [Machines -> Nat]
    /\ rev \in Nat
    /\ nextOp \in Nat
    /\ running \subseteq [req : Request, phase : {"calling", "confirming", "ok", "err"}]
    /\ \A in \in described : \E S \in SUBSET Machines :
          in \in [S -> [host : Hosts \union {NoHost}, price : Prices]]
    /\ disk \in Snapshots
    /\ wire \subseteq Request
    /\ hosts \in [Machines -> SUBSET Hosts]
    /\ node \in [Machines -> Clusters \union {NoCluster}]
    /\ accepted \subseteq [op : Nat, id : Machines, kind : Kinds,
                           fence : Tokens \union {ZeroToken}]
    /\ acked \subseteq [op : Nat, id : Machines, kind : Kinds]
    /\ highest \in [Shards -> [Machines -> Marks \union {NoMark}]]
    /\ behind \in BOOLEAN
    /\ lost \in BOOLEAN

\* Every machine in a transitional state has exactly one goroutine, started by
\* the operation the idempotency map holds for it; no other machine has one. So
\* nothing is stuck, and a completion never settles another call's transition
\* although runTransition compares the state only.
OneDriver ==
    \A m \in Machines :
      LET mine == {r \in running : r.req.id = m}
      IN  IF machines[m].state \in TransitionalStates
          THEN \E r \in mine : /\ mine = {r}
                               /\ machines[m].state = Transitional[r.req.kind]
                               /\ ops[m][r.req.kind] = r.req.op
                               /\ machines[m].host = r.req.host
                               /\ machines[m].cluster = r.req.cluster
          ELSE mine = {}

\* No handler releases the lock with state the disk does not have, unless its
\* Save failed.
DiskCurrent == up /\ ~behind => disk = Snapshot

\* The marks a restarted provider starts from are the newest it ever admitted,
\* those of calls that were refused or short-circuited included.
FencesDurable == ~lost => highest = IF up THEN fences ELSE disk.fences

\* Across restarts, the operations a shard got accepted on a machine carry
\* strictly increasing tokens: no zombie is ever applied after its successor.
AcceptedInTokenOrder ==
    ~lost =>
      \A a, b \in {x \in accepted : x.fence # ZeroToken} :
        a.id = b.id /\ a.fence.shard = b.fence.shard /\ a.op < b.op
          => Newer(MarkOf(a.fence), b.fence)

\* No operation id names two operations, and every id the kit ever acknowledged
\* names the operation it accepted for that machine and kind, also after a
\* restart: the substrate may use it as an idempotency token.
OpIdsUnique ==
    ~lost =>
      /\ \A a, b \in accepted : a.op = b.op => a = b
      /\ \A x \in acked : \E a \in accepted : x = [op |-> a.op, id |-> a.id, kind |-> a.kind]

\* A slot offered as free has no host behind it and no request still to land: a
\* timed-out, failed or interrupted create never turns into a second host. (Only
\* a Configure whose node no gate waited for may outlive its host.) A machine
\* offered as a host holds exactly the host its record names.
SubstrateMatchesRecord ==
    ~lost =>
      \A m \in Machines :
        /\ View[m].state = "Speculative" =>
             /\ hosts[m] = {}
             /\ \A q \in wire : q.id = m => q.kind = "configure" /\ ~HasReadiness
        /\ View[m].state \in Bound \union {"Idle"} => hosts[m] = {View[m].host}

\* ADR-0056: with a readiness gate, Configured means the node is Ready on the
\* cluster the shard asked for, and a machine offered as free serves no cluster.
NoPhantomCapacity ==
    HasReadiness /\ ~lost =>
      \A m \in Machines :
        /\ View[m].state = "Configured" => node[m] = View[m].cluster
        /\ View[m].state \in {"Idle", "Speculative"} => node[m] = NoCluster

\* The cluster is set for the whole Configuring to Draining span, and cluster and
\* metadata are gone together outside it (a Failed machine keeps what it had).
BindingSpan ==
    \A m \in Machines :
      /\ View[m].state \in Bound => View[m].cluster # NoCluster
      /\ View[m].state \notin Bound \union {"Failed"} =>
           View[m].cluster = NoCluster /\ View[m].metadata = NoMeta

\* Whatever the substrate reported, every listed record is within the field-shape
\* contract: a priced machine, with a host unless it is a slot, still being
\* created, or failed.
RecordsInShape ==
    \A m \in Machines :
      View[m].state # Absent =>
        /\ View[m].price >= 0
        /\ View[m].host = NoHost => View[m].state \in {"Speculative", "Creating", "Failed"}
        /\ View[m].host # NoHost => View[m].state \notin {"Speculative", "Creating"}

LegalStep == \A m \in Machines : \/ View'[m].state = View[m].state
                                  \/ <<View[m].state, View'[m].state>> \in LegalEdges

\* A reader only ever sees a machine move along the four operations' edges, a
\* restart included.
LegalSteps == [][~lost' => LegalStep]_vars

\* No transition is left in its transitional state for ever.
TransitionsEnd ==
    \A m \in Machines : machines[m].state \in TransitionalStates
                          ~> View[m].state \notin TransitionalStates
=============================================================================
