-------------------------- MODULE ProviderKitProofs --------------------------
(***************************************************************************)
(* Theorems about ProviderKit, for every set of machines, shards, tokens   *)
(* and clusters, every substrate and every pattern of crashes, failing     *)
(* saves and restarts.                                                     *)
(***************************************************************************)
EXTENDS ProviderKit, FiniteSetTheorems, TLAPS

\* A batch of touched records gets revisions that are natural numbers.
LEMMA RanksAreNat ==
    ASSUME NEW S \in SUBSET Machines
    PROVE  /\ Cardinality(S) \in Nat
           /\ \A rank \in Ranks(S) : \A m \in S : rank[m] \in Nat
<1>1. IsFiniteSet(S)
  BY MachinesAssumption, FS_Subset
<1>2. Cardinality(S) \in Nat
  BY <1>1, FS_CardinalityType
<1> QED
  BY <1>2 DEF Ranks

\* TouchAll keeps the revisions well-typed.
LEMMA TouchAllType ==
    ASSUME NEW S \in SUBSET Machines, rev \in Nat, lastMod \in [Machines -> Nat], TouchAll(S)
    PROVE  rev' \in Nat /\ lastMod' \in [Machines -> Nat]
<1>1. PICK rank \in Ranks(S) :
        lastMod' = [m \in Machines |-> IF m \in S THEN rev + rank[m] ELSE lastMod[m]]
  BY DEF TouchAll
<1>2. \A m \in S : rank[m] \in Nat
  BY RanksAreNat
<1> QED
  BY <1>1, <1>2, RanksAreNat DEF TouchAll

\* What Describe shows of a machine is a host or none.
LEMMA SeenType ==
    ASSUME NEW m \in Machines, hosts \in [Machines -> SUBSET Hosts]
    PROVE  Seen(m) \in Hosts \union {NoHost}
BY DEF Seen

\* A token that passes leaves both the marks and their history well-typed.
LEMMA AdvanceMarkType ==
    ASSUME TypeOK, NEW m \in Machines, NEW f \in Tokens \union {ZeroToken}, AdvanceMark(m, f)
    PROVE  /\ fences' \in [Shards -> [Machines -> Marks \union {NoMark}]]
           /\ highest' \in [Shards -> [Machines -> Marks \union {NoMark}]]
<1>1. f # ZeroToken => f.shard \in Shards /\ MarkOf(f) \in Marks
  BY DEF Tokens, Marks, MarkOf
<1> QED
  BY <1>1 DEF AdvanceMark, TypeOK

\* Whatever Save does, the disk holds a snapshot.
LEMMA PersistType ==
    ASSUME disk \in Snapshots, behind \in BOOLEAN, Persist \/ UNCHANGED store,
           machines' \in [Machines -> Machine],
           fences' \in [Shards -> [Machines -> Marks \union {NoMark}]],
           ops' \in [Machines -> [Kinds -> Nat]], rev' \in Nat, nextOp' \in Nat
    PROVE  disk' \in Snapshots /\ behind' \in BOOLEAN
<1>1. disk' \in Snapshots
  BY DEF Persist, Snapshot, Snapshots, store
<1>2. behind' \in BOOLEAN
  BY DEF Persist, store
<1> QED
  BY <1>1, <1>2

LEMMA EmptyType == EmptySnapshot \in Snapshots
BY DEF EmptySnapshot, Snapshots, NoMachine, Machine

LEMMA TypeInit == Init => TypeOK
<1> SUFFICES ASSUME Init PROVE TypeOK
  OBVIOUS
<1>1. /\ machines \in [Machines -> Machine]
      /\ fences \in [Shards -> [Machines -> Marks \union {NoMark}]]
      /\ ops \in [Machines -> [Kinds -> Nat]]
      /\ disk \in Snapshots
      /\ highest \in [Shards -> [Machines -> Marks \union {NoMark}]]
  BY EmptyType DEF Init, Snapshots
<1>2. hosts \in [Machines -> SUBSET Hosts]
  BY DEF Init, Hosts
<1> QED
  BY <1>1, <1>2 DEF Init, TypeOK

LEMMA TypeRefuse ==
    ASSUME TypeOK, NEW k \in Kinds, NEW m \in Machines, NEW f \in Tokens \union {ZeroToken},
           Refuse(k, m, f)
    PROVE  TypeOK'
<1>1. AdvanceMark(m, f)
  BY DEF Refuse
<1>2. disk' \in Snapshots /\ behind' \in BOOLEAN
  BY <1>1, AdvanceMarkType, PersistType DEF Refuse, PersistIf, TypeOK, store
<1> QED
  BY <1>1, <1>2, AdvanceMarkType DEF Refuse, substrate, TypeOK, store

LEMMA TypeRetryAck ==
    ASSUME TypeOK, NEW k \in Kinds, NEW m \in Machines, NEW f \in Tokens \union {ZeroToken},
           RetryAck(k, m, f)
    PROVE  TypeOK'
<1>1. AdvanceMark(m, f)
  BY DEF RetryAck
<1>2. disk' \in Snapshots /\ behind' \in BOOLEAN
  BY <1>1, AdvanceMarkType, PersistType DEF RetryAck, PersistIf, TypeOK, store
<1>3. acked' \subseteq [op : Nat, id : Machines, kind : Kinds]
  BY DEF RetryAck, TypeOK
<1> QED
  BY <1>1, <1>2, <1>3, AdvanceMarkType DEF RetryAck, substrate, TypeOK, store

\* The record an accepted operation leaves is a machine in its transitional state.
LEMMA BeginType ==
    ASSUME NEW r \in Machine, NEW k \in Kinds, NEW b \in Bindings(k)
    PROVE  /\ Begin(r, k, b[1], b[2]) \in Machine
           /\ Begin(r, k, b[1], b[2]).state = Transitional[k]
           /\ Transitional[k] \in TransitionalStates
BY DEF Bindings, Begin, Machine, Transitional, TransitionalStates, States, Kinds

LEMMA TypeAccept ==
    ASSUME TypeOK, NEW k \in Kinds, NEW m \in Machines, NEW f \in Tokens \union {ZeroToken},
           NEW b \in Bindings(k), Accept(k, m, f, b[1], b[2])
    PROVE  TypeOK'
<1>1. AdvanceMark(m, f)
  BY DEF Accept
<1>2. machines' \in [Machines -> Machine]
  <2>1. Begin(machines[m], k, b[1], b[2]) \in Machine
    BY BeginType DEF TypeOK
  <2> QED
    BY <2>1 DEF Accept, TypeOK
<1>3. /\ ops' \in [Machines -> [Kinds -> Nat]]
      /\ nextOp' \in Nat
      /\ rev' \in Nat
      /\ lastMod' \in [Machines -> Nat]
  BY DEF Accept, Touch, TypeOK
<1>4. disk' \in Snapshots /\ behind' \in BOOLEAN
  BY <1>1, <1>2, <1>3, AdvanceMarkType, PersistType DEF Accept, TypeOK
<1> DEFINE req == [op |-> nextOp + 1, id |-> m, kind |-> k,
                   host |-> machines'[m].host, cluster |-> machines'[m].cluster]
<1>5. req \in Request
  BY <1>2 DEF Request, Machine, TypeOK
<1>6. /\ running' = running \union {[req |-> req, phase |-> "calling"]}
      /\ wire' = wire \union {req}
  BY DEF Accept
<1>7. /\ accepted' = accepted \union {[op |-> nextOp + 1, id |-> m, kind |-> k, fence |-> f]}
      /\ acked' = acked \union {[op |-> nextOp + 1, id |-> m, kind |-> k]}
      /\ UNCHANGED <<up, described, hosts, node, lost>>
  BY DEF Accept
<1>8. /\ running' \subseteq [req : Request, phase : {"calling", "confirming", "ok", "err"}]
      /\ wire' \subseteq Request
  <2> HIDE DEF req
  <2> QED
    BY <1>5, <1>6 DEF TypeOK
<1>9. /\ accepted' \subseteq [op : Nat, id : Machines, kind : Kinds,
                              fence : Tokens \union {ZeroToken}]
      /\ acked' \subseteq [op : Nat, id : Machines, kind : Kinds]
  BY <1>7 DEF TypeOK
<1> QED
  BY <1>1, <1>2, <1>3, <1>4, <1>7, <1>8, <1>9, AdvanceMarkType DEF TypeOK

\* A goroutine's backend call returning touches that goroutine only.
LEMMA TypeBackend ==
    ASSUME TypeOK, NEW r \in running,
           ActuatorReturns(r) \/ NodeConfirmed(r) \/ ActuatorErrs(r)
    PROVE  TypeOK'
<1>1. running' \subseteq [req : Request, phase : {"calling", "confirming", "ok", "err"}]
  <2>1. \A p \in {"calling", "confirming", "ok", "err"} :
          [r EXCEPT !.phase = p] \in [req : Request, phase : {"calling", "confirming", "ok", "err"}]
    BY DEF TypeOK
  <2>2. \E p \in {"calling", "confirming", "ok", "err"} :
          running' = (running \ {r}) \union {[r EXCEPT !.phase = p]}
    BY DEF ActuatorReturns, NodeConfirmed, ActuatorErrs
  <2> QED
    BY <2>1, <2>2 DEF TypeOK
<1> QED
  BY <1>1 DEF ActuatorReturns, NodeConfirmed, ActuatorErrs, memory, substrate, history, store,
                  TypeOK

\* The record a completion leaves.
LEMMA SettleType ==
    ASSUME NEW rec \in Machine, NEW req \in Request
    PROVE  /\ Settle(rec, req) \in Machine
           /\ Settle(rec, req).state = Stable[req.kind]
           /\ Settle(rec, req).state \in StableStates
<1>1. req.op \in Hosts /\ req.kind \in Kinds
  BY DEF Request, Hosts
<1> USE DEF Machine, States, StableStates
<1>2. CASE req.kind = "create"
  BY <1>1, <1>2 DEF Settle, Stable, Kinds
<1>3. CASE req.kind = "configure"
  BY <1>1, <1>3 DEF Settle, Stable, Kinds
<1>4. CASE req.kind = "drain"
  BY <1>1, <1>4 DEF Settle, Stable, Kinds
<1>5. CASE req.kind = "delete"
  BY <1>1, <1>5 DEF Settle, Stable, Kinds
<1> QED
  BY <1>1, <1>2, <1>3, <1>4, <1>5 DEF Kinds

LEMMA FailType ==
    ASSUME NEW rec \in Machine
    PROVE  Fail(rec) \in Machine /\ Fail(rec).state = "Failed"
BY DEF Fail, Machine, States

LEMMA RecoverType ==
    ASSUME NEW rec \in Machine
    PROVE  Recover(rec) \in Machine /\ Recover(rec).state \notin TransitionalStates
BY FailType DEF Recover, TransitionalStates

LEMMA TypeComplete ==
    ASSUME TypeOK, NEW r \in running, NEW failed \in BOOLEAN, Complete(r, failed)
    PROVE  TypeOK'
<1> DEFINE m == r.req.id
<1>1. m \in Machines /\ r.req \in Request
  BY DEF TypeOK, Request
<1>2. running' = running \ {r}
  BY DEF Complete
<1>3. CASE machines[m].state = Transitional[r.req.kind]
  <2>1. machines' = [machines EXCEPT
                       ![m] = IF failed THEN Fail(machines[m]) ELSE Settle(machines[m], r.req)]
    BY <1>3 DEF Complete
  <2>2. machines' \in [Machines -> Machine]
    <3>1. Fail(machines[m]) \in Machine /\ Settle(machines[m], r.req) \in Machine
      BY <1>1, FailType, SettleType DEF TypeOK
    <3> QED
      BY <1>1, <2>1, <3>1 DEF TypeOK
  <2>3. rev' \in Nat /\ lastMod' \in [Machines -> Nat]
    BY <1>1, <1>3 DEF Complete, Touch, TypeOK
  <2>4. disk' \in Snapshots /\ behind' \in BOOLEAN
    BY <1>3, <2>2, <2>3, PersistType DEF Complete, TypeOK
  <2> QED
    BY <1>2, <1>3, <2>2, <2>3, <2>4 DEF Complete, substrate, history, TypeOK, store
<1>4. CASE machines[m].state # Transitional[r.req.kind]
  BY <1>2, <1>4 DEF Complete, memory, substrate, history, store,
                  TypeOK
<1> QED
  BY <1>3, <1>4

\* The records and readings Describe gives.
LEMMA InstancesType ==
    ASSUME hosts \in [Machines -> SUBSET Hosts], NEW S \in SUBSET Machines,
           NEW price \in [S -> Prices]
    PROVE  Instances(S, price) \in [S -> [host : Hosts \union {NoHost}, price : Prices]]
<1>1. \A m \in S : Seen(m) \in Hosts \union {NoHost}
  BY SeenType
<1> QED
  BY <1>1 DEF Instances

LEMMA ToMachineType ==
    ASSUME NEW in \in [host : Hosts \union {NoHost}, price : Prices]
    PROVE  /\ ToMachine(in) \in Machine
           /\ ToMachine(in).state \in {"Speculative", "Idle"}
BY TokensAssumption DEF ToMachine, NoMachine, Machine, States, StableStates

LEMMA TypeReconcileDescribe ==
    ASSUME TypeOK, ReconcileDescribe
    PROVE  TypeOK'
<1>1. \A in \in described' : \E S \in SUBSET Machines :
        in \in [S -> [host : Hosts \union {NoHost}, price : Prices]]
  <2>0. PICK S \in SUBSET Machines : \E price \in [S -> Prices] : described' = {Instances(S, price)}
    BY DEF ReconcileDescribe
  <2>1. PICK price \in [S -> Prices] : described' = {Instances(S, price)}
    BY <2>0
  <2>2. hosts \in [Machines -> SUBSET Hosts]
    BY DEF TypeOK
  <2>3. Instances(S, price) \in [S -> [host : Hosts \union {NoHost}, price : Prices]]
    BY <2>2, InstancesType
  <2> QED
    BY <2>1, <2>3
<1> QED
  BY <1>1 DEF ReconcileDescribe, memory, substrate, history, store,
                  TypeOK

LEMMA TypeReconcileApply ==
    ASSUME TypeOK, NEW in \in described, ReconcileApply(in)
    PROVE  TypeOK'
<1> DEFINE valid == {m \in DOMAIN in : Valid(in[m])}
           added == {m \in valid : ~Known(m)}
           moved == {m \in valid : Known(m) /\ machines[m].price # in[m].price}
<1>1. PICK S \in SUBSET Machines :
        in \in [S -> [host : Hosts \union {NoHost}, price : Prices]]
  BY DEF TypeOK
<1>2. added \subseteq S /\ moved \subseteq S
  BY <1>1
<1>3. /\ machines' = [m \in Machines |->
                        IF m \in added THEN ToMachine(in[m])
                        ELSE IF m \in moved THEN Refresh(machines[m], in[m])
                        ELSE machines[m]]
      /\ TouchAll(added \union moved)
      /\ UNCHANGED <<fences, ops, nextOp>>
      /\ PersistIf(added \union moved # {})
  BY DEF ReconcileApply
<1>4. /\ described' \subseteq described
      /\ UNCHANGED <<up, running, substrate, history>>
  BY DEF ReconcileApply
<1> HIDE DEF added, moved
<1>5. machines' \in [Machines -> Machine]
  <2>1. \A m \in added : ToMachine(in[m]) \in Machine
    BY <1>1, <1>2, ToMachineType
  <2>2. \A m \in moved : Refresh(machines[m], in[m]) \in Machine
    <3> SUFFICES ASSUME NEW m \in moved PROVE Refresh(machines[m], in[m]) \in Machine
      OBVIOUS
    <3>1. machines[m] \in Machine /\ in[m].price \in Int
      BY <1>1, <1>2, TokensAssumption DEF TypeOK
    <3> QED
      BY <3>1 DEF Refresh, Machine
  <2> QED
    BY <1>3, <2>1, <2>2 DEF TypeOK
<1>6. rev' \in Nat /\ lastMod' \in [Machines -> Nat]
  BY <1>2, <1>3, TouchAllType DEF TypeOK
<1>7. disk' \in Snapshots /\ behind' \in BOOLEAN
  BY <1>3, <1>5, <1>6, PersistType DEF PersistIf, TypeOK, store
<1> QED
  BY <1>3, <1>4, <1>5, <1>6, <1>7 DEF substrate, history, TypeOK, store

LEMMA TypeBootFresh ==
    ASSUME TypeOK, BootFresh
    PROVE  TypeOK'
<1>0. PICK S \in SUBSET Machines : \E price \in [S -> Prices] :
        /\ machines' = [m \in Machines |->
                           IF m \in S THEN ToMachine(Instances(S, price)[m]) ELSE NoMachine]
        /\ TouchAll(S)
  BY DEF BootFresh
<1>1. PICK price \in [S -> Prices] :
        /\ machines' = [m \in Machines |->
                           IF m \in S THEN ToMachine(Instances(S, price)[m]) ELSE NoMachine]
        /\ TouchAll(S)
  BY <1>0
<1>2. /\ up' = TRUE
      /\ UNCHANGED <<fences, ops, nextOp, running, described, substrate, history>>
      /\ Persist
  BY DEF BootFresh
<1>3. machines' \in [Machines -> Machine]
  <2>1. hosts \in [Machines -> SUBSET Hosts]
    BY DEF TypeOK
  <2>2. Instances(S, price) \in [S -> [host : Hosts \union {NoHost}, price : Prices]]
    BY <2>1, InstancesType
  <2>3. \A m \in S : ToMachine(Instances(S, price)[m]) \in Machine
    BY <2>2, ToMachineType
  <2>4. NoMachine \in Machine
    BY DEF NoMachine, Machine
  <2> QED
    BY <1>1, <2>3, <2>4
<1>4. rev' \in Nat /\ lastMod' \in [Machines -> Nat]
  BY <1>1, TouchAllType DEF TypeOK
<1>5. disk' \in Snapshots /\ behind' \in BOOLEAN
  BY <1>2, <1>3, <1>4, PersistType DEF TypeOK
<1> QED
  BY <1>2, <1>3, <1>4, <1>5 DEF substrate, history, TypeOK, store

LEMMA TypeBootStored ==
    ASSUME TypeOK, BootStored
    PROVE  TypeOK'
<1> DEFINE cut == {m \in Machines : disk.machines[m].state \in TransitionalStates}
<1>1. PICK rank \in Ranks(cut) :
        lastMod' = [m \in Machines |->
                      IF m \in cut THEN disk.rev + rank[m]
                      ELSE IF disk.machines[m].state = Absent THEN 0 ELSE disk.rev]
  BY DEF BootStored
<1>2. /\ up' = TRUE
      /\ machines' = [m \in Machines |-> Recover(disk.machines[m])]
      /\ fences' = disk.fences
      /\ ops' = disk.ops
      /\ nextOp' = disk.nextOp
      /\ rev' = disk.rev + Cardinality(cut)
      /\ UNCHANGED <<running, described, substrate, history>>
      /\ PersistIf(cut # {})
  BY DEF BootStored
<1>3. /\ disk.machines \in [Machines -> Machine]
      /\ fences' \in [Shards -> [Machines -> Marks \union {NoMark}]]
      /\ ops' \in [Machines -> [Kinds -> Nat]]
      /\ nextOp' \in Nat
      /\ disk.rev \in Nat
  BY <1>2 DEF TypeOK, Snapshots
<1>4. machines' \in [Machines -> Machine]
  BY <1>2, <1>3, RecoverType
<1> HIDE DEF cut
<1>5. cut \in SUBSET Machines
  BY DEF cut
<1>6. rev' \in Nat /\ lastMod' \in [Machines -> Nat]
  BY <1>1, <1>2, <1>3, <1>5, RanksAreNat
<1>7. disk' \in Snapshots /\ behind' \in BOOLEAN
  BY <1>2, <1>3, <1>4, <1>6, PersistType DEF PersistIf, TypeOK, store
<1> QED
  BY <1>2, <1>3, <1>4, <1>6, <1>7 DEF substrate, history, TypeOK, store

LEMMA TypeCrash ==
    ASSUME TypeOK, Crash
    PROVE  TypeOK'
<1>1. /\ machines' \in [Machines -> Machine]
      /\ fences' \in [Shards -> [Machines -> Marks \union {NoMark}]]
      /\ ops' \in [Machines -> [Kinds -> Nat]]
  BY EmptyType DEF Crash, Snapshots
<1> QED
  BY <1>1 DEF Crash, substrate, TypeOK, store

LEMMA TypeLand ==
    ASSUME TypeOK, NEW q \in wire, Land(q)
    PROVE  TypeOK'
<1>1. /\ q.id \in Machines
      /\ q.op \in Hosts
      /\ q.cluster \in Clusters \union {NoCluster}
  BY DEF TypeOK, Request, Hosts
<1>2. hosts' \in [Machines -> SUBSET Hosts]
  BY <1>1 DEF Land, TypeOK
<1>3. node' \in [Machines -> Clusters \union {NoCluster}]
  BY <1>1 DEF Land, TypeOK
<1> QED
  BY <1>2, <1>3 DEF Land, memory, history, TypeOK, store

LEMMA TypeStutter ==
    ASSUME TypeOK, UNCHANGED vars
    PROVE  TypeOK'
BY DEF TypeOK, vars, memory, substrate, history, store

LEMMA TypeNext == TypeOK /\ [Next]_vars => TypeOK'
<1> SUFFICES ASSUME TypeOK, [Next]_vars PROVE TypeOK'
  OBVIOUS
<1>1. CASE \E k \in Kinds, m \in Machines, f \in Tokens \union {ZeroToken} : Dispatch(k, m, f)
  BY <1>1, TypeRefuse, TypeRetryAck, TypeAccept DEF Dispatch
<1>2. CASE \E r \in running : RunTransition(r)
  <2>1. PICK r \in running : RunTransition(r)
    BY <1>2
  <2>2. CASE ActuatorReturns(r) \/ NodeConfirmed(r) \/ ActuatorErrs(r)
    BY <2>2, TypeBackend
  <2>3. CASE Finish(r) \/ Timeout(r)
    BY <2>3, TypeComplete DEF Finish, Timeout
  <2> QED
    BY <2>1, <2>2, <2>3 DEF RunTransition
<1>3. CASE ReconcileDescribe
  BY <1>3, TypeReconcileDescribe
<1>4. CASE \E in \in described : ReconcileApply(in)
  BY <1>4, TypeReconcileApply
<1>5. CASE BootFresh
  BY <1>5, TypeBootFresh
<1>6. CASE BootStored
  BY <1>6, TypeBootStored
<1>7. CASE Crash
  BY <1>7, TypeCrash
<1>8. CASE \E q \in wire : Land(q)
  BY <1>8, TypeLand
<1>9. CASE UNCHANGED vars
  BY <1>9, TypeStutter
<1> QED
  BY <1>1, <1>2, <1>3, <1>4, <1>5, <1>6, <1>7, <1>8, <1>9 DEF Next

\* Every reachable state of the kit, its disk and its substrate is well-typed.
THEOREM TypeCorrect == Spec => []TypeOK
<1> QED
  BY TypeInit, TypeNext, PTL DEF Spec

-----------------------------------------------------------------------------
(* One goroutine per transition.                                            *)

\* A dead process holds nothing and runs nothing.
DownIsEmpty ==
    ~up => /\ Snapshot = EmptySnapshot
           /\ running = {} /\ described = {}

\* The goroutines of machine m, and the clause of OneDriver about it.
Mine(m) == {r \in running : r.req.id = m}
Driven(m) ==
    IF machines[m].state \in TransitionalStates
    THEN \E r \in Mine(m) : /\ Mine(m) = {r}
                            /\ machines[m].state = Transitional[r.req.kind]
                            /\ ops[m][r.req.kind] = r.req.op
                            /\ machines[m].host = r.req.host
                            /\ machines[m].cluster = r.req.cluster
    ELSE Mine(m) = {}

LEMMA OneDriverIsDriven == OneDriver <=> \A m \in Machines : Driven(m)
BY DEF OneDriver, Driven, Mine

DriverInv == TypeOK /\ DownIsEmpty /\ \A m \in Machines : Driven(m)

\* A step that leaves the goroutines, the operation ids and m's kit-owned fields
\* alone leaves m driven as it was.
LEMMA DrivenUnchanged ==
    ASSUME NEW m \in Machines, Driven(m), Mine(m)' = Mine(m), ops'[m] = ops[m],
           machines'[m].state = machines[m].state, machines'[m].host = machines[m].host,
           machines'[m].cluster = machines[m].cluster
    PROVE  Driven(m)'
BY DEF Driven

\* A step into a resting state needs the machine's goroutine gone.
LEMMA DrivenAtRest ==
    ASSUME NEW m \in Machines, Mine(m)' = {}, machines'[m].state \notin TransitionalStates
    PROVE  Driven(m)'
BY DEF Driven

LEMMA DriverInit == Init => DriverInv
<1> SUFFICES ASSUME Init PROVE DriverInv
  OBVIOUS
<1>1. \A m \in Machines : machines[m].state = Absent /\ Mine(m) = {}
  BY DEF Init, EmptySnapshot, NoMachine, Mine
<1>2. \A m \in Machines : Driven(m)
  BY <1>1 DEF Driven, Absent, TransitionalStates
<1> QED
  BY <1>2, TypeInit DEF Init, DriverInv, DownIsEmpty, Snapshot, EmptySnapshot

LEMMA DriverAccept ==
    ASSUME DriverInv, NEW k \in Kinds, NEW m \in Machines,
           NEW f \in Tokens \union {ZeroToken}, NEW b \in Bindings(k),
           Accept(k, m, f, b[1], b[2])
    PROVE  \A n \in Machines : Driven(n)'
<1> SUFFICES ASSUME NEW n \in Machines PROVE Driven(n)'
  OBVIOUS
<1> DEFINE req == [op |-> nextOp + 1, id |-> m, kind |-> k,
                   host |-> machines'[m].host, cluster |-> machines'[m].cluster]
           r == [req |-> req, phase |-> "calling"]
<1>1. /\ running' = running \union {r}
      /\ ops' = [ops EXCEPT ![m][k] = nextOp + 1]
      /\ machines' = [machines EXCEPT ![m] = Begin(machines[m], k, b[1], b[2])]
      /\ CanStart(machines[m].state, k)
  BY DEF Accept
<1>2. req.id = m /\ req.kind = k /\ req.op = nextOp + 1 /\ r.req = req
      /\ req.host = machines'[m].host /\ req.cluster = machines'[m].cluster
  OBVIOUS
<1> HIDE DEF req, r
<1>3. CASE n = m
  <2>1. machines[m].state \notin TransitionalStates
    BY <1>1 DEF CanStart, TransitionalStates
  <2>2. Mine(m) = {}
    BY <2>1 DEF DriverInv, Driven
  <2>3. Mine(m)' = {r}
    BY <1>1, <1>2, <2>2 DEF Mine
  <2>4. /\ machines'[m].state = Transitional[k]
        /\ Transitional[k] \in TransitionalStates
    BY <1>1, BeginType DEF DriverInv, TypeOK
  <2>5. ops'[m][k] = nextOp + 1
    BY <1>1 DEF DriverInv, TypeOK
  <2> QED
    BY <1>2, <1>3, <2>3, <2>4, <2>5 DEF Driven
<1>4. CASE n # m
  <2>1. Mine(n)' = Mine(n)
    BY <1>1, <1>2, <1>4 DEF Mine
  <2>2. ops'[n] = ops[n] /\ machines'[n] = machines[n]
    BY <1>1, <1>4 DEF DriverInv, TypeOK
  <2> QED
    BY <2>1, <2>2, DrivenUnchanged DEF DriverInv
<1> QED
  BY <1>3, <1>4

LEMMA DriverBackend ==
    ASSUME DriverInv, NEW r \in running,
           ActuatorReturns(r) \/ NodeConfirmed(r) \/ ActuatorErrs(r)
    PROVE  \A n \in Machines : Driven(n)'
<1>1. PICK p \in {"calling", "confirming", "ok", "err"} :
        running' = (running \ {r}) \union {[r EXCEPT !.phase = p]}
  BY DEF ActuatorReturns, NodeConfirmed, ActuatorErrs
<1>2. UNCHANGED <<machines, ops>>
  BY DEF ActuatorReturns, NodeConfirmed, ActuatorErrs, memory, store
<1> DEFINE s == [r EXCEPT !.phase = p]
<1>3. s.req = r.req
  BY DEF DriverInv, TypeOK
<1> HIDE DEF s
<1> SUFFICES ASSUME NEW n \in Machines PROVE Driven(n)'
  OBVIOUS
<1>4. CASE n = r.req.id
  <2>1. r \in Mine(n)
    BY <1>4 DEF Mine
  <2>2. /\ machines[n].state \in TransitionalStates
        /\ Mine(n) = {r}
        /\ machines[n].state = Transitional[r.req.kind]
        /\ ops[n][r.req.kind] = r.req.op
        /\ machines[n].host = r.req.host
        /\ machines[n].cluster = r.req.cluster
    BY <2>1 DEF DriverInv, Driven
  <2>3. Mine(n)' = {s}
    BY <1>1, <1>3, <1>4, <2>2 DEF Mine, s
  <2> QED
    BY <1>2, <1>3, <2>2, <2>3 DEF Driven
<1>5. CASE n # r.req.id
  <2>1. Mine(n)' = Mine(n)
    BY <1>1, <1>3, <1>5 DEF Mine, s
  <2> QED
    BY <1>2, <2>1, DrivenUnchanged DEF DriverInv
<1> QED
  BY <1>4, <1>5

LEMMA DriverComplete ==
    ASSUME DriverInv, NEW r \in running, NEW failed \in BOOLEAN, Complete(r, failed)
    PROVE  \A n \in Machines : Driven(n)'
<1> DEFINE m == r.req.id
<1>1. m \in Machines /\ r.req \in Request
  BY DEF DriverInv, TypeOK, Request
<1>2. r \in Mine(m)
  BY DEF Mine
<1>3. Mine(m) = {r} /\ machines[m].state = Transitional[r.req.kind]
  BY <1>1, <1>2 DEF DriverInv, Driven
<1>4. /\ running' = running \ {r}
      /\ ops' = ops
      /\ machines' = [machines EXCEPT
                        ![m] = IF failed THEN Fail(machines[m]) ELSE Settle(machines[m], r.req)]
  BY <1>3 DEF Complete
<1> HIDE DEF m
<1> SUFFICES ASSUME NEW n \in Machines PROVE Driven(n)'
  OBVIOUS
<1>5. CASE n = m
  <2>1. Mine(n)' = {}
    BY <1>3, <1>4, <1>5 DEF Mine
  <2>2. machines[m] \in Machine
    BY <1>1 DEF DriverInv, TypeOK
  <2>3. Fail(machines[m]).state = "Failed" /\ Settle(machines[m], r.req).state \in StableStates
    BY <1>1, <2>2, FailType, SettleType
  <2>4. machines'[m].state \in StableStates \union {"Failed"}
    BY <1>1, <1>4, <2>3 DEF DriverInv, TypeOK
  <2> QED
    BY <1>5, <2>1, <2>4, DrivenAtRest DEF StableStates, TransitionalStates
<1>6. CASE n # m
  <2>1. Mine(n)' = Mine(n)
    BY <1>3, <1>4, <1>6 DEF Mine, m
  <2>2. machines'[n] = machines[n]
    BY <1>4, <1>6 DEF DriverInv, TypeOK
  <2> QED
    BY <1>4, <2>1, <2>2, DrivenUnchanged DEF DriverInv
<1> QED
  BY <1>5, <1>6

\* A Reconcile moves no known machine and adds only resting ones.
LEMMA DriverReconcileApply ==
    ASSUME DriverInv, NEW in \in described, ReconcileApply(in)
    PROVE  \A n \in Machines : Driven(n)'
<1> DEFINE valid == {m \in DOMAIN in : Valid(in[m])}
           added == {m \in valid : ~Known(m)}
           moved == {m \in valid : Known(m) /\ machines[m].price # in[m].price}
<1>1. PICK S \in SUBSET Machines :
        in \in [S -> [host : Hosts \union {NoHost}, price : Prices]]
  BY DEF DriverInv, TypeOK
<1>2. /\ machines' = [m \in Machines |->
                        IF m \in added THEN ToMachine(in[m])
                        ELSE IF m \in moved THEN Refresh(machines[m], in[m])
                        ELSE machines[m]]
      /\ running' = running
      /\ ops' = ops
  BY DEF ReconcileApply
<1>3. added \subseteq S /\ \A n \in added : machines[n].state = Absent
  BY <1>1 DEF Known
<1> HIDE DEF added, moved
<1> SUFFICES ASSUME NEW n \in Machines PROVE Driven(n)'
  OBVIOUS
<1>4. Mine(n)' = Mine(n)
  BY <1>2 DEF Mine
<1>5. CASE n \in added
  <2>1. Mine(n) = {}
    BY <1>3, <1>5 DEF DriverInv, Driven, Absent, TransitionalStates
  <2>2. machines'[n].state \in {"Speculative", "Idle"}
    BY <1>1, <1>2, <1>3, <1>5, ToMachineType
  <2> QED
    BY <1>4, <2>1, <2>2, DrivenAtRest DEF TransitionalStates
<1>6. CASE n \notin added
  <2>1. machines[n] \in Machine
    BY DEF DriverInv, TypeOK
  <2>2. /\ machines'[n].state = machines[n].state
        /\ machines'[n].host = machines[n].host
        /\ machines'[n].cluster = machines[n].cluster
    BY <1>2, <1>6, <2>1 DEF Refresh, Machine
  <2> QED
    BY <1>2, <1>4, <2>2, DrivenUnchanged DEF DriverInv
<1> QED
  BY <1>5, <1>6

\* A start runs no goroutine and leaves no machine in a transitional state.
LEMMA DriverBoot ==
    ASSUME DriverInv, BootFresh \/ BootStored
    PROVE  \A n \in Machines : Driven(n)'
<1> SUFFICES ASSUME NEW n \in Machines PROVE Driven(n)'
  OBVIOUS
<1>1. Mine(n)' = {}
  BY DEF BootFresh, BootStored, DriverInv, DownIsEmpty, Mine
<1>2. CASE BootFresh
  <2>0. PICK S \in SUBSET Machines : \E price \in [S -> Prices] :
          machines' = [m \in Machines |->
                         IF m \in S THEN ToMachine(Instances(S, price)[m]) ELSE NoMachine]
    BY <1>2 DEF BootFresh
  <2>1. PICK price \in [S -> Prices] :
          machines' = [m \in Machines |->
                         IF m \in S THEN ToMachine(Instances(S, price)[m]) ELSE NoMachine]
    BY <2>0
  <2>2. machines'[n].state \in {"Speculative", "Idle", Absent}
    BY <2>1 DEF ToMachine, NoMachine
  <2> QED
    BY <1>1, <2>2, DrivenAtRest DEF TransitionalStates, Absent
<1>3. CASE BootStored
  <2>1. disk.machines[n] \in Machine
    BY DEF DriverInv, TypeOK, Snapshots
  <2>2. machines'[n] = Recover(disk.machines[n])
    BY <1>3 DEF BootStored
  <2> QED
    BY <1>1, <2>1, <2>2, RecoverType, DrivenAtRest
<1> QED
  BY <1>2, <1>3

LEMMA DriverCrash ==
    ASSUME Crash
    PROVE  \A n \in Machines : Driven(n)'
<1> SUFFICES ASSUME NEW n \in Machines PROVE Driven(n)'
  OBVIOUS
<1>1. Mine(n)' = {} /\ machines'[n].state = Absent
  BY DEF Crash, Mine, EmptySnapshot, NoMachine
<1> QED
  BY <1>1, DrivenAtRest DEF Absent, TransitionalStates

\* Steps that touch neither goroutines, operation ids nor records.
LEMMA DriverSame ==
    ASSUME DriverInv, UNCHANGED <<machines, ops, running>>
    PROVE  \A n \in Machines : Driven(n)'
BY DEF DriverInv, Driven, Mine

LEMMA DriverNext == DriverInv /\ [Next]_vars => DriverInv'
<1> SUFFICES ASSUME DriverInv, [Next]_vars PROVE DriverInv'
  OBVIOUS
<1>1. TypeOK'
  BY TypeNext DEF DriverInv
<1>2. DownIsEmpty'
  <2>1. CASE \E k \in Kinds, m \in Machines, f \in Tokens \union {ZeroToken} :
               Dispatch(k, m, f)
    BY <2>1 DEF Dispatch, Refuse, RetryAck, Accept, DownIsEmpty
  <2>2. CASE \E r \in running : RunTransition(r)
    <3>1. up /\ up' = up
      BY <2>2 DEF DriverInv, DownIsEmpty, RunTransition, ActuatorReturns, NodeConfirmed,
                  ActuatorErrs, Finish, Timeout, Complete
    <3> QED
      BY <3>1 DEF DownIsEmpty
  <2>3. CASE ReconcileDescribe \/ (\E in \in described : ReconcileApply(in))
    <3>1. up' = up /\ up
      BY <2>3 DEF ReconcileDescribe, ReconcileApply
    <3> QED
      BY <3>1 DEF DownIsEmpty
  <2>4. CASE BootFresh \/ BootStored
    BY <2>4 DEF BootFresh, BootStored, DownIsEmpty
  <2>5. CASE Crash
    BY <2>5 DEF Crash, DownIsEmpty, Snapshot, EmptySnapshot
  <2>6. CASE (\E q \in wire : Land(q)) \/ UNCHANGED vars
    <3>1. UNCHANGED <<up, memory, running, described>>
      BY <2>6 DEF Land, vars, store
    <3> QED
      BY <3>1 DEF DriverInv, DownIsEmpty, Snapshot, memory, store
  <2> QED
    BY <2>1, <2>2, <2>3, <2>4, <2>5, <2>6 DEF Next
<1>3. \A n \in Machines : Driven(n)'
  <2>1. CASE \E k \in Kinds, m \in Machines, f \in Tokens \union {ZeroToken} :
               Dispatch(k, m, f)
    <3>1. PICK k \in Kinds, m \in Machines, f \in Tokens \union {ZeroToken} : Dispatch(k, m, f)
      BY <2>1
    <3>2. CASE Refuse(k, m, f) \/ RetryAck(k, m, f)
      BY <3>2, DriverSame DEF Refuse, RetryAck
    <3>3. CASE \E b \in Bindings(k) : Accept(k, m, f, b[1], b[2])
      BY <3>3, DriverAccept
    <3> QED
      BY <3>1, <3>2, <3>3 DEF Dispatch
  <2>2. CASE \E r \in running : RunTransition(r)
    <3>1. PICK r \in running : RunTransition(r)
      BY <2>2
    <3>2. CASE ActuatorReturns(r) \/ NodeConfirmed(r) \/ ActuatorErrs(r)
      BY <3>2, DriverBackend
    <3>3. CASE Finish(r) \/ Timeout(r)
      BY <3>3, DriverComplete DEF Finish, Timeout
    <3> QED
      BY <3>1, <3>2, <3>3 DEF RunTransition
  <2>3. CASE ReconcileDescribe \/ (\E q \in wire : Land(q)) \/ UNCHANGED vars
    BY <2>3, DriverSame DEF ReconcileDescribe, Land, memory, vars, store
  <2>4. CASE \E in \in described : ReconcileApply(in)
    BY <2>4, DriverReconcileApply
  <2>5. CASE BootFresh \/ BootStored
    BY <2>5, DriverBoot
  <2>6. CASE Crash
    BY <2>6, DriverCrash
  <2> QED
    BY <2>1, <2>2, <2>3, <2>4, <2>5, <2>6 DEF Next
<1> QED
  BY <1>1, <1>2, <1>3 DEF DriverInv

\* In every reachable state each transitional machine has exactly one goroutine,
\* its own, and no resting machine has one: runTransition's check of the state
\* alone (server.go:616) is enough, and no transition is left undriven.
THEOREM OneDriverAlways == Spec => []OneDriver
<1>1. DriverInv => OneDriver
  BY OneDriverIsDriven DEF DriverInv
<1> QED
  BY <1>1, DriverInit, DriverNext, PTL DEF Spec

-----------------------------------------------------------------------------
(* Fencing marks and operation ids survive.                                 *)

\* What the kit acts on, or will act on once it is up again.
CurFences == IF up THEN fences ELSE disk.fences
CurOps == IF up THEN ops ELSE disk.ops
CurNext == IF up THEN nextOp ELSE disk.nextOp

\* Every accepted operation bumped the revision: a store with no revision is
\* fresh, and holds no operation id either.
CounterInv == nextOp <= rev /\ disk.nextOp <= disk.rev

AckOf(a) == [op |-> a.op, id |-> a.id, kind |-> a.kind]

\* The operations accepted so far against the counter and the idempotency map.
OpInv ==
    /\ \A a \in accepted : a.op <= CurNext
    /\ \A a, b \in accepted : a.op = b.op => a = b
    /\ \A x \in acked : \E a \in accepted : x = AckOf(a)
    /\ \A m \in Machines, k \in Kinds :
          CurOps[m][k] # 0 => \E a \in accepted : [op |-> CurOps[m][k], id |-> m, kind |-> k] = AckOf(a)

\* The operations accepted so far against the marks and each other.
Covers(mark, f) == mark # NoMark /\ ~Newer(mark, f)

OrderInv ==
    /\ \A a \in accepted : a.fence # ZeroToken => Covers(highest[a.fence.shard][a.id], a.fence)
    /\ \A a, b \in accepted :
          /\ a.fence # ZeroToken /\ b.fence # ZeroToken
          /\ a.id = b.id /\ a.fence.shard = b.fence.shard /\ a.op < b.op
          => Newer(MarkOf(a.fence), b.fence)

KeptInv == ~lost => highest = CurFences /\ OpInv /\ OrderInv

HistoryInv == DriverInv /\ DiskCurrent /\ CounterInv /\ KeptInv

LEMMA HistoryInit == Init => HistoryInv
<1> SUFFICES ASSUME Init PROVE HistoryInv
  OBVIOUS
<1>1. CounterInv
  BY DEF Init, CounterInv, EmptySnapshot
<1>2. KeptInv
  BY DEF Init, KeptInv, OpInv, OrderInv, CurFences, CurOps, CurNext, EmptySnapshot
<1> QED
  BY <1>1, <1>2, DriverInit DEF HistoryInv, DiskCurrent, Init

\* Every handler that changed what the snapshot holds saved before it let the
\* lock go, so the disk is behind only after a Save that failed.
LEMMA DiskSaved ==
    ASSUME Persist \/ (UNCHANGED store /\ disk = Snapshot')
    PROVE  DiskCurrent'
BY DEF Persist, DiskCurrent, store

LEMMA DiskSame ==
    ASSUME DiskCurrent, up, UNCHANGED memory, UNCHANGED store
    PROVE  DiskCurrent'
BY DEF DiskCurrent, memory, store, Snapshot

LEMMA DiskAnswer ==
    ASSUME DiskCurrent, NEW k \in Kinds, NEW m \in Machines,
           NEW f \in Tokens \union {ZeroToken}, Refuse(k, m, f) \/ RetryAck(k, m, f)
    PROVE  DiskCurrent'
<1>1. CASE f # ZeroToken
  BY <1>1, DiskSaved DEF Refuse, RetryAck, PersistIf
<1>2. CASE f = ZeroToken
  <2>1. UNCHANGED memory
    BY <1>2 DEF Refuse, RetryAck, AdvanceMark, memory
  <2>2. up /\ UNCHANGED store
    BY <1>2 DEF Refuse, RetryAck, PersistIf
  <2> QED
    BY <2>1, <2>2, DiskSame
<1> QED
  BY <1>1, <1>2

\* A reconcile that found nothing new leaves the record map as it was.
LEMMA DiskReconcileApply ==
    ASSUME TypeOK, DiskCurrent, NEW in \in described, ReconcileApply(in)
    PROVE  DiskCurrent'
<1> DEFINE valid == {m \in DOMAIN in : Valid(in[m])}
           added == {m \in valid : ~Known(m)}
           moved == {m \in valid : Known(m) /\ machines[m].price # in[m].price}
<1>1. /\ up
      /\ machines' = [m \in Machines |->
                        IF m \in added THEN ToMachine(in[m])
                        ELSE IF m \in moved THEN Refresh(machines[m], in[m])
                             ELSE machines[m]]
      /\ rev' = rev + Cardinality(added \union moved)
      /\ UNCHANGED <<fences, ops, nextOp>>
      /\ PersistIf(added \union moved # {})
  BY DEF ReconcileApply, TouchAll
<1> HIDE DEF added, moved
<1>2. CASE added \union moved # {}
  BY <1>1, <1>2, DiskSaved DEF PersistIf
<1>3. CASE added \union moved = {}
  <2>1. rev' = rev
    <3>1. Cardinality(added \union moved) = 0
      BY <1>3, FS_EmptySet
    <3> QED
      BY <1>1, <3>1 DEF TypeOK
  <2>2. machines' = machines
    <3>1. machines' = [m \in Machines |-> machines[m]]
      BY <1>1, <1>3
    <3> QED
      BY <3>1 DEF TypeOK
  <2>3. Snapshot' = Snapshot /\ UNCHANGED store
    BY <1>1, <1>3, <2>1, <2>2 DEF Snapshot, PersistIf
  <2> QED
    BY <1>1, <2>3 DEF DiskCurrent, store
<1> QED
  BY <1>2, <1>3

\* A start that cut nothing short holds exactly what it read.
LEMMA DiskBoot ==
    ASSUME TypeOK, BootFresh \/ BootStored
    PROVE  DiskCurrent'
<1>1. CASE BootFresh
  BY <1>1, DiskSaved DEF BootFresh
<1>2. CASE BootStored
  <2> DEFINE cut == {m \in Machines : disk.machines[m].state \in TransitionalStates}
  <2>1. /\ machines' = [m \in Machines |-> Recover(disk.machines[m])]
        /\ fences' = disk.fences /\ ops' = disk.ops /\ nextOp' = disk.nextOp
        /\ rev' = disk.rev + Cardinality(cut)
        /\ PersistIf(cut # {})
    BY <1>2 DEF BootStored
  <2>2. CASE cut # {}
    BY <2>1, <2>2, DiskSaved DEF PersistIf
  <2>3. CASE cut = {}
    <3>1. /\ disk.machines \in [Machines -> Machine] /\ disk.rev \in Nat
          /\ disk = [machines |-> disk.machines, fences |-> disk.fences, ops |-> disk.ops,
                     rev |-> disk.rev, nextOp |-> disk.nextOp]
      BY DEF TypeOK, Snapshots
    <3>2. rev' = disk.rev
      <4>1. Cardinality(cut) = 0
        BY <2>3, FS_EmptySet
      <4> QED
        BY <2>1, <3>1, <4>1
    <3>3. \A m \in Machines : Recover(disk.machines[m]) = disk.machines[m]
      BY <2>3 DEF Recover
    <3>4. machines' = disk.machines
      BY <2>1, <3>1, <3>3
    <3> HIDE DEF cut
    <3>5. UNCHANGED store
      BY <2>1, <2>3 DEF PersistIf
    <3>6. disk = Snapshot'
      BY <2>1, <3>1, <3>2, <3>4 DEF Snapshot
    <3> QED
      BY <3>5, <3>6, DiskSaved
  <2> QED
    BY <2>2, <2>3
<1> QED
  BY <1>1, <1>2

LEMMA DiskNext ==
    ASSUME DriverInv, DiskCurrent, [Next]_vars
    PROVE  DiskCurrent'
<1>1. CASE \E k \in Kinds, m \in Machines, f \in Tokens \union {ZeroToken} : Dispatch(k, m, f)
  <2>1. PICK k \in Kinds, m \in Machines, f \in Tokens \union {ZeroToken} : Dispatch(k, m, f)
    BY <1>1
  <2>2. CASE \E b \in Bindings(k) : Accept(k, m, f, b[1], b[2])
    BY <2>2, DiskSaved DEF Accept
  <2> QED
    BY <2>1, <2>2, DiskAnswer DEF Dispatch
<1>2. CASE \E r \in running : RunTransition(r)
  <2>1. PICK r \in running : RunTransition(r)
    BY <1>2
  <2>2. up
    BY <2>1 DEF DriverInv, DownIsEmpty
  <2>3. CASE ActuatorReturns(r) \/ NodeConfirmed(r) \/ ActuatorErrs(r)
    BY <2>2, <2>3, DiskSame DEF ActuatorReturns, NodeConfirmed, ActuatorErrs
  <2>4. ASSUME NEW failed \in BOOLEAN, Complete(r, failed)
        PROVE  DiskCurrent'
    BY <2>2, <2>4, DiskSame, DiskSaved DEF Complete
  <2> QED
    BY <2>1, <2>3, <2>4 DEF RunTransition, Finish, Timeout
<1>3. CASE \E in \in described : ReconcileApply(in)
  BY <1>3, DiskReconcileApply DEF DriverInv
<1>4. CASE BootFresh \/ BootStored
  BY <1>4, DiskBoot DEF DriverInv
<1>5. CASE ReconcileDescribe \/ (\E q \in wire : Land(q)) \/ UNCHANGED vars
  <2>1. UNCHANGED <<up, memory, store>>
    BY <1>5 DEF ReconcileDescribe, Land, vars
  <2> QED
    BY <2>1 DEF DiskCurrent, Snapshot, memory, store
<1>6. CASE Crash
  BY <1>6 DEF Crash, DiskCurrent
<1> QED
  BY <1>1, <1>2, <1>3, <1>4, <1>5, <1>6 DEF Next

\* The counter never outruns the revision, whatever Save does.
LEMMA CounterNext ==
    ASSUME HistoryInv, [Next]_vars
    PROVE  CounterInv'
<1> USE DEF CounterInv
<1>1. rev \in Nat /\ nextOp \in Nat /\ disk.rev \in Nat /\ disk.nextOp \in Nat
  BY DEF HistoryInv, DriverInv, TypeOK, Snapshots
<1>2. nextOp <= rev /\ disk.nextOp <= disk.rev
  BY DEF HistoryInv
<1>3. ASSUME nextOp' <= rev', Persist \/ UNCHANGED store
      PROVE  CounterInv'
  BY <1>2, <1>3 DEF Persist, Snapshot, store
<1>4. CASE \E k \in Kinds, m \in Machines, f \in Tokens \union {ZeroToken} : Dispatch(k, m, f)
  BY <1>1, <1>2, <1>3, <1>4 DEF Dispatch, Refuse, RetryAck, Accept, Touch, PersistIf, store
<1>5. CASE \E r \in running : RunTransition(r)
  <2>1. PICK r \in running : RunTransition(r)
    BY <1>5
  <2>2. CASE ActuatorReturns(r) \/ NodeConfirmed(r) \/ ActuatorErrs(r)
    BY <1>2, <2>2 DEF ActuatorReturns, NodeConfirmed, ActuatorErrs, memory, store
  <2>3. ASSUME NEW failed \in BOOLEAN, Complete(r, failed)
        PROVE  CounterInv'
    BY <1>1, <1>2, <1>3, <2>3 DEF Complete, Touch, memory, store
  <2> QED
    BY <2>1, <2>2, <2>3 DEF RunTransition, Finish, Timeout
<1>6. CASE ReconcileDescribe \/ (\E q \in wire : Land(q)) \/ UNCHANGED vars
  BY <1>2, <1>6 DEF ReconcileDescribe, Land, memory, vars, store
<1>7. CASE \E in \in described : ReconcileApply(in)
  <2>1. PICK in \in described : ReconcileApply(in)
    BY <1>7
  <2>2. PICK S \in SUBSET Machines : TouchAll(S) /\ PersistIf(S # {})
    <3>1. PICK T \in SUBSET Machines :
            in \in [T -> [host : Hosts \union {NoHost}, price : Prices]]
      BY DEF HistoryInv, DriverInv, TypeOK
    <3> DEFINE valid == {m \in DOMAIN in : Valid(in[m])}
               S == {m \in valid : ~Known(m)} \union
                    {m \in valid : Known(m) /\ machines[m].price # in[m].price}
    <3>2. S \in SUBSET Machines
      BY <3>1
    <3>3. TouchAll(S) /\ PersistIf(S # {})
      BY <2>1 DEF ReconcileApply
    <3> QED
      BY <3>2, <3>3
  <2>3. Cardinality(S) \in Nat
    BY RanksAreNat
  <2>4. rev' = rev + Cardinality(S) /\ nextOp' = nextOp
    BY <2>1, <2>2 DEF ReconcileApply, TouchAll
  <2>5. nextOp' <= rev'
    BY <1>1, <1>2, <2>3, <2>4
  <2> QED
    BY <1>3, <2>2, <2>5 DEF PersistIf, store
<1>8. CASE BootFresh
  <2>1. PICK S \in SUBSET Machines : TouchAll(S)
    BY <1>8 DEF BootFresh
  <2>2. Cardinality(S) \in Nat
    BY RanksAreNat
  <2>3. rev' = rev + Cardinality(S) /\ nextOp' = nextOp /\ Persist
    BY <1>8, <2>1 DEF BootFresh, TouchAll
  <2>4. nextOp' <= rev'
    BY <1>1, <1>2, <2>2, <2>3
  <2> QED
    BY <1>3, <2>3, <2>4
<1>9. CASE BootStored
  <2> DEFINE cut == {m \in Machines : disk.machines[m].state \in TransitionalStates}
  <2>1. /\ rev' = disk.rev + Cardinality(cut)
        /\ nextOp' = disk.nextOp
        /\ PersistIf(cut # {})
    BY <1>9 DEF BootStored
  <2>2. Cardinality(cut) \in Nat
    BY RanksAreNat
  <2> HIDE DEF cut
  <2>3. nextOp' <= rev'
    BY <1>1, <1>2, <2>1, <2>2
  <2> QED
    BY <1>3, <2>1, <2>3 DEF PersistIf, store
<1>10. CASE Crash
  BY <1>2, <1>10 DEF Crash
<1> QED
  BY <1>4, <1>5, <1>6, <1>7, <1>8, <1>9, <1>10 DEF Next

\* A step that leaves what the kit acts on, and the history, as they were.
LEMMA KeptSame ==
    ASSUME KeptInv, ~lost' => ~lost, CurFences' = CurFences, CurOps' = CurOps,
           CurNext' = CurNext, UNCHANGED <<accepted, acked, highest>>
    PROVE  KeptInv'
BY DEF KeptInv, OpInv, OrderInv

\* A token that passes the fence is newer than everything its shard got
\* accepted on the machine, and the mark then covers it.
LEMMA AdvanceMarkKept ==
    ASSUME TypeOK, NEW m \in Machines, NEW f \in Tokens \union {ZeroToken},
           PassesFence(m, f), AdvanceMark(m, f), highest = fences
    PROVE  /\ highest' = fences'
           /\ f # ZeroToken => Covers(highest'[f.shard][m], f)
           /\ \A g \in Tokens, n \in Machines :
                Covers(highest[g.shard][n], g) => Covers(highest'[g.shard][n], g)
           /\ \A g \in Tokens : f # ZeroToken /\ g.shard = f.shard /\ Covers(highest[g.shard][m], g)
                => Newer(MarkOf(g), f)
<1>1. CASE f = ZeroToken
  BY <1>1 DEF AdvanceMark
<1>2. CASE f # ZeroToken
  <2>1. f \in Tokens /\ f.shard \in Shards /\ f.epoch \in Int /\ f.seq \in Int
    BY <1>2, TokensAssumption DEF Tokens
  <2>2. /\ highest[f.shard][m] = NoMark \/ Newer(highest[f.shard][m], f)
        /\ highest' = [highest EXCEPT ![f.shard][m] = MarkOf(f)]
        /\ fences' = highest'
    BY <1>2 DEF PassesFence, AdvanceMark
  <2>3. highest'[f.shard][m] = MarkOf(f)
    BY <2>1, <2>2 DEF TypeOK
  <2>4. MarkOf(f) # NoMark
    BY <2>1, NullsAssumption DEF MarkOf, Tokens
  <2>5. Covers(highest'[f.shard][m], f)
    BY <2>1, <2>3, <2>4 DEF Covers, Newer, MarkOf
  <2>6. \A s \in Shards, n \in Machines :
          highest[s][n] # NoMark => highest[s][n].epoch \in Int /\ highest[s][n].seq \in Int
    <3> SUFFICES ASSUME NEW s \in Shards, NEW n \in Machines, highest[s][n] # NoMark
                 PROVE  highest[s][n].epoch \in Int /\ highest[s][n].seq \in Int
      OBVIOUS
    <3>1. highest[s][n] \in Marks
      BY DEF TypeOK
    <3> QED
      BY <3>1, TokensAssumption DEF Marks
  <2>7. ASSUME NEW g \in Tokens, g.shard = f.shard, Covers(highest[g.shard][m], g)
        PROVE  Newer(MarkOf(g), f)
    <3>1. g.epoch \in Int /\ g.seq \in Int
      BY TokensAssumption DEF Tokens
    <3>2. highest[f.shard][m] # NoMark /\ ~Newer(highest[f.shard][m], g)
      BY <2>7 DEF Covers
    <3>3. Newer(highest[f.shard][m], f)
      BY <2>2, <3>2
    <3> QED
      BY <2>1, <2>6, <3>1, <3>2, <3>3 DEF Newer, MarkOf
  <2>8. ASSUME NEW g \in Tokens, NEW n \in Machines, Covers(highest[g.shard][n], g)
        PROVE  Covers(highest'[g.shard][n], g)
    <3>1. CASE g.shard = f.shard /\ n = m
      <4>1. Newer(MarkOf(g), f)
        BY <2>7, <2>8, <3>1
      <4>2. g.epoch \in Int /\ g.seq \in Int
        BY TokensAssumption DEF Tokens
      <4> QED
        BY <2>1, <2>3, <2>4, <3>1, <4>1, <4>2 DEF Covers, Newer, MarkOf
    <3>2. CASE ~(g.shard = f.shard /\ n = m)
      <4>1. g.shard \in Shards
        BY DEF Tokens
      <4>2. highest'[g.shard][n] = highest[g.shard][n]
        BY <2>1, <2>2, <3>2, <4>1 DEF TypeOK
      <4> QED
        BY <2>8, <4>2
    <3> QED
      BY <3>1, <3>2
  <2> QED
    BY <2>2, <2>5, <2>7, <2>8
<1> QED
  BY <1>1, <1>2

\* A refused call or an idempotent retry.
LEMMA KeptAnswer ==
    ASSUME HistoryInv, NEW k \in Kinds, NEW m \in Machines,
           NEW f \in Tokens \union {ZeroToken}, Refuse(k, m, f) \/ RetryAck(k, m, f)
    PROVE  KeptInv'
<1> SUFFICES ASSUME ~lost' PROVE (highest = CurFences /\ OpInv /\ OrderInv)'
  BY DEF KeptInv
<1>1. /\ up /\ up' /\ ~lost
      /\ PassesFence(m, f) /\ AdvanceMark(m, f)
      /\ UNCHANGED <<ops, nextOp, accepted>>
  BY DEF Refuse, RetryAck, HistoryInv, DriverInv, TypeOK
<1>2. highest = fences /\ OpInv /\ OrderInv
  BY <1>1 DEF HistoryInv, KeptInv, CurFences
<1>3. /\ highest' = fences'
      /\ \A g \in Tokens, n \in Machines :
           Covers(highest[g.shard][n], g) => Covers(highest'[g.shard][n], g)
  BY <1>1, <1>2, AdvanceMarkKept DEF HistoryInv, DriverInv
<1>4. \A a \in accepted : a.id \in Machines /\ a.fence \in Tokens \union {ZeroToken}
  BY DEF HistoryInv, DriverInv, TypeOK
<1>5. OrderInv'
  BY <1>1, <1>2, <1>3, <1>4 DEF OrderInv
<1>6. CurOps' = CurOps /\ CurNext' = CurNext /\ CurOps = ops
  BY <1>1 DEF CurOps, CurNext
<1>7. \A x \in acked' : \E a \in accepted : x = AckOf(a)
  <2>1. CASE Refuse(k, m, f)
    BY <1>2, <2>1 DEF Refuse, OpInv
  <2>2. CASE RetryAck(k, m, f)
    BY <1>2, <1>6, <2>2 DEF RetryAck, IsRetry, OpInv
  <2> QED
    BY <2>1, <2>2
<1>8. OpInv'
  BY <1>1, <1>2, <1>6, <1>7 DEF OpInv
<1> QED
  BY <1>1, <1>3, <1>5, <1>8 DEF CurFences

\* An accepted call gets an id above all others and a token newer than its
\* shard's earlier ones on the machine.
LEMMA KeptAccept ==
    ASSUME HistoryInv, NEW k \in Kinds, NEW m \in Machines,
           NEW f \in Tokens \union {ZeroToken}, NEW b \in Bindings(k),
           Accept(k, m, f, b[1], b[2])
    PROVE  KeptInv'
<1> SUFFICES ASSUME ~lost' PROVE (highest = CurFences /\ OpInv /\ OrderInv)'
  BY DEF KeptInv
<1> DEFINE new == [op |-> nextOp + 1, id |-> m, kind |-> k, fence |-> f]
<1>1. /\ up /\ up' /\ ~lost
      /\ PassesFence(m, f) /\ AdvanceMark(m, f)
      /\ ops' = [ops EXCEPT ![m][k] = nextOp + 1]
      /\ nextOp' = nextOp + 1
      /\ accepted' = accepted \union {new}
      /\ acked' = acked \union {AckOf(new)}
  BY DEF Accept, HistoryInv, DriverInv, TypeOK, AckOf
<1>2. highest = fences /\ OpInv /\ OrderInv
  BY <1>1 DEF HistoryInv, KeptInv, CurFences
<1>3. /\ highest' = fences'
      /\ f # ZeroToken => Covers(highest'[f.shard][m], f)
      /\ \A g \in Tokens, n \in Machines :
           Covers(highest[g.shard][n], g) => Covers(highest'[g.shard][n], g)
      /\ \A g \in Tokens : f # ZeroToken /\ g.shard = f.shard /\ Covers(highest[g.shard][m], g)
           => Newer(MarkOf(g), f)
  BY <1>1, <1>2, AdvanceMarkKept DEF HistoryInv, DriverInv
<1>4. \A a \in accepted :
        a.id \in Machines /\ a.fence \in Tokens \union {ZeroToken} /\ a.op \in Nat
  BY DEF HistoryInv, DriverInv, TypeOK
<1>5. new.op = nextOp + 1 /\ new.id = m /\ new.kind = k /\ new.fence = f
  OBVIOUS
<1>6. nextOp \in Nat /\ CurNext = nextOp /\ CurNext' = nextOp + 1
  BY <1>1 DEF HistoryInv, DriverInv, TypeOK, CurNext
<1>7. \A a \in accepted : a.op <= nextOp
  BY <1>2, <1>6 DEF OpInv
<1> HIDE DEF new
<1>8. OpInv'
  <2>1. \A a \in accepted' : a.op <= CurNext'
    BY <1>1, <1>4, <1>5, <1>6, <1>7
  <2>2. \A x, y \in accepted' : x.op = y.op => x = y
    BY <1>1, <1>2, <1>4, <1>5, <1>6, <1>7 DEF OpInv
  <2>3. \A x \in acked' : \E a \in accepted' : x = AckOf(a)
    BY <1>1, <1>2 DEF OpInv
  <2>4. ASSUME NEW n \in Machines, NEW j \in Kinds, CurOps'[n][j] # 0
        PROVE  \E a \in accepted' : [op |-> CurOps'[n][j], id |-> n, kind |-> j] = AckOf(a)
    <3>1. CurOps' = ops' /\ CurOps = ops
      BY <1>1 DEF CurOps
    <3>2. CASE n = m /\ j = k
      <4>1. ops'[n][j] = nextOp + 1
        BY <1>1, <3>2 DEF HistoryInv, DriverInv, TypeOK
      <4> QED
        BY <1>1, <1>5, <3>1, <3>2, <4>1 DEF AckOf
    <3>3. CASE ~(n = m /\ j = k)
      <4>1. ops'[n][j] = ops[n][j]
        BY <1>1, <3>3 DEF HistoryInv, DriverInv, TypeOK
      <4> QED
        BY <1>1, <1>2, <2>4, <3>1, <4>1 DEF OpInv
    <3> QED
      BY <3>2, <3>3
  <2> QED
    BY <2>1, <2>2, <2>3, <2>4 DEF OpInv
<1>9. OrderInv'
  <2>1. \A a \in accepted' : a.fence # ZeroToken => Covers(highest'[a.fence.shard][a.id], a.fence)
    BY <1>1, <1>2, <1>3, <1>4, <1>5 DEF OrderInv
  <2>2. ASSUME NEW x \in accepted', NEW y \in accepted',
               x.fence # ZeroToken, y.fence # ZeroToken,
               x.id = y.id, x.fence.shard = y.fence.shard, x.op < y.op
        PROVE  Newer(MarkOf(x.fence), y.fence)
    <3>1. x \in accepted
      BY <1>1, <1>4, <1>5, <1>6, <1>7, <2>2
    <3>2. CASE y \in accepted
      BY <1>2, <2>2, <3>1, <3>2 DEF OrderInv
    <3>3. CASE y = new
      <4>1. x.fence \in Tokens /\ x.id = m /\ x.fence.shard = f.shard /\ f # ZeroToken
        BY <1>4, <1>5, <2>2, <3>1, <3>3
      <4>2. Covers(highest[x.fence.shard][m], x.fence)
        BY <1>2, <2>2, <3>1, <4>1 DEF OrderInv
      <4> QED
        BY <1>3, <1>5, <3>3, <4>1, <4>2
    <3> QED
      BY <1>1, <3>2, <3>3
  <2> QED
    BY <2>1, <2>2 DEF OrderInv
<1> QED
  BY <1>1, <1>3, <1>8, <1>9 DEF CurFences

\* A start comes up with what the disk held: an empty snapshot if it is fresh.
LEMMA BootKeeps ==
    ASSUME HistoryInv, BootFresh \/ BootStored
    PROVE  fences' = disk.fences /\ ops' = disk.ops /\ nextOp' = disk.nextOp
<1>1. CASE BootStored
  BY <1>1 DEF BootStored
<1>2. CASE BootFresh
  <2>1. /\ fences' = EmptySnapshot.fences
        /\ ops' = EmptySnapshot.ops
        /\ nextOp' = EmptySnapshot.nextOp
    <3>1. fences' = fences /\ ops' = ops /\ nextOp' = nextOp /\ ~up
      BY <1>2 DEF BootFresh
    <3>2. fences = Snapshot.fences /\ ops = Snapshot.ops /\ nextOp = Snapshot.nextOp
      BY DEF Snapshot
    <3>3. Snapshot = EmptySnapshot
      BY <3>1 DEF HistoryInv, DriverInv, DownIsEmpty
    <3> QED
      BY <3>1, <3>2, <3>3
  <2>2. disk.fences = [s \in Shards |-> [m \in Machines |-> NoMark]]
    <3>1. disk.fences \in [Shards -> [Machines -> Marks \union {NoMark}]]
      BY DEF HistoryInv, DriverInv, TypeOK, Snapshots
    <3>2. \A s \in Shards, m \in Machines : disk.fences[s][m] = NoMark
      BY <1>2 DEF BootFresh, IsFresh
    <3>3. \A s \in Shards : disk.fences[s] = [m \in Machines |-> NoMark]
      BY <3>1, <3>2
    <3> QED
      BY <3>1, <3>3
  <2>3. disk.ops = [m \in Machines |-> [k \in Kinds |-> 0]]
    <3>1. disk.ops \in [Machines -> [Kinds -> Nat]]
      BY DEF HistoryInv, DriverInv, TypeOK, Snapshots
    <3>2. \A m \in Machines, k \in Kinds : disk.ops[m][k] = 0
      BY <1>2 DEF BootFresh, IsFresh
    <3>3. \A m \in Machines : disk.ops[m] = [k \in Kinds |-> 0]
      BY <3>1, <3>2
    <3> QED
      BY <3>1, <3>3
  <2>4. disk.nextOp = 0
    BY <1>2 DEF BootFresh, IsFresh, HistoryInv, DriverInv, TypeOK, Snapshots, CounterInv
  <2> QED
    BY <2>1, <2>2, <2>3, <2>4 DEF EmptySnapshot
<1> QED
  BY <1>1, <1>2

LEMMA KeptBoot ==
    ASSUME HistoryInv, BootFresh \/ BootStored
    PROVE  KeptInv'
<1>1. ~up /\ up' /\ UNCHANGED <<accepted, acked, highest, lost>>
  BY DEF BootFresh, BootStored, history, store
<1>2. CurFences = disk.fences /\ CurOps = disk.ops /\ CurNext = disk.nextOp
  BY <1>1 DEF CurFences, CurOps, CurNext
<1>3. CurFences' = fences' /\ CurOps' = ops' /\ CurNext' = nextOp'
  BY <1>1 DEF CurFences, CurOps, CurNext, HistoryInv, DriverInv, TypeOK, BootFresh, BootStored
<1> QED
  BY <1>1, <1>2, <1>3, BootKeeps, KeptSame DEF HistoryInv

\* A crash leaves what the last save wrote, which is all there was unless a
\* failed save is lost with the process.
LEMMA KeptCrash ==
    ASSUME HistoryInv, Crash
    PROVE  KeptInv'
<1> SUFFICES ASSUME ~lost' PROVE KeptInv'
  BY DEF KeptInv
<1>1. /\ up /\ up' = FALSE /\ ~lost /\ ~behind
      /\ UNCHANGED <<disk, accepted, acked, highest>>
  BY DEF Crash
<1>2. CurFences = fences /\ CurOps = ops /\ CurNext = nextOp
  BY <1>1 DEF CurFences, CurOps, CurNext
<1>3. CurFences' = disk.fences /\ CurOps' = disk.ops /\ CurNext' = disk.nextOp
  BY <1>1 DEF CurFences, CurOps, CurNext
<1>4. disk.fences = fences /\ disk.ops = ops /\ disk.nextOp = nextOp
  BY <1>1 DEF HistoryInv, DiskCurrent, Snapshot
<1> QED
  BY <1>1, <1>2, <1>3, <1>4, KeptSame DEF HistoryInv

LEMMA HistoryNext == HistoryInv /\ [Next]_vars => HistoryInv'
<1> SUFFICES ASSUME HistoryInv, [Next]_vars PROVE HistoryInv'
  OBVIOUS
<1>1. DriverInv'
  BY DriverNext DEF HistoryInv
<1>2. CounterInv'
  BY CounterNext
<1>3. KeptInv'
  <2>1. CASE \E k \in Kinds, m \in Machines, f \in Tokens \union {ZeroToken} :
               Dispatch(k, m, f)
    <3>1. PICK k \in Kinds, m \in Machines, f \in Tokens \union {ZeroToken} : Dispatch(k, m, f)
      BY <2>1
    <3>2. CASE Refuse(k, m, f) \/ RetryAck(k, m, f)
      BY <3>2, KeptAnswer
    <3>3. CASE \E b \in Bindings(k) : Accept(k, m, f, b[1], b[2])
      BY <3>3, KeptAccept
    <3> QED
      BY <3>1, <3>2, <3>3 DEF Dispatch
  <2>2. ASSUME UNCHANGED <<up, fences, ops, nextOp, accepted, acked, highest, lost>>,
               up \/ UNCHANGED store
        PROVE  KeptInv'
    <3>1. CurFences' = CurFences /\ CurOps' = CurOps /\ CurNext' = CurNext
      BY <2>2 DEF CurFences, CurOps, CurNext, store
    <3> QED
      BY <2>2, <3>1, KeptSame DEF HistoryInv
  <2>3. CASE \E r \in running : RunTransition(r)
    <3>1. PICK r \in running : RunTransition(r)
      BY <2>3
    <3>2. up
      BY <3>1 DEF HistoryInv, DriverInv, DownIsEmpty
    <3>3. CASE ActuatorReturns(r) \/ NodeConfirmed(r) \/ ActuatorErrs(r)
      BY <2>2, <3>3 DEF ActuatorReturns, NodeConfirmed, ActuatorErrs, memory, history, store
    <3>4. ASSUME NEW failed \in BOOLEAN, Complete(r, failed)
          PROVE  KeptInv'
      BY <2>2, <3>2, <3>4 DEF Complete, memory, history, store
    <3> QED
      BY <3>1, <3>3, <3>4 DEF RunTransition, Finish, Timeout
  <2>4. CASE ReconcileDescribe \/ (\E in \in described : ReconcileApply(in))
    BY <2>2, <2>4 DEF ReconcileDescribe, ReconcileApply, memory, history, store
  <2>5. CASE (\E q \in wire : Land(q)) \/ UNCHANGED vars
    BY <2>2, <2>5 DEF Land, memory, history, vars, store
  <2>6. CASE BootFresh \/ BootStored
    BY <2>6, KeptBoot
  <2>7. CASE Crash
    BY <2>7, KeptCrash
  <2> QED
    BY <2>1, <2>3, <2>4, <2>5, <2>6, <2>7 DEF Next
<1>4. DiskCurrent'
  BY DiskNext DEF HistoryInv
<1> QED
  BY <1>1, <1>2, <1>3, <1>4 DEF HistoryInv

LEMMA HistoryAlways == Spec => []HistoryInv
BY HistoryInit, HistoryNext, PTL DEF Spec

\* The snapshot on disk is memory's, unless the last Save failed: no handler lets
\* Server.mu go with a change it has not saved.
THEOREM DiskIsCurrent == Spec => []DiskCurrent
<1>1. HistoryInv => DiskCurrent
  BY DEF HistoryInv
<1> QED
  BY <1>1, HistoryAlways, PTL

\* Unless a failed save was lost with the process, a restarted provider fences
\* from the newest token it ever admitted (checkFenceLocked persists the mark of
\* a refused call too, server.go:638-662).
THEOREM FencesAreDurable == Spec => []FencesDurable
<1>1. HistoryInv => FencesDurable
  BY DEF HistoryInv, KeptInv, CurFences, FencesDurable
<1> QED
  BY <1>1, HistoryAlways, PTL

\* What one shard got accepted on one machine was accepted in token order, over
\* any number of restarts.
THEOREM AcceptedAreInTokenOrder == Spec => []AcceptedInTokenOrder
<1>1. HistoryInv => AcceptedInTokenOrder
  BY DEF HistoryInv, KeptInv, OrderInv, AcceptedInTokenOrder
<1> QED
  BY <1>1, HistoryAlways, PTL

\* An operation id is minted once, and every acknowledgement, first or repeated,
\* names an operation that was accepted.
THEOREM OpIdsAreUnique == Spec => []OpIdsUnique
<1>1. HistoryInv => OpIdsUnique
  BY DEF HistoryInv, KeptInv, OpInv, AckOf, OpIdsUnique
<1> QED
  BY <1>1, HistoryAlways, PTL
=============================================================================
