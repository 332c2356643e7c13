---------------------------- MODULE KitRecordProofs ----------------------------
(***************************************************************************)
(* Theorems about what the kit's records say: their shape, the edges they  *)
(* move along, the substrate behind them, and the contract they implement. *)
(***************************************************************************)
EXTENDS ProviderKitProofs, ProviderKitContract

-----------------------------------------------------------------------------
(* The shape of a record.                                                   *)

RecordOK(rec) ==
    /\ rec.state = Absent => rec = NoMachine
    /\ rec.state \in Bound => rec.cluster # NoCluster
    /\ rec.state \notin Bound \union {"Failed"} =>
         rec.cluster = NoCluster /\ rec.metadata = NoMeta
    /\ rec.state \in {"Speculative", "Creating"} => rec.host = NoHost
    /\ rec.state \in Bound \union {"Idle", "Deleting"} => rec.host # NoHost
    /\ rec.price >= 0

RecordInv == \A m \in Machines : RecordOK(machines[m]) /\ RecordOK(disk.machines[m])

LEMMA NoMachineOK == NoMachine \in Machine /\ RecordOK(NoMachine)
BY DEF NoMachine, Machine, RecordOK, Bound, Absent

\* Configure binds at accept time; the other three are accepted unbound or keep
\* the binding they drain.
LEMMA BeginOK ==
    ASSUME NEW rec \in Machine, RecordOK(rec), NEW k \in Kinds, NEW b \in Bindings(k),
           CanStart(rec.state, k)
    PROVE  RecordOK(Begin(rec, k, b[1], b[2]))
<1> USE DEF RecordOK, Begin, CanStart, Transitional, Kinds, Machine, Bound, Absent
<1>1. CASE k = "configure"
  <2>1. b[1] # NoCluster
    BY <1>1, NullsAssumption DEF Bindings
  <2> QED
    BY <1>1, <2>1
<1>2. CASE k = "create"
  BY <1>2
<1>3. CASE k = "drain"
  BY <1>3
<1>4. CASE k = "delete"
  BY <1>4
<1> QED
  BY <1>1, <1>2, <1>3, <1>4

\* A create gives the record the host its operation made; a drain unbinds it.
LEMMA SettleOK ==
    ASSUME NEW rec \in Machine, RecordOK(rec), NEW req \in Request,
           rec.state = Transitional[req.kind]
    PROVE  RecordOK(Settle(rec, req))
<1>1. req.kind \in Kinds /\ req.op # NoHost
  BY NullsAssumption DEF Request
<1> USE DEF RecordOK, Settle, Transitional, Kinds, Machine, Bound, Absent
<1>2. CASE req.kind = "create"
  BY <1>1, <1>2
<1>3. CASE req.kind = "configure"
  BY <1>1, <1>3
<1>4. CASE req.kind = "drain"
  BY <1>1, <1>4
<1>5. CASE req.kind = "delete"
  BY <1>1, <1>5
<1> QED
  BY <1>1, <1>2, <1>3, <1>4, <1>5

LEMMA FailOK ==
    ASSUME NEW rec \in Machine, RecordOK(rec)
    PROVE  RecordOK(Fail(rec))
BY DEF RecordOK, Fail, Machine, Bound, Absent

LEMMA RecoverOK ==
    ASSUME NEW rec \in Machine, RecordOK(rec)
    PROVE  RecordOK(Recover(rec))
BY FailOK DEF Recover

LEMMA ToMachineOK ==
    ASSUME NEW in \in [host : Hosts \union {NoHost}, price : Prices], Valid(in)
    PROVE  RecordOK(ToMachine(in))
BY TokensAssumption DEF Valid, ToMachine, NoMachine, RecordOK, Bound, Absent

LEMMA RefreshOK ==
    ASSUME NEW rec \in Machine, RecordOK(rec), rec.state # Absent,
           NEW in \in [host : Hosts \union {NoHost}, price : Prices], Valid(in)
    PROVE  RecordOK(Refresh(rec, in))
BY TokensAssumption DEF Valid, Refresh, RecordOK, Machine

LEMMA RefreshKeeps ==
    ASSUME NEW rec \in Machine, NEW in
    PROVE  /\ Refresh(rec, in).state = rec.state
           /\ Refresh(rec, in).host = rec.host
           /\ Refresh(rec, in).cluster = rec.cluster
           /\ Refresh(rec, in).metadata = rec.metadata
BY DEF Refresh, Machine

\* What a Reconcile leaves of each record.
LEMMA ReconciledRecord ==
    ASSUME TypeOK, NEW in \in described, ReconcileApply(in), NEW m \in Machines
    PROVE  \/ machines'[m] = machines[m]
           \/ /\ m \in DOMAIN in /\ Valid(in[m])
              /\ in[m] \in [host : Hosts \union {NoHost}, price : Prices]
              /\ \/ machines[m].state = Absent /\ machines'[m] = ToMachine(in[m])
                 \/ machines[m].state # Absent /\ machines'[m] = Refresh(machines[m], in[m])
<1> DEFINE valid == {n \in DOMAIN in : Valid(in[n])}
           added == {n \in valid : ~Known(n)}
           moved == {n \in valid : Known(n) /\ machines[n].price # in[n].price}
<1>1. PICK S \in SUBSET Machines :
        in \in [S -> [host : Hosts \union {NoHost}, price : Prices]]
  BY DEF TypeOK
<1>2. machines' = [n \in Machines |-> IF n \in added THEN ToMachine(in[n])
                                      ELSE IF n \in moved THEN Refresh(machines[n], in[n])
                                      ELSE machines[n]]
  BY DEF ReconcileApply
<1>3. \A n \in added : n \in DOMAIN in /\ Valid(in[n]) /\ machines[n].state = Absent
  BY DEF Known
<1>4. \A n \in moved : n \in DOMAIN in /\ Valid(in[n]) /\ machines[n].state # Absent
  BY DEF Known
<1>5. \A n \in DOMAIN in : in[n] \in [host : Hosts \union {NoHost}, price : Prices]
  BY <1>1
<1> HIDE DEF added, moved
<1> QED
  BY <1>2, <1>3, <1>4, <1>5

\* What a fresh start leaves of each record: an id Describe showed, or none.
LEMMA SeededRecord ==
    ASSUME TypeOK, BootFresh, NEW m \in Machines
    PROVE  \/ machines'[m] = NoMachine
           \/ \E in \in [host : Hosts \union {NoHost}, price : Prices] :
                in.host = Seen(m) /\ Valid(in) /\ machines'[m] = ToMachine(in)
<1>0. PICK S \in SUBSET Machines : \E price \in [S -> Prices] :
        /\ \A n \in S : Valid(Instances(S, price)[n])
        /\ machines' = [n \in Machines |->
                           IF n \in S THEN ToMachine(Instances(S, price)[n]) ELSE NoMachine]
  BY DEF BootFresh
<1>1. PICK price \in [S -> Prices] :
        /\ \A n \in S : Valid(Instances(S, price)[n])
        /\ machines' = [n \in Machines |->
                           IF n \in S THEN ToMachine(Instances(S, price)[n]) ELSE NoMachine]
  BY <1>0
<1>2. CASE m \in S
  <2>1. hosts \in [Machines -> SUBSET Hosts]
    BY DEF TypeOK
  <2>2. Instances(S, price) \in [S -> [host : Hosts \union {NoHost}, price : Prices]]
    BY <2>1, InstancesType
  <2>3. Instances(S, price)[m].host = Seen(m)
    BY <1>2 DEF Instances
  <2> QED
    BY <1>1, <1>2, <2>2, <2>3
<1>3. CASE m \notin S
  BY <1>1, <1>3
<1> QED
  BY <1>2, <1>3

LEMMA RecordInit == Init => RecordInv
BY NoMachineOK DEF Init, RecordInv, EmptySnapshot

\* Save writes what memory holds.
LEMMA RecordSaved ==
    ASSUME RecordInv, \A m \in Machines : RecordOK(machines'[m]), Persist \/ UNCHANGED disk
    PROVE  RecordInv'
BY DEF RecordInv, Persist, Snapshot

LEMMA RecordNext == TypeOK /\ RecordInv /\ [Next]_vars => RecordInv'
<1> SUFFICES ASSUME TypeOK, RecordInv, [Next]_vars PROVE RecordInv'
  OBVIOUS
<1>0. \A m \in Machines :
        /\ machines[m] \in Machine /\ disk.machines[m] \in Machine
        /\ RecordOK(machines[m]) /\ RecordOK(disk.machines[m])
  BY DEF TypeOK, Snapshots, RecordInv
<1>1. ASSUME UNCHANGED machines, Persist \/ UNCHANGED disk PROVE RecordInv'
  BY <1>0, <1>1, RecordSaved
<1>2. CASE \E k \in Kinds, m \in Machines, f \in Tokens \union {ZeroToken} : Dispatch(k, m, f)
  <2>1. PICK k \in Kinds, m \in Machines, f \in Tokens \union {ZeroToken} : Dispatch(k, m, f)
    BY <1>2
  <2>2. CASE Refuse(k, m, f) \/ RetryAck(k, m, f)
    BY <1>1, <2>2 DEF Refuse, RetryAck, PersistIf, store
  <2>3. CASE \E b \in Bindings(k) : Accept(k, m, f, b[1], b[2])
    <3>1. PICK b \in Bindings(k) : Accept(k, m, f, b[1], b[2])
      BY <2>3
    <3>2. /\ CanStart(machines[m].state, k) /\ Persist
          /\ machines' = [machines EXCEPT ![m] = Begin(machines[m], k, b[1], b[2])]
      BY <3>1 DEF Accept
    <3>3. RecordOK(Begin(machines[m], k, b[1], b[2]))
      BY <1>0, <3>2, BeginOK
    <3>4. \A n \in Machines : RecordOK(machines'[n])
      BY <1>0, <3>2, <3>3 DEF TypeOK
    <3> QED
      BY <3>2, <3>4, RecordSaved
  <2> QED
    BY <2>1, <2>2, <2>3 DEF Dispatch
<1>3. CASE \E r \in running : RunTransition(r)
  <2>1. PICK r \in running : RunTransition(r)
    BY <1>3
  <2>2. CASE ActuatorReturns(r) \/ NodeConfirmed(r) \/ ActuatorErrs(r)
    BY <1>1, <2>2 DEF ActuatorReturns, NodeConfirmed, ActuatorErrs, memory, store
  <2>3. ASSUME NEW failed \in BOOLEAN, Complete(r, failed) PROVE RecordInv'
    <3>1. r.req \in Request /\ r.req.id \in Machines
      BY DEF TypeOK, Request
    <3>2. CASE machines[r.req.id].state = Transitional[r.req.kind]
      <4>1. /\ machines' = [machines EXCEPT ![r.req.id] =
                              IF failed THEN Fail(machines[r.req.id])
                              ELSE Settle(machines[r.req.id], r.req)]
            /\ Persist
        BY <2>3, <3>2 DEF Complete
      <4>2. RecordOK(Fail(machines[r.req.id])) /\ RecordOK(Settle(machines[r.req.id], r.req))
        BY <1>0, <3>1, <3>2, FailOK, SettleOK
      <4>3. \A n \in Machines : RecordOK(machines'[n])
        BY <1>0, <4>1, <4>2 DEF TypeOK
      <4> QED
        BY <4>1, <4>3, RecordSaved
    <3>3. CASE machines[r.req.id].state # Transitional[r.req.kind]
      BY <1>1, <2>3, <3>3 DEF Complete, memory, store
    <3> QED
      BY <3>2, <3>3
  <2> QED
    BY <2>1, <2>2, <2>3 DEF RunTransition, Finish, Timeout
<1>4. CASE ReconcileDescribe \/ (\E q \in wire : Land(q)) \/ UNCHANGED vars
  BY <1>1, <1>4 DEF ReconcileDescribe, Land, memory, vars, store
<1>5. CASE \E in \in described : ReconcileApply(in)
  <2>1. PICK in \in described : ReconcileApply(in)
    BY <1>5
  <2>2. \A m \in Machines : RecordOK(machines'[m])
    BY <1>0, <2>1, ReconciledRecord, ToMachineOK, RefreshOK
  <2>3. Persist \/ UNCHANGED disk
    BY <2>1 DEF ReconcileApply, PersistIf, store
  <2> QED
    BY <2>2, <2>3, RecordSaved
<1>6. CASE BootFresh
  <2>1. \A m \in Machines : RecordOK(machines'[m])
    BY <1>6, SeededRecord, ToMachineOK, NoMachineOK
  <2> QED
    BY <1>6, <2>1, RecordSaved DEF BootFresh
<1>7. CASE BootStored
  <2>1. /\ machines' = [m \in Machines |-> Recover(disk.machines[m])]
        /\ Persist \/ UNCHANGED disk
    BY <1>7 DEF BootStored, PersistIf, store
  <2>2. \A m \in Machines : RecordOK(machines'[m])
    BY <1>0, <2>1, RecoverOK
  <2> QED
    BY <2>1, <2>2, RecordSaved
<1>8. CASE Crash
  <2>1. machines' = EmptySnapshot.machines /\ UNCHANGED disk
    BY <1>8 DEF Crash
  <2> QED
    BY <2>1, RecordSaved, NoMachineOK DEF EmptySnapshot
<1> QED
  BY <1>2, <1>3, <1>4, <1>5, <1>6, <1>7, <1>8 DEF Next

LEMMA RecordAlways == Spec => [](TypeOK /\ RecordInv)
BY TypeInit, TypeNext, RecordInit, RecordNext, PTL DEF Spec

\* What a reader sees has the shape too: a restart only fails what it cut short.
LEMMA ViewOK ==
    ASSUME TypeOK, RecordInv, NEW m \in Machines
    PROVE  View[m] \in Machine /\ RecordOK(View[m])
<1>1. machines[m] \in Machine /\ disk.machines[m] \in Machine
  BY DEF TypeOK, Snapshots
<1> QED
  BY <1>1, RecoverType, RecoverOK DEF View, RecordInv

\* A machine has a cluster exactly while it is bound to one, from the accepted
\* Configure (server.go sets it before the goroutine starts) to the end of the
\* Drain; cluster and metadata go together.
THEOREM BindingsSpan == Spec => []BindingSpan
<1>1. TypeOK /\ RecordInv => BindingSpan
  BY ViewOK DEF RecordOK, BindingSpan
<1> QED
  BY <1>1, RecordAlways, PTL

\* Whatever prices and hosts the substrate reports, a listed record is priced and
\* has a host exactly in the states that say so: Instance.validate refuses the
\* rest and Reconcile never takes a host over into a known record.
THEOREM RecordsAreInShape == Spec => []RecordsInShape
<1>1. TypeOK /\ RecordInv => RecordsInShape
  BY ViewOK DEF RecordOK, RecordsInShape, Machine, States, StableStates, TransitionalStates, Bound
<1> QED
  BY <1>1, RecordAlways, PTL

-----------------------------------------------------------------------------
(* The edges a record moves along.                                          *)

\* While the process runs a reader sees memory, which no step of a save touches.
LEMMA ViewSame ==
    ASSUME UNCHANGED <<up, machines>>, up \/ UNCHANGED disk
    PROVE  View' = View
BY DEF View

\* A restart shows nothing a reader of the stored snapshot would not expect.
LEMMA ViewBootStored ==
    ASSUME BootStored
    PROVE  View' = View
BY DEF BootStored, View

LEMMA ViewBootFresh ==
    ASSUME BootFresh, NEW m \in Machines
    PROVE  View'[m] = machines'[m] /\ View[m] = Recover(disk.machines[m])
           /\ View[m].state = Absent
<1>1. View'[m] = machines'[m] /\ View[m] = Recover(disk.machines[m])
  BY DEF BootFresh, View
<1>2. disk.machines[m].state = Absent
  BY DEF BootFresh, IsFresh
<1> QED
  BY <1>1, <1>2 DEF Recover, TransitionalStates, Absent

\* A crash shows the transitions it cut short as failed, unless the last save is
\* lost with the process.
LEMMA ViewCrash ==
    ASSUME DiskCurrent, Crash, ~lost', NEW m \in Machines
    PROVE  View[m] = machines[m] /\ View'[m] = Recover(machines[m])
<1>1. up /\ ~behind /\ ~up' /\ disk' = disk
  BY DEF Crash
<1>2. disk.machines = machines
  BY <1>1 DEF DiskCurrent, Snapshot
<1> QED
  BY <1>1, <1>2 DEF View

\* What a completion leaves of each record: nothing changed, or the machine's one
\* goroutine ended its transition.
LEMMA CompletedRecord ==
    ASSUME DriverInv, NEW r \in running, NEW failed \in BOOLEAN, Complete(r, failed)
    PROVE  /\ up /\ up'
           /\ r.req.id \in Machines /\ r.req \in Request
           /\ machines[r.req.id].state = Transitional[r.req.kind]
           /\ machines[r.req.id].host = r.req.host
           /\ machines[r.req.id].cluster = r.req.cluster
           /\ ops[r.req.id][r.req.kind] = r.req.op
           /\ Mine(r.req.id) = {r}
           /\ running' = running \ {r}
           /\ machines' = [machines EXCEPT ![r.req.id] =
                             IF failed THEN Fail(machines[r.req.id])
                             ELSE Settle(machines[r.req.id], r.req)]
           /\ UNCHANGED <<fences, ops, nextOp, described, substrate, lost>>
           /\ Persist
<1>1. r.req \in Request /\ r.req.id \in Machines
  BY DEF DriverInv, TypeOK, Request
<1>2. r \in Mine(r.req.id)
  BY DEF Mine
<1>3. /\ machines[r.req.id].state = Transitional[r.req.kind]
      /\ machines[r.req.id].host = r.req.host
      /\ machines[r.req.id].cluster = r.req.cluster
      /\ ops[r.req.id][r.req.kind] = r.req.op
      /\ Mine(r.req.id) = {r}
  BY <1>1, <1>2 DEF DriverInv, Driven
<1>4. up
  BY DEF DriverInv, DownIsEmpty
<1> QED
  BY <1>1, <1>3, <1>4 DEF Complete, substrate, history

LegalMove(m) == \/ View'[m].state = View[m].state
                \/ <<View[m].state, View'[m].state>> \in LegalEdges

LEMMA LegalNext ==
    ASSUME HistoryInv, [Next]_vars, ~lost', NEW m \in Machines
    PROVE  LegalMove(m)
<1>0. DriverInv /\ DiskCurrent /\ TypeOK /\ machines[m] \in Machine
  BY DEF HistoryInv, DriverInv, TypeOK
<1>1. ASSUME View' = View PROVE LegalMove(m)
  BY <1>1 DEF LegalMove
<1>2. CASE \E k \in Kinds, n \in Machines, f \in Tokens \union {ZeroToken} : Dispatch(k, n, f)
  <2>1. PICK k \in Kinds, n \in Machines, f \in Tokens \union {ZeroToken} : Dispatch(k, n, f)
    BY <1>2
  <2>2. CASE Refuse(k, n, f) \/ RetryAck(k, n, f)
    BY <1>1, <2>2, ViewSame DEF Refuse, RetryAck
  <2>3. CASE \E b \in Bindings(k) : Accept(k, n, f, b[1], b[2])
    <3>1. PICK b \in Bindings(k) : Accept(k, n, f, b[1], b[2])
      BY <2>3
    <3>2. /\ up /\ up' /\ CanStart(machines[n].state, k)
          /\ machines' = [machines EXCEPT ![n] = Begin(machines[n], k, b[1], b[2])]
      BY <3>1 DEF Accept
    <3>3. View = machines /\ View' = machines'
      BY <3>2 DEF View
    <3>4. CASE m # n
      BY <1>0, <3>2, <3>3, <3>4 DEF LegalMove, TypeOK
    <3>5. CASE m = n
      <4>1. machines'[m].state = Transitional[k]
        BY <1>0, <3>2, <3>5, BeginType DEF TypeOK
      <4>2. <<machines[m].state, Transitional[k]>> \in LegalEdges
        BY <3>2, <3>5 DEF CanStart, Transitional, Kinds, LegalEdges
      <4> QED
        BY <3>3, <4>1, <4>2 DEF LegalMove
    <3> QED
      BY <3>4, <3>5
  <2> QED
    BY <2>1, <2>2, <2>3 DEF Dispatch
<1>3. CASE \E r \in running : RunTransition(r)
  <2>1. PICK r \in running : RunTransition(r)
    BY <1>3
  <2>2. CASE ActuatorReturns(r) \/ NodeConfirmed(r) \/ ActuatorErrs(r)
    BY <1>1, <2>2, ViewSame DEF ActuatorReturns, NodeConfirmed, ActuatorErrs, memory, store
  <2>3. ASSUME NEW failed \in BOOLEAN, Complete(r, failed) PROVE LegalMove(m)
    <3>1. /\ View = machines /\ View' = machines'
          /\ machines[r.req.id].state = Transitional[r.req.kind] /\ r.req.kind \in Kinds
          /\ machines' = [machines EXCEPT ![r.req.id] =
                            IF failed THEN Fail(machines[r.req.id])
                            ELSE Settle(machines[r.req.id], r.req)]
      BY <1>0, <2>3, CompletedRecord DEF View, Request
    <3>2. CASE m # r.req.id
      BY <1>0, <3>1, <3>2 DEF LegalMove, TypeOK
    <3>3. CASE m = r.req.id
      <4>1. /\ Fail(machines[m]).state = "Failed"
            /\ Settle(machines[m], r.req).state = Stable[r.req.kind]
        BY <1>0, <2>3, <3>3, FailType, SettleType, CompletedRecord
      <4>2. machines'[m].state \in {"Failed", Stable[r.req.kind]}
        BY <1>0, <3>1, <3>3, <4>1 DEF TypeOK
      <4> QED
        BY <3>1, <3>3, <4>2 DEF LegalMove, LegalEdges, Transitional, Stable, Kinds,
                                TransitionalStates
    <3> QED
      BY <3>2, <3>3
  <2> QED
    BY <2>1, <2>2, <2>3 DEF RunTransition, Finish, Timeout
<1>4. CASE ReconcileDescribe \/ (\E q \in wire : Land(q)) \/ UNCHANGED vars
  BY <1>1, <1>4, ViewSame DEF ReconcileDescribe, Land, memory, vars, store
<1>5. CASE \E in \in described : ReconcileApply(in)
  <2>1. PICK in \in described : ReconcileApply(in)
    BY <1>5
  <2>2. View = machines /\ View' = machines'
    BY <2>1 DEF ReconcileApply, View
  <2>3. \/ machines'[m].state = machines[m].state
        \/ machines[m].state = Absent /\ machines'[m].state \in {"Speculative", "Idle"}
    BY <1>0, <2>1, ReconciledRecord, ToMachineType, RefreshKeeps
  <2> QED
    BY <2>2, <2>3 DEF LegalMove, LegalEdges
<1>6. CASE BootFresh
  <2>1. machines'[m].state \in {Absent, "Speculative", "Idle"}
    BY <1>0, <1>6, SeededRecord, ToMachineType DEF NoMachine
  <2> QED
    BY <1>6, <2>1, ViewBootFresh DEF LegalMove, LegalEdges
<1>7. CASE BootStored
  BY <1>1, <1>7, ViewBootStored
<1>8. CASE Crash
  <2>1. View[m] = machines[m] /\ View'[m] = Recover(machines[m])
    BY <1>0, <1>8, ViewCrash
  <2> QED
    BY <1>0, <2>1, FailType DEF Recover, LegalMove, LegalEdges
<1> QED
  BY <1>2, <1>3, <1>4, <1>5, <1>6, <1>7, <1>8 DEF Next

\* A reader sees a machine move only along the edges canStart and the completions
\* allow, also when the step is a crash, a restart or another caller's.
THEOREM StepsAreLegal == Spec => LegalSteps
<1>1. ASSUME HistoryInv, [Next]_vars, ~lost' PROVE LegalStep
  BY <1>1, LegalNext DEF LegalMove, LegalStep
<1>2. HistoryInv /\ [Next]_vars => [~lost' => LegalStep]_vars
  BY <1>1
<1> QED
  BY <1>2, HistoryAlways, PTL DEF Spec, LegalSteps

-----------------------------------------------------------------------------
(* The substrate behind a record. While a transition runs, the hosts and    *)
(* the node of its machine are what its one request leaves them before or   *)
(* after it lands; at rest, no request of the machine can move them.        *)

Resting == StableStates \union {Absent}

Wire(m) == {q \in wire : q.id = m}

\* Requests whose landing matters: a Configure no gate waits for moves only the
\* node, which then nothing is promised of.
Counts(q) == q.kind # "configure" \/ HasReadiness

HostSet(h) == IF h = NoHost THEN {} ELSE {h}

\* The hosts and the node a request finds, and those it leaves.
HostsAfter(q) == CASE q.kind = "create" -> {q.op}
                   [] q.kind = "delete" -> {}
                   [] OTHER             -> HostSet(q.host)
NodeBefore(q) == IF q.kind = "drain" THEN q.cluster ELSE NoCluster
NodeAfter(q) == IF q.kind = "configure" THEN q.cluster ELSE NoCluster

AtRest(m) ==
    /\ \A q \in Wire(m) : ~Counts(q)
    /\ hosts[m] = HostSet(IF View[m].state = Absent THEN Seen(m) ELSE View[m].host)
    /\ HasReadiness => node[m] = View[m].cluster

Underway(m, r) ==
    /\ \A q \in Wire(m) : Counts(q) => q = r.req
    /\ hosts[m] = IF r.req \in Wire(m) THEN HostSet(r.req.host) ELSE HostsAfter(r.req)
    /\ HasReadiness =>
         node[m] = IF r.req \in Wire(m) THEN NodeBefore(r.req) ELSE NodeAfter(r.req)
    /\ r.phase = "confirming" => r.req.kind = "configure"
    /\ r.phase = "ok" /\ Counts(r.req) => r.req \notin Wire(m)

\* What Describe showed of an id the kit does not know yet is still so.
Reported(m) ==
    machines[m].state = Absent =>
      \A in \in described : m \in DOMAIN in => in[m].host = Seen(m)

Tracks(m) ==
    /\ View[m].state \in Resting => AtRest(m)
    /\ \A r \in Mine(m) : Underway(m, r)
    /\ Reported(m)

SubstrateInv == ~lost => \A m \in Machines : Tracks(m)

KitInv == HistoryInv /\ RecordInv /\ SubstrateInv

\* The facts about one machine the steps below start from.
LEMMA KitFacts ==
    ASSUME KitInv, NEW m \in Machines
    PROVE  /\ TypeOK /\ DriverInv /\ DiskCurrent
           /\ machines[m] \in Machine /\ RecordOK(machines[m])
           /\ View[m] \in Machine /\ RecordOK(View[m])
           /\ ~up => Mine(m) = {} /\ described = {}
           /\ machines[m].state \notin TransitionalStates => Mine(m) = {}
           /\ \A r \in Mine(m) :
                /\ up /\ Mine(m) = {r} /\ r \in running
                /\ r.req.id = m /\ r.req \in Request
                /\ machines[m].state = Transitional[r.req.kind]
                /\ machines[m].host = r.req.host /\ machines[m].cluster = r.req.cluster
<1>1. TypeOK /\ DriverInv /\ DiskCurrent /\ RecordInv
  BY DEF KitInv, HistoryInv, DriverInv
<1>2. machines[m] \in Machine /\ RecordOK(machines[m])
  BY <1>1 DEF TypeOK, RecordInv
<1>3. View[m] \in Machine /\ RecordOK(View[m])
  BY <1>1, ViewOK
<1>4. ~up => running = {} /\ described = {}
  BY <1>1 DEF DriverInv, DownIsEmpty
<1>5. \A r \in Mine(m) : r \in running /\ r.req.id = m /\ r.req \in Request
  BY <1>1 DEF Mine, TypeOK
<1> QED
  BY <1>1, <1>2, <1>3, <1>4, <1>5 DEF DriverInv, Driven, Mine

\* A step that leaves the machine, its goroutine and its substrate alone.
LEMMA TracksSame ==
    ASSUME NEW m \in Machines, Tracks(m),
           View'[m].state = View[m].state, View'[m].host = View[m].host,
           View'[m].cluster = View[m].cluster, Mine(m)' = Mine(m), Wire(m)' = Wire(m),
           hosts'[m] = hosts[m], node'[m] = node[m],
           described' = {} \/ (described' \subseteq described /\
                               (machines'[m].state = Absent => machines[m].state = Absent))
    PROVE  Tracks(m)'
BY DEF Tracks, AtRest, Underway, Reported, Seen

LEMMA TracksInit == Init => \A m \in Machines : Tracks(m)
<1> SUFFICES ASSUME Init, NEW m \in Machines PROVE Tracks(m)
  OBVIOUS
<1>1. Mine(m) = {} /\ Wire(m) = {} /\ described = {} /\ node[m] = NoCluster
  BY DEF Init, Mine, Wire
<1>2. View[m].state = Absent /\ View[m].cluster = NoCluster
  BY DEF Init, View, EmptySnapshot, NoMachine, Recover, TransitionalStates, Absent
<1>3. hosts[m] = HostSet(Seen(m))
  <2>1. hosts[m] \in {{}, {PreHost}}
    BY DEF Init
  <2> QED
    BY <2>1, NullsAssumption DEF Seen, HostSet
<1> QED
  BY <1>1, <1>2, <1>3 DEF Tracks, AtRest, Reported

LEMMA TracksAccept ==
    ASSUME KitInv, ~lost, NEW k \in Kinds, NEW m \in Machines,
           NEW f \in Tokens \union {ZeroToken}, NEW b \in Bindings(k),
           Accept(k, m, f, b[1], b[2]), NEW n \in Machines
    PROVE  Tracks(n)'
<1>0. PICK req : req = [op |-> nextOp + 1, id |-> m, kind |-> k,
                        host |-> machines'[m].host, cluster |-> machines'[m].cluster]
  OBVIOUS
<1> DEFINE r == [req |-> req, phase |-> "calling"]
<1>1. /\ up /\ up'
      /\ CanStart(machines[m].state, k)
      /\ running' = running \union {r}
      /\ wire' = wire \union {req}
      /\ machines' = [machines EXCEPT ![m] = Begin(machines[m], k, b[1], b[2])]
      /\ UNCHANGED <<described, hosts, node>>
  BY <1>0 DEF Accept
<1>2. /\ req.id = m /\ req.kind = k /\ r.req = req /\ r.phase = "calling"
      /\ req.host = machines'[m].host /\ req.cluster = machines'[m].cluster
  BY <1>0
<1> HIDE DEF r
<1>3. View = machines /\ View' = machines'
  BY <1>1 DEF View
<1>4. Tracks(n)
  BY DEF KitInv, SubstrateInv
<1>5. CASE n # m
  <2>1. machines'[n] = machines[n]
    BY <1>1, <1>5, KitFacts DEF TypeOK
  <2>2. Mine(n)' = Mine(n) /\ Wire(n)' = Wire(n)
    BY <1>1, <1>2, <1>5 DEF Mine, Wire
  <2> QED
    BY <1>1, <1>3, <1>4, <2>1, <2>2, TracksSame
<1>6. CASE n = m
  <2>1. /\ machines[m].state \in Resting \ {Absent}
        /\ machines[m].state \notin TransitionalStates
    BY <1>1 DEF CanStart, Resting, StableStates, TransitionalStates, Absent
  <2>2. /\ machines'[m] = Begin(machines[m], k, b[1], b[2])
        /\ machines'[m].state = Transitional[k] /\ Transitional[k] \in TransitionalStates
        /\ machines'[m].host = machines[m].host
        /\ k # "configure" => machines'[m].cluster = machines[m].cluster
    <3>1. machines[m] \in Machine /\ machines \in [Machines -> Machine]
      BY KitFacts DEF TypeOK
    <3> QED
      BY <1>1, <3>1, BeginType DEF Begin, Machine
  <2>3. AtRest(m)
    BY <1>3, <1>4, <1>6, <2>1 DEF Tracks
  <2>4. Mine(m)' = {r} /\ Wire(m)' = Wire(m) \union {req}
    BY <1>1, <1>2, <2>1, KitFacts DEF Mine, Wire
  <2>5. RecordOK(machines[m])
    BY KitFacts
  <2>6. hosts[m] = HostSet(req.host)
    BY <1>2, <1>3, <2>1, <2>2, <2>3 DEF AtRest
  <2>7. HasReadiness => node[m] = NodeBefore(req)
    <3>1. HasReadiness => node[m] = machines[m].cluster
      BY <1>3, <2>3 DEF AtRest
    <3>2. k # "drain" => machines[m].cluster = NoCluster
      BY <1>1, <2>5 DEF RecordOK, CanStart, Bound, Kinds
    <3> QED
      BY <1>2, <2>2, <3>1, <3>2 DEF NodeBefore, Kinds
  <2>8. Underway(m, r)'
    <3>1. \A q \in Wire(m)' : Counts(q) => q = req
      BY <2>3, <2>4 DEF AtRest
    <3>2. req \in Wire(m)'
      BY <2>4
    <3>3. hosts'[m] = hosts[m] /\ node'[m] = node[m]
      BY <1>1
    <3> QED
      BY <1>2, <2>6, <2>7, <3>1, <3>2, <3>3 DEF Underway
  <2>9. View'[m].state \notin Resting /\ machines'[m].state # Absent
    BY <1>3, <2>2 DEF Resting, StableStates, TransitionalStates, Absent
  <2> QED
    BY <1>6, <2>4, <2>8, <2>9 DEF Tracks, Reported
<1> QED
  BY <1>5, <1>6

\* A goroutine learns of its request: it is done only when the request is, or
\* when nothing depends on it.
LEMMA TracksBackend ==
    ASSUME KitInv, ~lost, NEW r \in running,
           ActuatorReturns(r) \/ NodeConfirmed(r) \/ ActuatorErrs(r), NEW n \in Machines
    PROVE  Tracks(n)'
<1>1. PICK p \in {"calling", "confirming", "ok", "err"} :
        /\ running' = (running \ {r}) \union {[r EXCEPT !.phase = p]}
        /\ p = "confirming" => r.req.kind = "configure"
        /\ p = "ok" /\ Counts(r.req) =>
             \/ r.req \notin wire
             \/ r.phase = "confirming" /\ node[r.req.id] = r.req.cluster
  BY DEF ActuatorReturns, NodeConfirmed, ActuatorErrs, Counts
<1>2. UNCHANGED <<up, machines, described, disk, wire, hosts, node>>
  BY DEF ActuatorReturns, NodeConfirmed, ActuatorErrs, memory, store, substrate
<1> DEFINE s == [r EXCEPT !.phase = p]
<1>3. s.req = r.req /\ s.phase = p
  BY KitFacts DEF TypeOK
<1> HIDE DEF s
<1>4. Tracks(n) /\ View' = View /\ Wire(n)' = Wire(n)
  BY <1>2, ViewSame DEF KitInv, SubstrateInv, Wire
<1>5. CASE n # r.req.id
  <2>1. Mine(n)' = Mine(n)
    BY <1>1, <1>3, <1>5 DEF Mine, s
  <2> QED
    BY <1>2, <1>4, <2>1, TracksSame
<1>6. CASE n = r.req.id
  <2>1. r \in Mine(n)
    BY <1>6 DEF Mine
  <2>2. Mine(n) = {r} /\ Underway(n, r)
    BY <1>4, <2>1, KitFacts DEF Tracks
  <2>3. Mine(n)' = {s}
    BY <1>1, <1>3, <1>6, <2>2 DEF Mine, s
  <2>4. p = "ok" /\ Counts(r.req) => r.req \notin Wire(n)
    <3> SUFFICES ASSUME p = "ok", Counts(r.req), r.phase = "confirming",
                        node[n] = r.req.cluster
                 PROVE  r.req \notin Wire(n)
      BY <1>1, <1>6 DEF Wire
    <3>1. r.req.kind = "configure" /\ HasReadiness
      BY <2>2 DEF Underway, Counts
    <3>2. r.req.cluster # NoCluster
      <4>1. machines[n].state \in Bound /\ machines[n].cluster = r.req.cluster
        BY <2>1, <3>1, KitFacts DEF Transitional, Kinds, Bound
      <4> QED
        BY <4>1, KitFacts DEF RecordOK
    <3> QED
      BY <2>2, <3>1, <3>2 DEF Underway, NodeBefore
  <2>5. Underway(n, s)'
    BY <1>1, <1>2, <1>3, <1>4, <2>2, <2>4 DEF Underway
  <2> QED
    BY <1>2, <1>4, <2>3, <2>5 DEF Tracks, AtRest, Reported, Seen
<1> QED
  BY <1>5, <1>6

\* A transition settles on what its request did; a failed one promises nothing.
LEMMA TracksComplete ==
    ASSUME KitInv, ~lost, NEW r \in running, NEW failed \in BOOLEAN,
           Complete(r, failed), ~failed => r.phase = "ok", NEW n \in Machines
    PROVE  Tracks(n)'
<1> DEFINE m == r.req.id
<1>1. /\ up /\ up' /\ m \in Machines /\ r.req \in Request
      /\ machines[m].state = Transitional[r.req.kind]
      /\ machines[m].host = r.req.host /\ machines[m].cluster = r.req.cluster
      /\ Mine(m) = {r} /\ running' = running \ {r}
      /\ machines' = [machines EXCEPT ![m] = IF failed THEN Fail(machines[m])
                                             ELSE Settle(machines[m], r.req)]
      /\ UNCHANGED <<described, wire, hosts, node>>
  BY CompletedRecord, KitFacts DEF substrate
<1> HIDE DEF m
<1>2. View = machines /\ View' = machines' /\ Wire(n)' = Wire(n) /\ Tracks(n)
  BY <1>1 DEF View, Wire, KitInv, SubstrateInv
<1>3. machines \in [Machines -> Machine]
  BY KitFacts DEF TypeOK
<1>4. CASE n # m
  <2>1. Mine(n)' = Mine(n)
    BY <1>1, <1>4 DEF Mine, m
  <2>2. machines'[n] = machines[n]
    BY <1>1, <1>3, <1>4
  <2> QED
    BY <1>1, <1>2, <2>1, <2>2, TracksSame
<1>5. CASE n = m
  <2>1. Mine(n)' = {}
    BY <1>1, <1>5 DEF Mine
  <2>2. Underway(m, r)
    BY <1>1, <1>2, <1>5 DEF Tracks
  <2>3. CASE failed
    <3>1. machines'[m].state = "Failed"
      BY <1>1, <1>3, <2>3, FailType
    <3> QED
      BY <1>2, <1>5, <2>1, <3>1 DEF Tracks, Reported, Resting, StableStates, Absent
  <2>4. CASE ~failed
    <3>1. /\ machines'[m] = Settle(machines[m], r.req)
          /\ machines'[m].state \in StableStates
      BY <1>1, <1>3, <2>4, SettleType
    <3>2. machines'[m].state # Absent
      BY <3>1 DEF StableStates, Absent
    <3>3. \A q \in Wire(m) : ~Counts(q)
      BY <2>2, <2>4 DEF Underway
    <3>4. /\ machines[m] \in Machine /\ RecordOK(machines[m]) /\ r.req.kind \in Kinds
          /\ r.req.op # NoHost
      BY <1>1, KitFacts, NullsAssumption DEF Request
    <3>5. hosts[m] = HostSet(machines'[m].host)
      <4>1. r.req.kind \in {"create", "delete"} => hosts[m] = HostsAfter(r.req)
        BY <2>2, <3>3 DEF Underway, Counts
      <4>2. CASE r.req.kind = "create"
        BY <3>1, <3>4, <4>1, <4>2 DEF HostsAfter, HostSet, Settle, Machine
      <4>3. CASE r.req.kind = "delete"
        BY <3>1, <3>4, <4>1, <4>3 DEF HostsAfter, HostSet, Settle, Machine
      <4>4. CASE r.req.kind \in {"configure", "drain"}
        <5>1. hosts[m] = HostSet(r.req.host)
          BY <2>2, <4>4 DEF Underway, HostsAfter
        <5>2. machines'[m].host = machines[m].host
          BY <3>1, <3>4, <4>4 DEF Settle, Machine
        <5> QED
          BY <1>1, <5>1, <5>2
      <4> QED
        BY <3>4, <4>2, <4>3, <4>4 DEF Kinds
    <3>6. HasReadiness => node[m] = machines'[m].cluster
      <4> SUFFICES ASSUME HasReadiness PROVE node[m] = machines'[m].cluster
        OBVIOUS
      <4>1. node[m] = NodeAfter(r.req)
        BY <2>2, <3>3 DEF Underway, Counts
      <4>2. CASE r.req.kind = "configure"
        BY <1>1, <3>1, <3>4, <4>1, <4>2 DEF NodeAfter, Settle, Machine
      <4>3. CASE r.req.kind = "drain"
        BY <3>1, <3>4, <4>1, <4>3 DEF NodeAfter, Settle, Machine
      <4>4. CASE r.req.kind \in {"create", "delete"}
        <5>1. machines[m].cluster = NoCluster
          BY <1>1, <3>4, <4>4 DEF RecordOK, Transitional, Kinds, Bound
        <5>2. machines'[m].cluster = machines[m].cluster
          BY <3>1, <3>4, <4>4 DEF Settle, Machine
        <5> QED
          BY <4>1, <4>4, <5>1, <5>2 DEF NodeAfter
      <4> QED
        BY <3>4, <4>2, <4>3, <4>4 DEF Kinds
    <3>7. AtRest(m)'
      BY <1>1, <1>2, <1>5, <3>2, <3>3, <3>5, <3>6 DEF AtRest
    <3> QED
      BY <1>5, <2>1, <3>2, <3>7 DEF Tracks, Reported
  <2> QED
    BY <2>3, <2>4
<1> QED
  BY <1>4, <1>5

LEMMA TracksReconcileDescribe ==
    ASSUME KitInv, ~lost, ReconcileDescribe, NEW n \in Machines
    PROVE  Tracks(n)'
<1>1. PICK S \in SUBSET Machines : \E price \in [S -> Prices] : described' = {Instances(S, price)}
  BY DEF ReconcileDescribe
<1>2. PICK price \in [S -> Prices] : described' = {Instances(S, price)}
  BY <1>1
<1>3. UNCHANGED <<up, machines, running, disk, wire, hosts, node>>
  BY DEF ReconcileDescribe, memory, store, substrate
<1>4. Tracks(n) /\ View' = View /\ Mine(n)' = Mine(n) /\ Wire(n)' = Wire(n)
  BY <1>3, ViewSame DEF KitInv, SubstrateInv, Mine, Wire
<1>5. Reported(n)'
  <2>1. n \in S => Instances(S, price)[n].host = Seen(n)
    BY DEF Instances
  <2>2. DOMAIN Instances(S, price) = S
    BY DEF Instances
  <2>3. Seen(n)' = Seen(n)
    BY <1>3 DEF Seen
  <2> QED
    BY <1>2, <2>1, <2>2, <2>3 DEF Reported
<1> QED
  BY <1>3, <1>4, <1>5 DEF Tracks, AtRest, Underway, Seen

\* A record made from what Describe showed of an unknown id is what is there.
LEMMA TracksAdded ==
    ASSUME KitInv, ~lost, NEW n \in Machines, View[n].state = Absent,
           NEW in \in [host : Hosts \union {NoHost}, price : Prices], in.host = Seen(n),
           View'[n] = ToMachine(in), machines'[n] = ToMachine(in), running' = running,
           UNCHANGED substrate, Mine(n) = {}
    PROVE  Tracks(n)'
<1>1. /\ View[n].cluster = NoCluster
      /\ AtRest(n)
  BY KitFacts DEF KitInv, SubstrateInv, Tracks, Resting, RecordOK, Bound, Absent
<1>2. /\ View'[n].state \in {"Speculative", "Idle"}
      /\ View'[n].host = in.host
      /\ View'[n].cluster = NoCluster
  BY DEF ToMachine, NoMachine
<1>3. Wire(n)' = Wire(n) /\ Mine(n)' = {} /\ hosts' = hosts /\ node' = node
  BY DEF Wire, Mine, substrate
<1>4. AtRest(n)'
  BY <1>1, <1>2, <1>3 DEF AtRest, Absent
<1> QED
  BY <1>2, <1>3, <1>4 DEF Tracks, Reported, Absent, ToMachine, NoMachine

LEMMA TracksReconcileApply ==
    ASSUME KitInv, ~lost, NEW in \in described, ReconcileApply(in), NEW n \in Machines
    PROVE  Tracks(n)'
<1>1. /\ up /\ up' /\ running' = running /\ UNCHANGED substrate
      /\ described' \subseteq described
  BY DEF ReconcileApply
<1>2. View = machines /\ View' = machines' /\ Tracks(n)
  BY <1>1 DEF View, KitInv, SubstrateInv
<1>3. Mine(n)' = Mine(n) /\ Wire(n)' = Wire(n) /\ hosts' = hosts /\ node' = node
  BY <1>1 DEF Mine, Wire, substrate
<1>4. CASE machines[n].state = Absent /\ machines'[n] = ToMachine(in[n]) /\ n \in DOMAIN in
           /\ in[n] \in [host : Hosts \union {NoHost}, price : Prices]
  <2>1. in[n].host = Seen(n)
    BY <1>2, <1>4 DEF Tracks, Reported
  <2>2. Mine(n) = {}
    BY <1>4, KitFacts DEF TransitionalStates, Absent
  <2> QED
    BY <1>1, <1>2, <1>4, <2>1, <2>2, TracksAdded
<1>5. CASE \/ machines'[n] = machines[n]
           \/ machines'[n] = Refresh(machines[n], in[n])
  <2>1. /\ machines'[n].state = machines[n].state
        /\ machines'[n].host = machines[n].host
        /\ machines'[n].cluster = machines[n].cluster
    BY <1>5, KitFacts, RefreshKeeps
  <2> QED
    BY <1>1, <1>2, <1>3, <2>1, TracksSame
<1> QED
  BY <1>4, <1>5, KitFacts, ReconciledRecord

\* A start finds the substrate as its records, or the stored ones, say.
LEMMA TracksBoot ==
    ASSUME KitInv, ~lost, BootFresh \/ BootStored, NEW n \in Machines
    PROVE  Tracks(n)'
<1>1. /\ ~up /\ up' /\ running' = running /\ described' = described /\ UNCHANGED substrate
  BY DEF BootFresh, BootStored
<1>2. Mine(n) = {} /\ described = {} /\ Tracks(n)
  BY <1>1, KitFacts DEF KitInv, SubstrateInv
<1>3. Mine(n)' = {} /\ Wire(n)' = Wire(n) /\ hosts' = hosts /\ node' = node
  BY <1>1, <1>2 DEF Mine, Wire, substrate
<1>4. ASSUME View'[n].state = View[n].state, View'[n].host = View[n].host,
             View'[n].cluster = View[n].cluster
      PROVE  Tracks(n)'
  BY <1>1, <1>2, <1>3, <1>4, TracksSame
<1>5. CASE BootStored
  BY <1>4, <1>5, ViewBootStored
<1>6. CASE BootFresh
  <2>1. View'[n] = machines'[n] /\ View[n].state = Absent
    BY <1>6, ViewBootFresh
  <2>2. CASE machines'[n] = NoMachine
    BY <1>4, <2>1, <2>2, KitFacts DEF RecordOK
  <2>3. CASE \E in \in [host : Hosts \union {NoHost}, price : Prices] :
               in.host = Seen(n) /\ Valid(in) /\ machines'[n] = ToMachine(in)
    BY <1>1, <1>2, <2>1, <2>3, TracksAdded
  <2> QED
    BY <1>6, <2>2, <2>3, KitFacts, SeededRecord
<1> QED
  BY <1>5, <1>6

LEMMA TracksCrash ==
    ASSUME KitInv, Crash, ~lost', NEW n \in Machines
    PROVE  Tracks(n)'
<1>1. ~lost /\ up /\ ~up' /\ running' = {} /\ described' = {} /\ UNCHANGED substrate
  BY DEF Crash
<1>2. View[n] = machines[n] /\ View'[n] = Recover(machines[n]) /\ Tracks(n)
  BY <1>1, KitFacts, ViewCrash DEF KitInv, SubstrateInv
<1>3. Mine(n)' = {} /\ Wire(n)' = Wire(n) /\ hosts' = hosts /\ node' = node
  BY <1>1 DEF Mine, Wire, substrate
<1>4. CASE machines[n].state \in TransitionalStates
  <2>1. View'[n].state = "Failed"
    BY <1>2, <1>4, KitFacts, FailType DEF Recover
  <2> QED
    BY <1>1, <1>3, <2>1 DEF Tracks, Reported, Resting, StableStates, Absent
<1>5. CASE machines[n].state \notin TransitionalStates
  <2>1. View'[n] = View[n] /\ Mine(n) = {}
    BY <1>2, <1>5, KitFacts DEF Recover
  <2> QED
    BY <1>1, <1>2, <1>3, <2>1, TracksSame
<1> QED
  BY <1>4, <1>5

\* The one request a running transition waits for lands, or one nothing depends on.
LEMMA TracksLand ==
    ASSUME KitInv, ~lost, NEW q \in wire, Land(q), NEW n \in Machines
    PROVE  Tracks(n)'
<1>1. /\ UNCHANGED <<up, machines, running, described, disk>>
      /\ wire' = wire \ {q}
      /\ hosts' = CASE q.kind = "create" -> [hosts EXCEPT ![q.id] = @ \union {q.op}]
                    [] q.kind = "delete" -> [hosts EXCEPT ![q.id] = @ \ {q.host}]
                    [] OTHER             -> hosts
      /\ node' = CASE q.kind = "configure"           -> [node EXCEPT ![q.id] = q.cluster]
                   [] q.kind \in {"drain", "delete"} -> [node EXCEPT ![q.id] = NoCluster]
                   [] OTHER                          -> node
  BY DEF Land, memory, store
<1>2. /\ q.id \in Machines /\ q.kind \in Kinds
      /\ hosts \in [Machines -> SUBSET Hosts] /\ node \in [Machines -> Clusters \union {NoCluster}]
  BY KitFacts DEF TypeOK, Request
<1>3. Tracks(n) /\ View' = View /\ Mine(n)' = Mine(n)
  BY <1>1, ViewSame DEF KitInv, SubstrateInv, Mine
<1>4. CASE n # q.id
  <2>1. Wire(n)' = Wire(n) /\ hosts'[n] = hosts[n] /\ node'[n] = node[n]
    BY <1>1, <1>2, <1>4 DEF Wire, Kinds
  <2> QED
    BY <1>1, <1>3, <2>1, TracksSame
<1>5. CASE n = q.id
  <2>1. q \in Wire(n) /\ Wire(n)' = Wire(n) \ {q}
    BY <1>1, <1>5 DEF Wire
  <2>2. ~Counts(q) => hosts' = hosts /\ ~HasReadiness
    BY <1>1 DEF Counts
  <2>3. View[n].state \in Resting => AtRest(n)'
    <3> SUFFICES ASSUME View[n].state \in Resting PROVE AtRest(n)'
      OBVIOUS
    <3>1. AtRest(n)
      BY <1>3 DEF Tracks
    <3>2. hosts' = hosts /\ ~HasReadiness
      BY <2>1, <2>2, <3>1 DEF AtRest
    <3>3. Seen(n)' = Seen(n)
      BY <3>2 DEF Seen
    <3> QED
      BY <1>3, <2>1, <3>1, <3>2, <3>3 DEF AtRest
  <2>4. ASSUME NEW r \in Mine(n) PROVE Underway(n, r)'
    <3>1. Underway(n, r)
      BY <1>3, <2>4 DEF Tracks
    <3>2. CASE q = r.req
      <4>1. r.req \in Wire(n) /\ r.req \notin Wire(n)'
        BY <2>1, <3>2
      <4>2. hosts[n] = HostSet(q.host)
        BY <3>1, <3>2, <4>1 DEF Underway
      <4>3. hosts'[n] = HostsAfter(q)
        <5>1. machines[n].host = q.host /\ machines[n].state = Transitional[q.kind]
          BY <2>4, <3>2, KitFacts
        <5>2. q.kind = "create" => q.host = NoHost
          BY <5>1, KitFacts DEF RecordOK, Transitional, Kinds
        <5>3. CASE q.kind = "create"
          BY <1>1, <1>2, <1>5, <4>2, <5>2, <5>3 DEF HostsAfter, HostSet
        <5>4. CASE q.kind = "delete"
          <6>1. hosts'[n] = hosts[n] \ {q.host}
            BY <1>1, <1>2, <1>5, <5>4
          <6> QED
            BY <4>2, <5>4, <6>1 DEF HostsAfter, HostSet
        <5>5. CASE q.kind \in {"configure", "drain"}
          BY <1>1, <4>2, <5>5 DEF HostsAfter
        <5> QED
          BY <1>2, <5>3, <5>4, <5>5 DEF Kinds
      <4>4. HasReadiness => node'[n] = NodeAfter(q)
        <5>1. CASE q.kind = "create"
          BY <1>1, <3>1, <3>2, <4>1, <5>1 DEF Underway, NodeAfter, NodeBefore
        <5>2. CASE q.kind # "create"
          BY <1>1, <1>2, <1>5, <5>2 DEF NodeAfter, Kinds
        <5> QED
          BY <5>1, <5>2
      <4> QED
        BY <2>1, <3>1, <3>2, <4>1, <4>3, <4>4 DEF Underway
    <3>3. CASE q # r.req
      <4>1. ~Counts(q)
        BY <2>1, <3>1, <3>3 DEF Underway
      <4>2. r.req \in Wire(n)' <=> r.req \in Wire(n)
        BY <2>1, <3>3
      <4> QED
        BY <2>1, <2>2, <3>1, <4>1, <4>2 DEF Underway
    <3> QED
      BY <3>2, <3>3
  <2>5. Reported(n)'
    <3> SUFFICES ASSUME machines[n].state = Absent, described # {} PROVE Reported(n)'
      BY <1>1 DEF Reported
    <3>1. up /\ View[n].state = Absent
      BY KitFacts DEF View
    <3>2. AtRest(n)
      BY <1>3, <3>1 DEF Tracks, Resting
    <3>3. hosts' = hosts
      BY <2>1, <2>2, <3>2 DEF AtRest
    <3> QED
      BY <1>1, <1>3, <3>3 DEF Tracks, Reported, Seen
  <2> QED
    BY <1>3, <2>3, <2>4, <2>5 DEF Tracks
<1> QED
  BY <1>4, <1>5

LEMMA KitInit == Init => KitInv
BY HistoryInit, RecordInit, TracksInit DEF KitInv, SubstrateInv

LEMMA KitNext == KitInv /\ [Next]_vars => KitInv'
<1> SUFFICES ASSUME KitInv, [Next]_vars PROVE KitInv'
  OBVIOUS
<1>1. HistoryInv' /\ RecordInv'
  BY HistoryNext, RecordNext DEF KitInv, HistoryInv, DriverInv
<1>2. ASSUME ~lost', NEW n \in Machines PROVE Tracks(n)'
  <2>1. CASE \E k \in Kinds, m \in Machines, f \in Tokens \union {ZeroToken} :
               Dispatch(k, m, f)
    <3>1. PICK k \in Kinds, m \in Machines, f \in Tokens \union {ZeroToken} : Dispatch(k, m, f)
      BY <2>1
    <3>2. CASE Refuse(k, m, f) \/ RetryAck(k, m, f)
      <4>1. up /\ UNCHANGED <<up, machines, running, described, substrate, lost>>
        BY <3>2 DEF Refuse, RetryAck
      <4> QED
        BY <1>2, <4>1, ViewSame, TracksSame DEF KitInv, SubstrateInv, Mine, Wire, substrate
    <3>3. CASE \E b \in Bindings(k) : Accept(k, m, f, b[1], b[2])
      <4>1. ~lost
        BY <1>2, <3>3 DEF Accept
      <4> QED
        BY <3>3, <4>1, TracksAccept
    <3> QED
      BY <3>1, <3>2, <3>3 DEF Dispatch
  <2>2. CASE \E r \in running : RunTransition(r)
    <3>1. PICK r \in running : RunTransition(r)
      BY <2>2
    <3>2. CASE ActuatorReturns(r) \/ NodeConfirmed(r) \/ ActuatorErrs(r)
      <4>1. ~lost
        BY <1>2, <3>2 DEF ActuatorReturns, NodeConfirmed, ActuatorErrs, history
      <4> QED
        BY <3>2, <4>1, TracksBackend
    <3>3. ASSUME NEW failed \in BOOLEAN, Complete(r, failed), ~failed => r.phase = "ok"
          PROVE  Tracks(n)'
      <4>1. ~lost
        BY <1>2, <3>3, KitFacts, CompletedRecord
      <4> QED
        BY <3>3, <4>1, TracksComplete
    <3> QED
      BY <3>1, <3>2, <3>3 DEF RunTransition, Finish, Timeout
  <2>3. CASE ReconcileDescribe
    <3>1. ~lost
      BY <1>2, <2>3 DEF ReconcileDescribe, history
    <3> QED
      BY <2>3, <3>1, TracksReconcileDescribe
  <2>4. CASE \E in \in described : ReconcileApply(in)
    <3>1. ~lost
      BY <1>2, <2>4 DEF ReconcileApply, history
    <3> QED
      BY <2>4, <3>1, TracksReconcileApply
  <2>5. CASE BootFresh \/ BootStored
    <3>1. ~lost
      BY <1>2, <2>5 DEF BootFresh, BootStored, history
    <3> QED
      BY <2>5, <3>1, TracksBoot
  <2>6. CASE Crash
    BY <1>2, <2>6, TracksCrash
  <2>7. CASE \E q \in wire : Land(q)
    <3>1. ~lost
      BY <1>2, <2>7 DEF Land, history
    <3> QED
      BY <2>7, <3>1, TracksLand
  <2>8. CASE UNCHANGED vars
    BY <1>2, <2>8, ViewSame, TracksSame
       DEF KitInv, SubstrateInv, Mine, Wire, vars, memory, store, substrate, history
  <2> QED
    BY <2>1, <2>2, <2>3, <2>4, <2>5, <2>6, <2>7, <2>8 DEF Next
<1> QED
  BY <1>1, <1>2 DEF KitInv, SubstrateInv

LEMMA KitAlways == Spec => []KitInv
BY KitInit, KitNext, PTL DEF Spec

\* The hosts behind the free slots and the offered machines, for every order in
\* which requests land, transitions time out and the process dies: the create a
\* transition gave up on leaves its slot Failed, so no slot is ever offered, and
\* no host named, that an old request can still change.
THEOREM SubstrateMatches == Spec => []SubstrateMatchesRecord
<1>1. KitInv => SubstrateMatchesRecord
  <2> SUFFICES ASSUME KitInv, ~lost, NEW m \in Machines
               PROVE  /\ View[m].state = "Speculative" =>
                           /\ hosts[m] = {}
                           /\ \A q \in wire : q.id = m => q.kind = "configure" /\ ~HasReadiness
                      /\ View[m].state \in Bound \union {"Idle"} => hosts[m] = {View[m].host}
    BY DEF SubstrateMatchesRecord
  <2>1. Tracks(m) /\ RecordOK(View[m])
    BY KitFacts DEF KitInv, SubstrateInv
  <2>2. CASE View[m].state = "Speculative"
    <3>1. AtRest(m) /\ View[m].host = NoHost
      BY <2>1, <2>2 DEF Tracks, Resting, StableStates, RecordOK
    <3> QED
      BY <2>2, <3>1 DEF AtRest, HostSet, Wire, Counts, Absent, Bound
  <2>3. CASE View[m].state \in {"Idle", "Configured"}
    <3>1. AtRest(m) /\ View[m].host # NoHost
      BY <2>1, <2>3 DEF Tracks, Resting, StableStates, RecordOK, Bound
    <3> QED
      BY <2>3, <3>1 DEF AtRest, HostSet, Absent
  <2>4. CASE View[m].state \in {"Configuring", "Draining"}
    <3>1. up
      BY <2>4, KitFacts, RecoverType DEF View, TransitionalStates, KitInv, HistoryInv,
                                         DriverInv, TypeOK, Snapshots
    <3>2. View[m] = machines[m] /\ machines[m].host # NoHost
      BY <2>1, <2>4, <3>1 DEF View, RecordOK, Bound
    <3>3. PICK r \in Mine(m) : machines[m].state = Transitional[r.req.kind]
      BY <2>4, <3>2, KitFacts DEF DriverInv, Driven, TransitionalStates
    <3>4. r.req.kind \in {"configure", "drain"} /\ r.req.host = machines[m].host
      BY <2>4, <3>2, <3>3, KitFacts DEF Transitional, Kinds, Request
    <3>5. hosts[m] = HostSet(r.req.host)
      BY <2>1, <3>3, <3>4 DEF Tracks, Underway, HostsAfter
    <3> QED
      BY <2>4, <3>2, <3>4, <3>5 DEF HostSet
  <2> QED
    BY <2>2, <2>3, <2>4 DEF Bound
<1> QED
  BY <1>1, KitAlways, PTL

\* ADR-0056 with a readiness gate: Configured is capacity that is there, and a
\* machine offered as free is in no cluster.
THEOREM NoCapacityIsPhantom == Spec => []NoPhantomCapacity
<1>1. KitInv => NoPhantomCapacity
  <2> SUFFICES ASSUME KitInv, HasReadiness, ~lost, NEW m \in Machines
               PROVE  /\ View[m].state = "Configured" => node[m] = View[m].cluster
                      /\ View[m].state \in {"Idle", "Speculative"} => node[m] = NoCluster
    BY DEF NoPhantomCapacity
  <2>1. Tracks(m) /\ RecordOK(View[m])
    BY KitFacts DEF KitInv, SubstrateInv
  <2>2. View[m].state \in StableStates => node[m] = View[m].cluster
    BY <2>1 DEF Tracks, Resting, AtRest
  <2> QED
    BY <2>1, <2>2 DEF RecordOK, StableStates, Bound
<1> QED
  BY <1>1, KitAlways, PTL

-----------------------------------------------------------------------------
(* The contract. Every step of the kit is one of MachineContract's or none, *)
(* as long as no failed save is lost with the process.                      *)

Shown(rec) == [state |-> rec.state, host |-> rec.host,
               cluster |-> rec.cluster, metadata |-> rec.metadata]

\* The contract's own copies of the lifecycle's words.
LEMMA ContractWords ==
    /\ Contract!Kinds = Kinds /\ Contract!TransitionalStates = TransitionalStates
    /\ Contract!Transitional = Transitional /\ Contract!Stable = Stable
    /\ Contract!Absent = Absent
    /\ \A s, k : Contract!CanStart(s, k) <=> CanStart(s, k)
    /\ \A mark, f : Contract!Newer(mark, f) <=> Newer(mark, f)
BY DEF Contract!Kinds, Kinds, Contract!TransitionalStates, TransitionalStates,
       Contract!Transitional, Transitional, Contract!Stable, Stable, Contract!Absent, Absent,
       Contract!CanStart, CanStart, Contract!Newer, Newer

LEMMA ListedIsShown ==
    /\ Listed = [m \in Machines |-> Shown(View[m])]
    /\ Listed' = [m \in Machines |-> Shown(View'[m])]
BY DEF Listed, Shown

LEMMA ContractInit == Init => Contract!ContractInit
<1> SUFFICES ASSUME Init PROVE Contract!ContractInit
  OBVIOUS
<1>1. \A m \in Machines : View[m] = NoMachine
  BY DEF Init, View, EmptySnapshot, NoMachine, Recover, TransitionalStates, Absent
<1>2. Listed = [m \in Machines |-> Contract!Unbound(Contract!Absent, NoHost)]
  BY <1>1 DEF Listed, NoMachine, Contract!Unbound, Contract!Absent, Absent
<1> QED
  BY <1>2, ContractWords DEF Contract!ContractInit, Init, EmptySnapshot

\* The parts of the contract's state a step leaves alone.
SameListed == Listed' = Listed
SameMarks == (IF up THEN fences ELSE disk.fences)' = IF up THEN fences ELSE disk.fences
SameOps == /\ (IF up THEN ops ELSE disk.ops)' = IF up THEN ops ELSE disk.ops
           /\ (IF up THEN nextOp ELSE disk.nextOp)' = IF up THEN nextOp ELSE disk.nextOp

LEMMA ContractStutter ==
    ASSUME SameListed, SameMarks, SameOps
    PROVE  UNCHANGED Contract!contractVars
BY DEF SameListed, SameMarks, SameOps, Contract!contractVars

\* A call that starts nothing notes its token.
LEMMA ContractAnswer ==
    ASSUME NEW k \in Kinds, NEW m \in Machines, NEW f \in Tokens \union {ZeroToken},
           Refuse(k, m, f) \/ RetryAck(k, m, f)
    PROVE  Contract!NoteToken(m, f)
<1>1. /\ up /\ up' /\ PassesFence(m, f) /\ AdvanceMark(m, f)
      /\ UNCHANGED <<machines, ops, nextOp>>
  BY DEF Refuse, RetryAck
<1>2. Listed' = Listed
  BY <1>1 DEF Listed, View
<1> QED
  BY <1>1, <1>2, ContractWords DEF PassesFence, AdvanceMark, MarkOf, Contract!NoteToken,
                                   Contract!Admits, Contract!Admitted

LEMMA ContractAccept ==
    ASSUME TypeOK, NEW k \in Kinds, NEW m \in Machines, NEW f \in Tokens \union {ZeroToken},
           NEW b \in Bindings(k), Accept(k, m, f, b[1], b[2])
    PROVE  Contract!Begin(k, m, f, b[1], b[2])
<1>1. /\ up /\ up' /\ PassesFence(m, f) /\ AdvanceMark(m, f)
      /\ CanStart(machines[m].state, k)
      /\ nextOp' = nextOp + 1
      /\ ops' = [ops EXCEPT ![m][k] = nextOp + 1]
      /\ machines' = [machines EXCEPT ![m] = Begin(machines[m], k, b[1], b[2])]
  BY DEF Accept
<1>2. View = machines /\ View' = machines'
  BY <1>1 DEF View
<1>3. machines \in [Machines -> Machine]
  BY DEF TypeOK
<1>4. /\ machines'[m].state = Transitional[k]
      /\ machines'[m].host = machines[m].host
      /\ machines'[m].cluster = IF k = "configure" THEN b[1] ELSE machines[m].cluster
      /\ machines'[m].metadata = IF k = "configure" THEN b[2] ELSE machines[m].metadata
  <2>1. machines[m] \in Machine /\ machines'[m] = Begin(machines[m], k, b[1], b[2])
    BY <1>1, <1>3
  <2> QED
    BY <2>1 DEF Begin, Machine
<1>5. Listed' = [Listed EXCEPT ![m].state = Transitional[k],
                               ![m].cluster = IF k = "configure" THEN b[1] ELSE @,
                               ![m].metadata = IF k = "configure" THEN b[2] ELSE @]
  <2>1. \A n \in Machines : n # m => machines'[n] = machines[n]
    BY <1>1, <1>3
  <2>2. Listed = [n \in Machines |-> Shown(machines[n])]
        /\ Listed' = [n \in Machines |-> Shown(machines'[n])]
    BY <1>2, ListedIsShown
  <2> QED
    BY <1>4, <2>1, <2>2 DEF Shown
<1>6. Listed[m].state = machines[m].state
  BY <1>2 DEF Listed
<1> QED
  BY <1>1, <1>5, <1>6, ContractWords DEF PassesFence, AdvanceMark, MarkOf, Contract!Begin,
                                         Contract!Admits, Contract!Admitted

LEMMA SettleFields ==
    ASSUME NEW rec \in Machine, NEW req \in Request
    PROVE  /\ Settle(rec, req).state = Stable[req.kind]
           /\ Settle(rec, req).host = IF req.kind = "create" THEN req.op
                                      ELSE IF req.kind = "delete" THEN NoHost ELSE rec.host
           /\ Settle(rec, req).cluster = IF req.kind = "drain" THEN NoCluster ELSE rec.cluster
           /\ Settle(rec, req).metadata = IF req.kind = "drain" THEN NoMeta ELSE rec.metadata
<1>0. req.kind \in Kinds
  BY DEF Request
<1>1. CASE req.kind = "create"
  <2>1. Settle(rec, req) = [rec EXCEPT !.state = "Idle", !.host = req.op]
    BY <1>1 DEF Settle
  <2> QED
    BY <1>1, <2>1, SettleType DEF Machine
<1>2. CASE req.kind = "configure"
  <2>1. Settle(rec, req) = [rec EXCEPT !.state = "Configured"]
    BY <1>2 DEF Settle
  <2> QED
    BY <1>2, <2>1, SettleType DEF Machine
<1>3. CASE req.kind = "drain"
  <2>1. Settle(rec, req) = [rec EXCEPT !.state = "Idle", !.cluster = NoCluster,
                                       !.metadata = NoMeta]
    BY <1>3 DEF Settle
  <2> QED
    BY <1>3, <2>1, SettleType DEF Machine
<1>4. CASE req.kind = "delete"
  <2>1. Settle(rec, req) = [rec EXCEPT !.state = "Speculative", !.host = NoHost]
    BY <1>4 DEF Settle
  <2> QED
    BY <1>4, <2>1, SettleType DEF Machine
<1> QED
  BY <1>0, <1>1, <1>2, <1>3, <1>4 DEF Kinds

LEMMA ContractComplete ==
    ASSUME DriverInv, NEW r \in running, NEW failed \in BOOLEAN, Complete(r, failed)
    PROVE  Contract!ContractNext
<1> DEFINE m == r.req.id
           k == r.req.kind
<1>1. /\ up /\ up' /\ m \in Machines /\ k \in Kinds /\ r.req \in Request
      /\ machines[m].state = Transitional[k]
      /\ ops[m][k] = r.req.op
      /\ machines' = [machines EXCEPT ![m] = IF failed THEN Fail(machines[m])
                                             ELSE Settle(machines[m], r.req)]
      /\ UNCHANGED <<fences, ops, nextOp>>
  BY CompletedRecord DEF Request
<1> HIDE DEF m
<1>2. Listed = [n \in Machines |-> Shown(machines[n])]
      /\ Listed' = [n \in Machines |-> Shown(machines'[n])]
  BY <1>1, ListedIsShown DEF View
<1>3. machines \in [Machines -> Machine]
  BY DEF DriverInv, TypeOK
<1>4. \A n \in Machines : n # m => Shown(machines'[n]) = Shown(machines[n])
  BY <1>1, <1>3
<1>5. Listed[m].state = Transitional[k] /\ Transitional[k] \in TransitionalStates
  BY <1>1, <1>2 DEF Shown, Transitional, TransitionalStates, Kinds
<1>6. CASE failed
  <2>1. Shown(machines'[m]) = [Shown(machines[m]) EXCEPT !.state = "Failed"]
    BY <1>1, <1>3, <1>6 DEF Shown, Fail, Machine
  <2>2. Listed' = [n \in Machines |-> IF n \in {m} THEN [Listed[n] EXCEPT !.state = "Failed"]
                                      ELSE Listed[n]]
    BY <1>2, <1>4, <2>1
  <2>3. Contract!GiveUp({m})
    BY <1>1, <1>5, <2>2, ContractWords DEF Contract!GiveUp
  <2> QED
    BY <1>1, <2>3, ContractWords DEF Contract!ContractNext
<1>7. CASE ~failed
  <2>1. machines'[m] = Settle(machines[m], r.req) /\ machines[m] \in Machine
    BY <1>1, <1>3, <1>7
  <2>2. /\ machines'[m].state = Stable[k]
        /\ machines'[m].host = IF k = "create" THEN ops[m][k]
                               ELSE IF k = "delete" THEN NoHost ELSE machines[m].host
        /\ machines'[m].cluster = IF k = "drain" THEN NoCluster ELSE machines[m].cluster
        /\ machines'[m].metadata = IF k = "drain" THEN NoMeta ELSE machines[m].metadata
    BY <1>1, <2>1, SettleFields
  <2> HIDE DEF k
  <2> DEFINE h == CASE k = "create" -> ops[m][k] [] k = "delete" -> NoHost
                    [] OTHER -> Listed[m].host
  <2>3. Listed' = [Listed EXCEPT ![m].state = Stable[k],
                                 ![m].host = h,
                                 ![m].cluster = IF k = "drain" THEN NoCluster ELSE @,
                                 ![m].metadata = IF k = "drain" THEN NoMeta ELSE @]
    <3>1. \A n \in Machines : n # m => machines'[n] = machines[n]
      BY <1>1, <1>3
    <3>2. h = machines'[m].host
      BY <1>1, <1>2, <2>2 DEF Shown
    <3> HIDE DEF h
    <3> QED
      BY <1>1, <1>2, <2>2, <3>1, <3>2 DEF Shown
  <2>4. Contract!Succeed(k, m)
    BY <1>1, <1>5, <2>3, ContractWords DEF Contract!Succeed
  <2> QED
    BY <1>1, <2>4, ContractWords DEF Contract!ContractNext
<1> QED
  BY <1>6, <1>7

\* A reported instance shows as a free slot or as an existing host.
LEMMA AppearShape ==
    ASSUME NEW in \in [host : Hosts \union {NoHost}, price : Prices],
           NEW shown, shown = Shown(ToMachine(in))
    PROVE  \/ shown = Contract!Unbound("Speculative", NoHost)
           \/ shown = Contract!Unbound("Idle", shown.host) /\ shown.host # NoHost
BY DEF Shown, ToMachine, NoMachine, Contract!Unbound

\* The ids a Reconcile or a fresh start adds appear; a refreshed price does not show.
LEMMA ContractAppear ==
    ASSUME KitInv, up', SameMarks, SameOps,
           \A m \in Machines :
             \/ Shown(View'[m]) = Shown(View[m])
             \/ /\ View[m].state = Absent
                /\ \E in \in [host : Hosts \union {NoHost}, price : Prices] :
                     View'[m] = ToMachine(in)
    PROVE  [Contract!ContractNext]_Contract!contractVars
<1> DEFINE S == {m \in Machines : Shown(View'[m]) # Shown(View[m])}
<1>1. Listed = [m \in Machines |-> Shown(View[m])]
      /\ Listed' = [m \in Machines |-> Shown(View'[m])]
  BY ListedIsShown
<1>2. CASE S = {}
  <2>1. SameListed
    BY <1>1, <1>2 DEF SameListed
  <2> QED
    BY <2>1, ContractStutter
<1>3. CASE S # {}
  <2>1. \A m \in S : /\ View[m].state = Absent
                     /\ \E in \in [host : Hosts \union {NoHost}, price : Prices] :
                          View'[m] = ToMachine(in)
    OBVIOUS
  <2>2. PICK T \in SUBSET Machines : T = S
    OBVIOUS
  <2>3. T # {} /\ \A m \in Machines \ T : Listed'[m] = Listed[m]
    BY <1>1, <1>3, <2>2
  <2>4. T \in SUBSET {m \in Machines : Listed[m].state = Contract!Absent}
    BY <1>1, <2>1, <2>2, ContractWords DEF Shown
  <2>5. ASSUME NEW m \in T
        PROVE  \/ Listed'[m] = Contract!Unbound("Speculative", NoHost)
               \/ /\ Listed'[m] = Contract!Unbound("Idle", Listed'[m].host)
                  /\ Listed'[m].host # NoHost
    <3>1. PICK in \in [host : Hosts \union {NoHost}, price : Prices] :
            View'[m] = ToMachine(in)
      BY <2>1, <2>2
    <3>2. Listed'[m] = Shown(ToMachine(in))
      BY <1>1, <3>1
    <3> QED
      BY <3>2, AppearShape
  <2>6. DOMAIN Listed' = Machines
    BY <1>1
  <2>7. UNCHANGED <<IF up THEN fences ELSE disk.fences, IF up THEN ops ELSE disk.ops,
                    IF up THEN nextOp ELSE disk.nextOp>>
    BY DEF SameMarks, SameOps
  <2>8. Contract!Appear
    BY <2>3, <2>4, <2>5, <2>6, <2>7 DEF Contract!Appear
  <2> QED
    BY <2>8 DEF Contract!ContractNext
<1> QED
  BY <1>2, <1>3

LEMMA ContractReconcileApply ==
    ASSUME KitInv, NEW in \in described, ReconcileApply(in)
    PROVE  [Contract!ContractNext]_Contract!contractVars
<1>1. up /\ up' /\ UNCHANGED <<fences, ops, nextOp>>
  BY DEF ReconcileApply
<1>2. View = machines /\ View' = machines'
  BY <1>1 DEF View
<1>3. SameMarks /\ SameOps
  BY <1>1 DEF SameMarks, SameOps
<1>4. ASSUME NEW m \in Machines
      PROVE  \/ Shown(machines'[m]) = Shown(machines[m])
             \/ /\ machines[m].state = Absent
                /\ \E i \in [host : Hosts \union {NoHost}, price : Prices] :
                     machines'[m] = ToMachine(i)
  <2>1. machines'[m] = Refresh(machines[m], in[m]) => Shown(machines'[m]) = Shown(machines[m])
    BY KitFacts, RefreshKeeps DEF Shown
  <2> QED
    BY <2>1, KitFacts, ReconciledRecord
<1> QED
  BY <1>1, <1>2, <1>3, <1>4, ContractAppear

LEMMA ContractBoot ==
    ASSUME KitInv, BootFresh \/ BootStored
    PROVE  [Contract!ContractNext]_Contract!contractVars
<1>1. ~up /\ up'
  BY DEF BootFresh, BootStored
<1>2. SameMarks /\ SameOps
  BY <1>1, BootKeeps DEF SameMarks, SameOps, KitInv
<1>3. CASE BootStored
  <2>1. SameListed
    BY <1>3, ViewBootStored DEF SameListed, Listed
  <2> QED
    BY <1>2, <2>1, ContractStutter
<1>4. CASE BootFresh
  <2>1. ASSUME NEW m \in Machines
        PROVE  \/ Shown(View'[m]) = Shown(View[m])
               \/ /\ View[m].state = Absent
                  /\ \E in \in [host : Hosts \union {NoHost}, price : Prices] :
                       View'[m] = ToMachine(in)
    <3>1. View'[m] = machines'[m] /\ View[m].state = Absent /\ View[m] = NoMachine
      BY <1>4, ViewBootFresh, KitFacts DEF RecordOK
    <3> QED
      BY <1>4, <3>1, KitFacts, SeededRecord
  <2> QED
    BY <1>1, <1>2, <2>1, ContractAppear
<1> QED
  BY <1>3, <1>4

\* To the contract a crash is the running transitions giving up together.
LEMMA ContractCrash ==
    ASSUME KitInv, Crash, ~lost'
    PROVE  [Contract!ContractNext]_Contract!contractVars
<1>1. up /\ ~up' /\ ~behind /\ disk' = disk
  BY DEF Crash
<1>2. disk = Snapshot
  BY <1>1 DEF KitInv, HistoryInv, DiskCurrent
<1>3. SameMarks /\ SameOps
  BY <1>1, <1>2 DEF SameMarks, SameOps, Snapshot
<1> DEFINE S == {m \in Machines : machines[m].state \in TransitionalStates}
<1>4. Listed = [m \in Machines |-> Shown(machines[m])]
      /\ Listed' = [m \in Machines |-> IF m \in S THEN [Shown(machines[m]) EXCEPT !.state = "Failed"]
                                       ELSE Shown(machines[m])]
  <2>1. \A m \in Machines : /\ View[m] = machines[m] /\ View'[m] = Recover(machines[m])
                            /\ machines[m] \in Machine
    BY KitFacts, ViewCrash
  <2>2. \A m \in Machines :
          Shown(Recover(machines[m])) =
            IF m \in S THEN [Shown(machines[m]) EXCEPT !.state = "Failed"] ELSE Shown(machines[m])
    BY <2>1 DEF Recover, Fail, Shown, Machine
  <2> HIDE DEF S
  <2> QED
    BY <2>1, <2>2, ListedIsShown
<1>5. \A m \in S : Listed[m].state \in TransitionalStates
  BY <1>4 DEF Shown
<1>6. S \in SUBSET Machines
  OBVIOUS
<1> HIDE DEF S
<1>7. CASE S = {}
  <2>1. SameListed
    BY <1>4, <1>7 DEF SameListed
  <2> QED
    BY <1>3, <2>1, ContractStutter
<1>8. CASE S # {}
  <2>1. Listed' = [m \in Machines |-> IF m \in S THEN [Listed[m] EXCEPT !.state = "Failed"]
                                      ELSE Listed[m]]
    BY <1>4
  <2>2. Contract!GiveUp(S)
    BY <1>3, <1>5, <1>8, <2>1, ContractWords DEF Contract!GiveUp, SameMarks, SameOps
  <2> QED
    BY <1>6, <2>2 DEF Contract!ContractNext
<1> QED
  BY <1>7, <1>8

LEMMA ContractStep ==
    ASSUME KitInv, [Next]_vars, ~lost'
    PROVE  [Contract!ContractNext]_Contract!contractVars
<1>0. TypeOK /\ DriverInv
  BY DEF KitInv, HistoryInv, DriverInv
<1>1. CASE \E k \in Kinds, m \in Machines, f \in Tokens \union {ZeroToken} : Dispatch(k, m, f)
  <2>1. PICK k \in Kinds, m \in Machines, f \in Tokens \union {ZeroToken} : Dispatch(k, m, f)
    BY <1>1
  <2>2. CASE Refuse(k, m, f) \/ RetryAck(k, m, f)
    BY <2>2, ContractAnswer DEF Contract!ContractNext, Tokens
  <2>3. CASE \E b \in Bindings(k) : Accept(k, m, f, b[1], b[2])
    <3>1. PICK b \in Bindings(k) : Accept(k, m, f, b[1], b[2])
      BY <2>3
    <3>2. Contract!Begin(k, m, f, b[1], b[2])
      BY <1>0, <3>1, ContractAccept
    <3>3. CASE k = "configure"
      <4>1. b[1] \in Clusters /\ b[2] \in Metas \union {NoMeta}
        BY <3>3 DEF Bindings
      <4> QED
        BY <3>2, <3>3, <4>1 DEF Contract!ContractNext, Tokens
    <3>4. CASE k # "configure"
      <4>1. b[1] = NoCluster /\ b[2] = NoMeta
        BY <3>4 DEF Bindings
      <4> QED
        BY <3>2, <3>4, <4>1, ContractWords DEF Contract!ContractNext, Tokens
    <3> QED
      BY <3>3, <3>4
  <2> QED
    BY <2>1, <2>2, <2>3 DEF Dispatch
<1>2. CASE \E r \in running : RunTransition(r)
  <2>1. PICK r \in running : RunTransition(r)
    BY <1>2
  <2>2. CASE ActuatorReturns(r) \/ NodeConfirmed(r) \/ ActuatorErrs(r)
    <3>1. UNCHANGED <<up, memory, disk>>
      BY <2>2 DEF ActuatorReturns, NodeConfirmed, ActuatorErrs, store
    <3> QED
      BY <3>1, ContractStutter DEF SameListed, SameMarks, SameOps, Listed, View, memory
  <2>3. ASSUME NEW failed \in BOOLEAN, Complete(r, failed)
        PROVE  [Contract!ContractNext]_Contract!contractVars
    BY <1>0, <2>3, ContractComplete
  <2> QED
    BY <2>1, <2>2, <2>3 DEF RunTransition, Finish, Timeout
<1>3. CASE ReconcileDescribe \/ (\E q \in wire : Land(q)) \/ UNCHANGED vars
  <2>1. UNCHANGED <<up, memory, disk>>
    BY <1>3 DEF ReconcileDescribe, Land, vars, store
  <2> QED
    BY <2>1, ContractStutter DEF SameListed, SameMarks, SameOps, Listed, View, memory
<1>4. CASE \E in \in described : ReconcileApply(in)
  BY <1>4, ContractReconcileApply
<1>5. CASE BootFresh \/ BootStored
  BY <1>5, ContractBoot
<1>6. CASE Crash
  BY <1>6, ContractCrash
<1> QED
  BY <1>1, <1>2, <1>3, <1>4, <1>5, <1>6 DEF Next

\* Until a write the store refused is lost with the process, the kit, crashes and
\* restarts included, takes only the steps of a provider that never dies.
THEOREM StepsOfTheContract ==
    Spec => Contract!ContractInit
            /\ [][~lost' => [Contract!ContractNext]_Contract!contractVars]_vars
<1>1. KitInv /\ [Next]_vars =>
        [~lost' => [Contract!ContractNext]_Contract!contractVars]_vars
  BY ContractStep
<1> QED
  BY <1>1, ContractInit, KitAlways, PTL DEF Spec

\* With a store that takes every write the kit implements the contract (the ends
\* of the accepted transitions, which need fairness, are left to the run).
THEOREM KeepsTheContract ==
    ASSUME SaveMayFail = FALSE
    PROVE  Spec => Contract!ContractSpec
<1>1. Init => ~behind /\ ~lost
  BY DEF Init
<1>2. TypeOK /\ ~behind /\ ~lost /\ [Next]_vars => ~behind' /\ ~lost'
  <2> SUFFICES ASSUME TypeOK, ~behind, ~lost, [Next]_vars PROVE ~behind' /\ ~lost'
    OBVIOUS
  <2>1. CASE \E k \in Kinds, m \in Machines, f \in Tokens \union {ZeroToken} : Dispatch(k, m, f)
    BY <2>1 DEF Dispatch, Refuse, RetryAck, Accept, PersistIf, Persist, store
  <2>2. CASE \E r \in running : RunTransition(r)
    BY <2>2 DEF RunTransition, ActuatorReturns, NodeConfirmed, ActuatorErrs, Finish, Timeout,
                Complete, Persist, store, history
  <2>3. CASE ReconcileDescribe \/ (\E q \in wire : Land(q)) \/ UNCHANGED vars
    BY <2>3 DEF ReconcileDescribe, Land, vars, store, history
  <2>4. CASE \E in \in described : ReconcileApply(in)
    BY <2>4 DEF ReconcileApply, PersistIf, Persist, store, history
  <2>5. CASE BootFresh \/ BootStored
    BY <2>5 DEF BootFresh, BootStored, PersistIf, Persist, store, history
  <2>6. CASE Crash
    BY <2>6 DEF Crash
  <2> QED
    BY <2>1, <2>2, <2>3, <2>4, <2>5, <2>6 DEF Next
<1>3. KitInv /\ ~lost' /\ [Next]_vars => [Contract!ContractNext]_Contract!contractVars
  BY ContractStep
<1>4. KitInv => TypeOK
  BY DEF KitInv, HistoryInv, DriverInv
<1> QED
  BY <1>1, <1>2, <1>3, <1>4, ContractInit, KitAlways, PTL DEF Spec, Contract!ContractSpec
=============================================================================
