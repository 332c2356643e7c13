-------------------------- MODULE ListPollingProofs --------------------------
(***************************************************************************)
(* Theorems about ListPolling: what a poller of List may rely on, for      *)
(* every inventory, every interleaving of its calls with the kit's steps   *)
(* and every pattern of crashes, restarts and reconciles.                  *)
(***************************************************************************)
EXTENDS ListPolling, KitRecordProofs

\* max_results never cuts an answer short.
NeverCut == MaxResults = 0 \/ Cardinality(Machines) <= MaxResults

-----------------------------------------------------------------------------
(* The inventory as a poller sees it, across restarts: the record of each   *)
(* machine, the revision it was modified at, and the head revision. A       *)
(* restart stamps every record with the revision it was stored under.       *)
HeadRev == IF up THEN rev ELSE disk.rev
Head(m) == IF up THEN machines[m] ELSE disk.machines[m]
Stamp(m) == IF up THEN lastMod[m]
            ELSE IF disk.machines[m].state = Absent THEN 0 ELSE disk.rev

StampInv ==
    /\ \A m \in Machines : Stamp(m) <= HeadRev /\ (Head(m).state = Absent => Stamp(m) = 0)
    /\ ~up => \A m \in Machines : lastMod[m] = 0

\* A step leaves a record and, unless to a later one, its stamp alone, or stamps
\* it beyond the head revision.
StampMoves(m) ==
    \/ Head(m)' = Head(m) /\ Stamp(m) <= Stamp(m)'
    \/ HeadRev < Stamp(m)' /\ Head(m)'.state # Absent

StampStep == /\ StampInv'
             /\ HeadRev <= HeadRev'
             /\ \A m \in Machines : StampMoves(m)

\* The ranks of a batch are positions in it.
LEMMA RanksBound ==
    ASSUME NEW S \in SUBSET Machines, NEW rank \in Ranks(S)
    PROVE  /\ Cardinality(S) \in Nat
           /\ \A m \in S : rank[m] \in Nat /\ 1 <= rank[m] /\ rank[m] <= Cardinality(S)
BY RanksAreNat DEF Ranks

LEMMA StampInit == Init => StampInv
BY DEF Init, StampInv, Stamp, HeadRev, Head, EmptySnapshot, NoMachine

LEMMA StampSame ==
    ASSUME StampInv, TypeOK, UNCHANGED <<up, machines, lastMod, rev>>, up \/ UNCHANGED disk
    PROVE  StampStep
BY DEF StampStep, StampInv, StampMoves, Stamp, HeadRev, Head, TypeOK, Snapshots

\* A running kit that touches a batch of records, and changes no other.
LEMMA StampTouchAll ==
    ASSUME StampInv, TypeOK, up, up', NEW S \in SUBSET Machines, TouchAll(S),
           \A m \in Machines \ S : machines'[m] = machines[m],
           \A m \in S : machines'[m].state # Absent
    PROVE  StampStep
<1>1. PICK rank \in Ranks(S) :
        lastMod' = [m \in Machines |-> IF m \in S THEN rev + rank[m] ELSE lastMod[m]]
  BY DEF TouchAll
<1>2. /\ rev' = rev + Cardinality(S) /\ rev \in Nat /\ Cardinality(S) \in Nat
      /\ \A m \in S : rank[m] \in Nat /\ 1 <= rank[m] /\ rank[m] <= Cardinality(S)
  BY RanksBound DEF TouchAll, TypeOK
<1>3. \A m \in Machines : lastMod[m] \in Nat /\ lastMod[m] <= rev
  BY DEF StampInv, Stamp, HeadRev, TypeOK
<1>4. \A m \in S : lastMod'[m] = rev + rank[m]
  BY <1>1
<1>5. \A m \in Machines \ S : lastMod'[m] = lastMod[m]
  BY <1>1
<1>6. \A m \in Machines : lastMod'[m] <= rev'
  BY <1>2, <1>3, <1>4, <1>5
<1>7. \A m \in Machines : machines'[m].state = Absent => lastMod'[m] = 0
  BY <1>5 DEF StampInv, Stamp, Head
<1>8. StampInv'
  BY <1>6, <1>7 DEF StampInv, Stamp, HeadRev, Head
<1>9. \A m \in Machines : StampMoves(m)
  BY <1>2, <1>3, <1>4, <1>5 DEF StampMoves, Stamp, HeadRev, Head
<1> QED
  BY <1>2, <1>8, <1>9 DEF StampStep, HeadRev

LEMMA StampTouch ==
    ASSUME StampInv, TypeOK, up, up', NEW m \in Machines, Touch(m),
           \A n \in Machines \ {m} : machines'[n] = machines[n],
           machines'[m].state # Absent
    PROVE  StampStep
<1>1. /\ rev' = rev + 1 /\ rev \in Nat
      /\ lastMod' = [lastMod EXCEPT ![m] = rev + 1] /\ lastMod \in [Machines -> Nat]
  BY DEF Touch, TypeOK
<1>2. \A n \in Machines : lastMod[n] \in Nat /\ lastMod[n] <= rev
  BY <1>1 DEF StampInv, Stamp, HeadRev
<1>3. lastMod'[m] = rev + 1 /\ \A n \in Machines \ {m} : lastMod'[n] = lastMod[n]
  BY <1>1
<1>4. \A n \in Machines : lastMod'[n] <= rev'
  BY <1>1, <1>2, <1>3
<1>5. \A n \in Machines : machines'[n].state = Absent => lastMod'[n] = 0
  BY <1>3 DEF StampInv, Stamp, Head
<1>6. StampInv'
  BY <1>4, <1>5 DEF StampInv, Stamp, HeadRev, Head
<1>7. \A n \in Machines : StampMoves(n)
  BY <1>1, <1>2, <1>3 DEF StampMoves, Stamp, HeadRev, Head
<1> QED
  BY <1>1, <1>6, <1>7 DEF StampStep, HeadRev

LEMMA StampReconcileApply ==
    ASSUME StampInv, TypeOK, NEW in \in described, ReconcileApply(in)
    PROVE  StampStep
<1> DEFINE valid == {n \in DOMAIN in : Valid(in[n])}
           added == {n \in valid : ~Known(n)}
           moved == {n \in valid : Known(n) /\ machines[n].price # in[n].price}
<1>1. PICK S \in SUBSET Machines :
        in \in [S -> [host : Hosts \union {NoHost}, price : Prices]]
  BY DEF TypeOK
<1>2. machines' = [n \in Machines |-> IF n \in added THEN ToMachine(in[n])
                                      ELSE IF n \in moved THEN Refresh(machines[n], in[n])
                                      ELSE machines[n]]
  BY DEF ReconcileApply
<1>3. up /\ up' /\ TouchAll(added \union moved)
  BY DEF ReconcileApply
<1>4. /\ added \union moved \subseteq S
      /\ \A n \in added \union moved :
            in[n] \in [host : Hosts \union {NoHost}, price : Prices] /\ machines[n] \in Machine
      /\ \A n \in moved \ added : machines[n].state # Absent
  BY <1>1 DEF Known, TypeOK
<1> HIDE DEF added, moved
<1>5. \A n \in Machines \ (added \union moved) : machines'[n] = machines[n]
  BY <1>2
<1>6. \A n \in added : machines'[n].state # Absent
  BY <1>2, <1>4 DEF ToMachine, NoMachine, Absent
<1>7. \A n \in moved \ added : machines'[n].state # Absent
  BY <1>2, <1>4, RefreshKeeps
<1> QED
  BY <1>3, <1>4, <1>5, <1>6, <1>7, StampTouchAll

\* A fresh start stamps what it found; a poller of an earlier process has nothing.
LEMMA StampBootFresh ==
    ASSUME StampInv, HistoryInv, RecordInv, BootFresh
    PROVE  StampStep
<1>0. PICK S \in SUBSET Machines : \E price \in [S -> Prices] :
        /\ machines' = [n \in Machines |->
                           IF n \in S THEN ToMachine(Instances(S, price)[n]) ELSE NoMachine]
        /\ TouchAll(S)
  BY DEF BootFresh
<1>1. PICK price \in [S -> Prices] :
        machines' = [n \in Machines |->
                           IF n \in S THEN ToMachine(Instances(S, price)[n]) ELSE NoMachine]
  BY <1>0
<1>2. PICK rank \in Ranks(S) :
        lastMod' = [m \in Machines |-> IF m \in S THEN rev + rank[m] ELSE lastMod[m]]
  BY <1>0 DEF TouchAll
<1>3. /\ Cardinality(S) \in Nat
      /\ \A m \in S : rank[m] \in Nat /\ 1 <= rank[m] /\ rank[m] <= Cardinality(S)
  BY RanksBound
<1>4. ~up /\ up' /\ rev = 0 /\ disk.rev = 0
  BY DEF BootFresh, IsFresh, HistoryInv, DriverInv, DownIsEmpty, Snapshot, EmptySnapshot
<1>5. rev' = Cardinality(S)
  BY <1>0, <1>3, <1>4 DEF TouchAll
<1>6. \A m \in Machines : disk.machines[m] = NoMachine /\ lastMod[m] = 0
  BY <1>4 DEF BootFresh, IsFresh, StampInv, RecordInv, RecordOK
<1>7. \A m \in S : lastMod'[m] = rank[m]
  BY <1>2, <1>3, <1>4
<1>8. \A m \in Machines \ S : lastMod'[m] = 0 /\ machines'[m] = NoMachine
  BY <1>1, <1>2, <1>6
<1>9. \A m \in S : machines'[m].state # Absent
  BY <1>1 DEF ToMachine, NoMachine, Absent
<1>10. NoMachine.state = Absent
  BY DEF NoMachine
<1>11. StampInv'
  BY <1>3, <1>4, <1>5, <1>7, <1>8, <1>9 DEF StampInv, Stamp, HeadRev, Head
<1>12. \A m \in Machines : StampMoves(m)
  BY <1>3, <1>4, <1>6, <1>7, <1>8, <1>9, <1>10 DEF StampMoves, Stamp, HeadRev, Head
<1> QED
  BY <1>3, <1>4, <1>5, <1>11, <1>12 DEF StampStep, HeadRev

\* A restart stamps the records it fails beyond the revision it found.
LEMMA StampBootStored ==
    ASSUME StampInv, TypeOK, BootStored
    PROVE  StampStep
<1> DEFINE cut == {m \in Machines : disk.machines[m].state \in TransitionalStates}
<1>1. PICK rank \in Ranks(cut) :
        lastMod' = [m \in Machines |->
                      IF m \in cut THEN disk.rev + rank[m]
                      ELSE IF disk.machines[m].state = Absent THEN 0 ELSE disk.rev]
  BY DEF BootStored
<1>2. /\ ~up /\ up' /\ rev' = disk.rev + Cardinality(cut) /\ disk.rev \in Nat
      /\ machines' = [m \in Machines |-> Recover(disk.machines[m])]
  BY DEF BootStored, TypeOK, Snapshots
<1>3. /\ Cardinality(cut) \in Nat
      /\ \A m \in cut : rank[m] \in Nat /\ 1 <= rank[m] /\ rank[m] <= Cardinality(cut)
  BY RanksBound
<1>4. \A m \in cut : machines'[m].state # Absent
  <2> TAKE m \in cut
  <2>1. disk.machines[m] \in Machine /\ Recover(disk.machines[m]) = Fail(disk.machines[m])
    BY DEF TypeOK, Snapshots, Recover
  <2> QED
    BY <1>2, <2>1, FailType DEF Absent
<1>5. \A m \in Machines \ cut : machines'[m] = disk.machines[m]
  BY <1>2 DEF Recover
<1>6. \A m \in cut : lastMod'[m] = disk.rev + rank[m]
  BY <1>1
<1>7. \A m \in Machines \ cut :
        lastMod'[m] = IF disk.machines[m].state = Absent THEN 0 ELSE disk.rev
  BY <1>1
<1> HIDE DEF cut
<1>8. StampInv'
  BY <1>2, <1>3, <1>4, <1>5, <1>6, <1>7 DEF StampInv, Stamp, HeadRev, Head
<1>9. \A m \in Machines : StampMoves(m)
  BY <1>2, <1>3, <1>4, <1>5, <1>6, <1>7 DEF StampMoves, Stamp, HeadRev, Head
<1> QED
  BY <1>2, <1>3, <1>8, <1>9 DEF StampStep, HeadRev

\* A death with the disk current leaves the inventory as it was stored.
LEMMA StampCrash ==
    ASSUME StampInv, HistoryInv, Crash, ~lost'
    PROVE  StampStep
<1>1. /\ up /\ ~behind /\ ~up' /\ disk' = disk
      /\ lastMod' = [m \in Machines |-> 0]
  BY DEF Crash
<1>2. disk.machines = machines /\ disk.rev = rev
  BY <1>1 DEF HistoryInv, DiskCurrent, Snapshot
<1>3. rev \in Nat /\ \A m \in Machines : lastMod[m] \in Nat
  BY DEF HistoryInv, DriverInv, TypeOK
<1> QED
  BY <1>1, <1>2, <1>3 DEF StampStep, StampInv, StampMoves, Stamp, HeadRev, Head

\* A crash that loses a save takes back revisions, so that the step is one of the
\* kit's only as long as none is lost.
LEMMA StampNext ==
    ASSUME HistoryInv, RecordInv, StampInv, [Next]_vars, ~lost'
    PROVE  StampStep
<1>0. DriverInv /\ TypeOK
  BY DEF HistoryInv, DriverInv
<1>1. CASE \E k \in Kinds, n \in Machines, f \in Tokens \union {ZeroToken} : Dispatch(k, n, f)
  <2>1. PICK k \in Kinds, n \in Machines, f \in Tokens \union {ZeroToken} : Dispatch(k, n, f)
    BY <1>1
  <2>2. CASE Refuse(k, n, f) \/ RetryAck(k, n, f)
    BY <1>0, <2>2, StampSame DEF Refuse, RetryAck
  <2>3. CASE \E b \in Bindings(k) : Accept(k, n, f, b[1], b[2])
    <3>1. PICK b \in Bindings(k) : Accept(k, n, f, b[1], b[2])
      BY <2>3
    <3>2. /\ up /\ up' /\ Touch(n)
          /\ machines' = [machines EXCEPT ![n] = Begin(machines[n], k, b[1], b[2])]
      BY <3>1 DEF Accept
    <3>3. machines'[n].state # Absent
      <4>1. machines[n] \in Machine /\ machines'[n] = Begin(machines[n], k, b[1], b[2])
        BY <1>0, <3>2 DEF TypeOK
      <4> QED
        BY <4>1, BeginType DEF TransitionalStates, Absent
    <3>4. \A m \in Machines \ {n} : machines'[m] = machines[m]
      BY <1>0, <3>2 DEF TypeOK
    <3> QED
      BY <1>0, <3>2, <3>3, <3>4, StampTouch
  <2> QED
    BY <2>1, <2>2, <2>3 DEF Dispatch
<1>2. CASE \E r \in running : RunTransition(r)
  <2>1. PICK r \in running : RunTransition(r)
    BY <1>2
  <2>2. CASE ActuatorReturns(r) \/ NodeConfirmed(r) \/ ActuatorErrs(r)
    BY <1>0, <2>2, StampSame DEF ActuatorReturns, NodeConfirmed, ActuatorErrs, memory, store
  <2>3. ASSUME NEW failed \in BOOLEAN, Complete(r, failed) PROVE StampStep
    <3> DEFINE n == r.req.id
               rec == IF failed THEN Fail(machines[n]) ELSE Settle(machines[n], r.req)
    <3>1. /\ up /\ up' /\ n \in Machines /\ r.req \in Request
          /\ machines[n].state = Transitional[r.req.kind]
          /\ machines' = [machines EXCEPT ![n] = rec]
      BY <1>0, <2>3, CompletedRecord
    <3>2. Touch(n)
      BY <2>3, <3>1 DEF Complete
    <3>3. machines[n] \in Machine
      BY <1>0, <3>1 DEF TypeOK
    <3>4. rec.state # Absent
      BY <3>1, <3>3, FailType, SettleType DEF StableStates, Absent
    <3>5. machines'[n] = rec /\ \A m \in Machines \ {n} : machines'[m] = machines[m]
      BY <1>0, <3>1 DEF TypeOK
    <3> HIDE DEF n, rec
    <3> QED
      BY <1>0, <3>1, <3>2, <3>4, <3>5, StampTouch
  <2> QED
    BY <2>1, <2>2, <2>3 DEF RunTransition, Finish, Timeout
<1>3. CASE ReconcileDescribe \/ (\E q \in wire : Land(q)) \/ UNCHANGED vars
  BY <1>0, <1>3, StampSame DEF ReconcileDescribe, Land, memory, vars, store
<1>4. CASE \E in \in described : ReconcileApply(in)
  BY <1>0, <1>4, StampReconcileApply
<1>5. CASE BootFresh
  BY <1>5, StampBootFresh
<1>6. CASE BootStored
  BY <1>0, <1>6, StampBootStored
<1>7. CASE Crash
  BY <1>7, StampCrash
<1> QED
  BY <1>1, <1>2, <1>3, <1>4, <1>5, <1>6, <1>7 DEF Next

\* A process that died with its last save lost may come back with any revision.
StampKept == ~lost => StampInv

LEMMA LostForGood ==
    ASSUME TypeOK, [Next]_vars, ~lost'
    PROVE  ~lost
<1>1. CASE \E k \in Kinds, m \in Machines, f \in Tokens \union {ZeroToken} : Dispatch(k, m, f)
  BY <1>1 DEF Dispatch, Refuse, RetryAck, Accept
<1>2. CASE \E r \in running : RunTransition(r)
  <2>1. PICK r \in running : RunTransition(r)
    BY <1>2
  <2>2. CASE ActuatorReturns(r) \/ NodeConfirmed(r) \/ ActuatorErrs(r)
    BY <2>2 DEF ActuatorReturns, NodeConfirmed, ActuatorErrs, history
  <2>3. ASSUME NEW failed \in BOOLEAN, Complete(r, failed) PROVE lost' = lost
    BY <2>3 DEF Complete, history
  <2> QED
    BY <2>1, <2>2, <2>3 DEF RunTransition, Finish, Timeout
<1>3. CASE ReconcileDescribe \/ BootFresh \/ BootStored \/ Crash \/ UNCHANGED vars
  BY <1>3 DEF ReconcileDescribe, BootFresh, BootStored, Crash, history, vars
<1>4. CASE (\E in \in described : ReconcileApply(in)) \/ \E q \in wire : Land(q)
  BY <1>4 DEF ReconcileApply, Land, history
<1> QED
  BY <1>1, <1>2, <1>3, <1>4 DEF Next

KitFollowed == HistoryInv /\ RecordInv /\ StampKept

LEMMA KitFollowedAlways == Spec => []KitFollowed
<1>1. Init => StampKept
  BY StampInit DEF StampKept
<1>2. HistoryInv /\ RecordInv /\ StampKept /\ [Next]_vars => StampKept'
  <2> SUFFICES ASSUME HistoryInv, RecordInv, StampKept, [Next]_vars, ~lost' PROVE StampInv'
    BY DEF StampKept
  <2>1. ~lost /\ StampInv
    BY LostForGood DEF StampKept, HistoryInv, DriverInv
  <2> QED
    BY <2>1, StampNext DEF StampStep
<1>3. KitFollowed <=> HistoryInv /\ RecordInv /\ StampKept
  BY DEF KitFollowed
<1> QED
  BY <1>1, <1>2, <1>3, HistoryAlways, RecordAlways, PTL DEF Spec

-----------------------------------------------------------------------------
(* The poller.                                                              *)

\* The head revision never falls behind the cursor.
CursorInv == ~lost => cursor = NoCursor \/ (cursor \in Nat /\ cursor <= HeadRev)

\* The copy of a record whose stamp the cursor has reached is the record, and of a
\* record that is not there yet, there is no copy.
CopyInv ==
    ~lost => \A m \in Machines :
        /\ Head(m).state = Absent => copy[m] = NoMachine
        /\ cursor # NoCursor /\ Stamp(m) <= cursor => copy[m] = Head(m)

LEMMA HeadType ==
    ASSUME TypeOK
    PROVE  HeadRev \in Nat /\ \A m \in Machines : Stamp(m) \in Nat
BY DEF TypeOK, Snapshots, HeadRev, Stamp

\* A PollSpec behavior is one of the kit's, with the poller's calls as stutters.
LEMMA PollIsKit == PollSpec => Spec
<1>1. PollInit => Init
  BY DEF PollInit
<1>2. [PollNext]_pollVars => [Next]_vars
  BY DEF PollNext, pollVars, List
<1> QED
  BY <1>1, <1>2, PTL DEF PollSpec, Spec

LEMMA CursorNext ==
    ASSUME KitFollowed, KitFollowed', CursorInv, [PollNext]_pollVars
    PROVE  CursorInv'
<1> SUFFICES ASSUME ~lost' PROVE (cursor = NoCursor \/ (cursor \in Nat /\ cursor <= HeadRev))'
  BY DEF CursorInv
<1>0. TypeOK /\ TypeOK'
  BY DEF KitFollowed, HistoryInv, DriverInv
<1>1. CASE List
  <2>1. up' /\ cursor' = rev /\ rev' = rev
    BY <1>1 DEF List, vars, memory
  <2> QED
    BY <1>0, <2>1 DEF HeadRev, TypeOK
<1>2. CASE [Next]_vars /\ UNCHANGED poller
  <2>1. ~lost /\ StampInv
    BY <1>0, <1>2, LostForGood DEF KitFollowed, StampKept
  <2>2. HeadRev <= HeadRev'
    BY <1>2, <2>1, StampNext DEF KitFollowed, StampStep
  <2>3. HeadRev \in Nat /\ HeadRev' \in Nat
    BY <1>0, HeadType DEF HeadRev, TypeOK, Snapshots
  <2>4. cursor' = cursor
    BY <1>2 DEF poller
  <2> QED
    BY <2>1, <2>2, <2>3, <2>4 DEF CursorInv
<1> QED
  BY <1>1, <1>2 DEF PollNext, pollVars

\* What was not modified since the cursor is the poller's already: the rest a List
\* that is not cut short returns.
LEMMA CopyList ==
    ASSUME NeverCut, TypeOK, RecordInv, StampInv, CursorInv, CopyInv, ~lost, List
    PROVE  CopyInv'
<1>1. PICK page \in Pages({m \in Machines : Qualifies(m)}) :
        copy' = [m \in Machines |-> IF m \in page THEN machines[m] ELSE copy[m]]
  BY DEF List
<1>2. page = {m \in Machines : Qualifies(m)}
  <2>1. /\ IsFiniteSet({m \in Machines : Qualifies(m)})
        /\ Cardinality({m \in Machines : Qualifies(m)}) <= Cardinality(Machines)
        /\ Cardinality({m \in Machines : Qualifies(m)}) \in Nat /\ Cardinality(Machines) \in Nat
    BY MachinesAssumption, FS_Subset, FS_CardinalityType,
       {m \in Machines : Qualifies(m)} \subseteq Machines
  <2>2. MaxResults = 0 \/ Cardinality({m \in Machines : Qualifies(m)}) <= MaxResults
    BY <2>1, PollerAssumption DEF NeverCut
  <2> QED
    BY <1>1, <2>2 DEF Pages
<1>3. /\ up /\ up' /\ ~lost' /\ cursor' = rev
      /\ UNCHANGED <<machines, lastMod, rev>>
  BY DEF List, vars, memory, history
<1>4. \A m \in Machines : copy'[m] = machines[m]
  <2> TAKE m \in Machines
  <2>1. CASE Qualifies(m)
    BY <1>1, <1>2, <2>1
  <2>2. CASE ~Known(m)
    BY <1>1, <1>2, <1>3, <2>2 DEF Qualifies, Known, CopyInv, Head, RecordInv, RecordOK
  <2>3. CASE Known(m) /\ ~Qualifies(m)
    <3>1. cursor # NoCursor /\ ~(lastMod[m] > cursor)
      BY <2>3 DEF Qualifies
    <3>2. Stamp(m) <= cursor
      BY <1>3, <3>1 DEF Stamp, TypeOK, CursorInv
    <3> QED
      BY <1>1, <1>2, <1>3, <2>3, <3>1, <3>2 DEF CopyInv, Head
  <2> QED
    BY <2>1, <2>2, <2>3
<1>5. \A m \in Machines : Head(m)' = machines[m]
  BY <1>3 DEF Head
<1> QED
  BY <1>4, <1>5 DEF CopyInv, RecordInv, RecordOK, Head

LEMMA CopyKit ==
    ASSUME TypeOK, TypeOK', StampStep, CursorInv, CopyInv, ~lost, UNCHANGED poller
    PROVE  CopyInv'
<1>1. copy' = copy /\ cursor' = cursor
  BY DEF poller
<1>2. /\ HeadRev \in Nat
      /\ \A m \in Machines : Stamp(m) \in Nat /\ Stamp(m)' \in Nat
  BY HeadType DEF Stamp, TypeOK, Snapshots
<1> SUFFICES ASSUME NEW m \in Machines
             PROVE  /\ Head(m)'.state = Absent => copy'[m] = NoMachine
                    /\ cursor' # NoCursor /\ Stamp(m)' <= cursor' => copy'[m] = Head(m)'
  BY DEF CopyInv
<1>3. CASE Head(m)' = Head(m) /\ Stamp(m) <= Stamp(m)'
  BY <1>1, <1>2, <1>3 DEF CopyInv, CursorInv
<1>4. CASE HeadRev < Stamp(m)' /\ Head(m)'.state # Absent
  BY <1>1, <1>2, <1>4 DEF CursorInv
<1> QED
  BY <1>3, <1>4 DEF StampStep, StampMoves

PollInv == KitFollowed /\ CursorInv /\ (NeverCut => CopyInv)

LEMMA PollAlways == PollSpec => []PollInv
<1>1. PollInit => CursorInv /\ CopyInv
  <2> SUFFICES ASSUME PollInit PROVE CursorInv /\ CopyInv
    OBVIOUS
  <2> QED
    BY DEF PollInit, CursorInv, CopyInv
<1>2. KitFollowed /\ KitFollowed' /\ CursorInv /\ [PollNext]_pollVars => CursorInv'
  BY CursorNext
<1>3. KitFollowed /\ KitFollowed' /\ CursorInv /\ (NeverCut => CopyInv) /\ [PollNext]_pollVars
        => (NeverCut => CopyInv)'
  <2> SUFFICES ASSUME KitFollowed, KitFollowed', CursorInv, NeverCut, CopyInv,
                      [PollNext]_pollVars, ~lost'
               PROVE  CopyInv'
    BY DEF CopyInv, NeverCut
  <2>0. TypeOK /\ TypeOK' /\ HistoryInv /\ RecordInv
    BY DEF KitFollowed, HistoryInv, DriverInv
  <2>1. CASE List
    <3>1. ~lost /\ StampInv
      BY <2>1 DEF List, vars, history, KitFollowed, StampKept
    <3> QED
      BY <2>0, <2>1, <3>1, CopyList
  <2>2. CASE [Next]_vars /\ UNCHANGED poller
    <3>1. ~lost /\ StampInv
      BY <2>0, <2>2, LostForGood DEF KitFollowed, StampKept
    <3> QED
      BY <2>0, <2>2, <3>1, StampNext, CopyKit
  <2> QED
    BY <2>1, <2>2 DEF PollNext, pollVars
<1>4. PollInv <=> KitFollowed /\ CursorInv /\ (NeverCut => CopyInv)
  BY DEF PollInv
<1> QED
  BY <1>1, <1>2, <1>3, <1>4, PollIsKit, KitFollowedAlways, PTL DEF PollSpec

\* The revision a poller holds is never ahead of the provider's, restarts included:
\* New continues from the stored revision (server.go loadSnapshot), and a revision is
\* answered only after the save that covers it.
THEOREM CursorIsNotAhead == PollSpec => []CursorNotAhead
<1>1. PollInv => CursorNotAhead
  BY DEF PollInv, CursorInv, CursorNotAhead, HeadRev
<1> QED
  BY <1>1, PollAlways, PTL

\* A poller whose answers are never cut short misses nothing: what List will not
\* send it again, it has as it is, also when the process that answers is another
\* than the one that handed out the cursor.
THEOREM NothingIsMissed ==
    ASSUME NeverCut
    PROVE  PollSpec => []NothingMissed
<1>1. PollInv => NothingMissed
  BY DEF PollInv, CopyInv, NothingMissed, Head, Stamp
<1> QED
  BY <1>1, PollAlways, PTL
=============================================================================
