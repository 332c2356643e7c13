----------------------------- MODULE SpotProofs -----------------------------
(***************************************************************************)
(* Theorems about SpotProviders: what becomes of the interruption notices, *)
(* for any number of slots, VMs, notices and restarts.                     *)
(***************************************************************************)
EXTENDS SpotProviders, TLAPS

\* Pollers that hold a notice, and those that hold none.
Busy == {"received", "resolved", "handled"}
Free == {"idle", "starting", "off", "resuming", "stopped"}

VMRecord == [slot : Slots \union {NoSlot}, state : {"none", "alive", "gone", "stopped"}]
SlotRecord == [state : {"free", "held", "releasing", "failed"}, vm : VMs \union {NoVM}, risk : Risks]
Scan == [stage : {"off", "ready", "described"}, risk : [Slots -> Risks]]

SpotType ==
    /\ vm \in [VMs -> VMRecord]
    /\ record \in [Slots -> SlotRecord]
    /\ observed \in [Slots -> Risks]
    /\ issued \subseteq Notices /\ channel \subseteq issued
    /\ poller \in [stage : Busy \union Free, notice : Notices \union {NoNotice},
                   slot : Slots \union {NoSlot}]
    /\ scan \in [Loops -> Scan]

\* A VM has been launched for a slot; notices and records are of launched VMs.
Launched ==
    /\ \A i \in VMs : vm[i].state # "none" => vm[i].slot \in Slots
    /\ \A n \in issued : vm[n.vm].state # "none"
    /\ \A s \in Slots : record[s].state = "held" =>
          record[s].vm \in VMs /\ vm[record[s].vm].state # "none"

\* A live VM is its slot's, or the slot is failed: a slot that is free or being
\* released has none, so that a clear never takes a live VM's mark.
LiveIsHeld ==
    \A i \in VMs : Alive(i) =>
        \/ record[vm[i].slot].state = "failed"
        \/ record[vm[i].slot].state = "held" /\ record[vm[i].slot].vm = i

\* What the poller has in its hands.
InHand ==
    /\ poller.stage \in Free => poller.notice = NoNotice
    /\ poller.stage \in Busy => poller.notice \in issued
    /\ poller.stage = "resolved" => poller.slot = vm[poller.notice.vm].slot
    /\ poller.stage = "handled" /\ Alive(poller.notice.vm) =>
          poller.notice \in excused \/ observed[vm[poller.notice.vm].slot] > 0

Kept ==
    \A n \in issued :
        Alive(n.vm) => \/ n \in channel \union excused
                       \/ poller.notice = n
                       \/ observed[vm[n.vm].slot] > 0

SpotInv == SpotType /\ Launched /\ LiveIsHeld /\ InHand /\ Kept

LEMMA NoticeShape == \A n \in Notices : n.vm \in VMs /\ n.risk \in Risks /\ n.risk > 0
BY DEF Notices, Risks

\* No step takes a mark from the slot of a live VM, unless it excuses the notices.
LEMMA FleetMoves ==
    ASSUME SpotInv,
           vm' \in [VMs -> VMRecord], record' \in [Slots -> SlotRecord],
           observed' \in [Slots -> Risks],
           scan' \in [Loops -> Scan],
           UNCHANGED noticeVars,
           Launched', LiveIsHeld',
           \A n \in issued : Alive(n.vm)' =>
               /\ Alive(n.vm) /\ vm'[n.vm].slot = vm[n.vm].slot
               /\ observed[vm[n.vm].slot] > 0 => observed'[vm[n.vm].slot] > 0,
           \A n \in issued : vm'[n.vm].slot = vm[n.vm].slot
    PROVE  SpotInv'
<1>1. UNCHANGED <<issued, channel, poller, excused>>
  BY DEF noticeVars
<1>2. SpotType'
  BY <1>1 DEF SpotInv, SpotType
<1>3. InHand'
  <2>1. poller.stage \in Busy => poller.notice \in issued
    BY DEF SpotInv, InHand
  <2>2. poller.stage = "resolved" \/ poller.stage = "handled" => poller.notice \in issued
    BY <2>1 DEF Busy
  <2> QED
    BY <1>1, <2>2 DEF SpotInv, InHand
<1>4. Kept'
  BY <1>1 DEF SpotInv, Kept
<1> QED
  BY <1>2, <1>3, <1>4 DEF SpotInv

LEMMA LaunchKeeps == ASSUME SpotInv, NEW s \in Slots, Launch(s) PROVE SpotInv'
<1>1. PICK i \in VMs :
        /\ vm[i].state = "none" /\ vm' = [vm EXCEPT ![i] = [slot |-> s, state |-> "alive"]]
        /\ \/ record' = [record EXCEPT ![s].state = "held", ![s].vm = i]
           \/ record' = [record EXCEPT ![s].state = "failed"]
  BY DEF Launch
<1>2. /\ record[s].state = "free" /\ record[s] \in SlotRecord
      /\ record \in [Slots -> SlotRecord] /\ vm \in [VMs -> VMRecord]
      /\ UNCHANGED <<observed, scan, noticeVars>>
  BY DEF Launch, SpotInv, SpotType
<1>3. PICK new \in SlotRecord :
        /\ record' = [record EXCEPT ![s] = new]
        /\ new.state = "failed" \/ (new.state = "held" /\ new.vm = i)
  <2>1. CASE record' = [record EXCEPT ![s].state = "held", ![s].vm = i]
    <3> DEFINE new == [record[s] EXCEPT !.state = "held", !.vm = i]
    <3>1. new \in SlotRecord /\ new.state = "held" /\ new.vm = i
      BY <1>2 DEF SlotRecord
    <3>2. record' = [record EXCEPT ![s] = new]
      BY <1>2, <2>1 DEF SlotRecord
    <3> HIDE DEF new
    <3> QED
      BY <3>1, <3>2
  <2>2. CASE record' = [record EXCEPT ![s].state = "failed"]
    <3> DEFINE new == [record[s] EXCEPT !.state = "failed"]
    <3>1. new \in SlotRecord /\ new.state = "failed"
      BY <1>2 DEF SlotRecord
    <3>2. record' = [record EXCEPT ![s] = new]
      BY <1>2, <2>2 DEF SlotRecord
    <3> HIDE DEF new
    <3> QED
      BY <3>1, <3>2
  <2> QED
    BY <1>1, <2>1, <2>2
<1>4. /\ vm' \in [VMs -> VMRecord] /\ record' \in [Slots -> SlotRecord]
      /\ vm'[i].slot = s /\ vm'[i].state = "alive" /\ record'[s] = new
      /\ \A j \in VMs \ {i} : vm'[j] = vm[j]
      /\ \A t \in Slots \ {s} : record'[t] = record[t]
  BY <1>1, <1>2, <1>3 DEF VMRecord
<1>5. \A n \in issued : n.vm \in VMs /\ n.vm # i
  BY <1>1, NoticeShape DEF SpotInv, SpotType, Launched
<1>6. Launched'
  <2>1. \A j \in VMs : vm'[j].state # "none" => vm'[j].slot \in Slots
    BY <1>4 DEF SpotInv, Launched
  <2>2. \A n \in issued' : vm'[n.vm].state # "none"
    BY <1>2, <1>4, <1>5 DEF SpotInv, Launched, noticeVars
  <2>3. \A t \in Slots : record'[t].state = "held" =>
            record'[t].vm \in VMs /\ vm'[record'[t].vm].state # "none"
    BY <1>3, <1>4 DEF SpotInv, Launched
  <2> QED
    BY <2>1, <2>2, <2>3 DEF Launched
<1>7. LiveIsHeld'
  <2> SUFFICES ASSUME NEW j \in VMs, vm'[j].state = "alive"
               PROVE  \/ record'[vm'[j].slot].state = "failed"
                      \/ record'[vm'[j].slot].state = "held" /\ record'[vm'[j].slot].vm = j
    BY DEF LiveIsHeld, Alive
  <2>1. CASE j = i
    BY <1>3, <1>4, <2>1
  <2>2. CASE j # i
    <3>1. vm'[j] = vm[j] /\ vm[j].slot \in Slots
      BY <1>4, <2>2 DEF SpotInv, Launched
    <3>2. Alive(j)
      BY <3>1 DEF Alive
    <3>3. \/ record[vm[j].slot].state = "failed"
          \/ record[vm[j].slot].state = "held" /\ record[vm[j].slot].vm = j
      BY <3>2 DEF SpotInv, LiveIsHeld
    <3> QED
      BY <1>2, <1>4, <3>1, <3>3
  <2> QED
    BY <2>1, <2>2
<1> QED
  BY <1>2, <1>4, <1>5, <1>6, <1>7, FleetMoves DEF SpotInv, SpotType, Alive

\* The kit moves on with one slot, and the VM it held, if any, goes.
LEMMA SlotMoves ==
    ASSUME SpotInv, NEW s \in Slots, NEW new \in SlotRecord,
           record' = [record EXCEPT ![s] = new], new.state # "held",
           vm' \in [VMs -> VMRecord], observed' \in [Slots -> Risks],
           \A i \in VMs : /\ vm'[i].slot = vm[i].slot
                          /\ vm'[i].state \in {vm[i].state, "gone"}
                          /\ vm[i].state = "none" => vm'[i].state = "none",
           \A t \in Slots \ {s} : observed'[t] = observed[t],
           \A i \in VMs : Alive(i)' /\ vm[i].slot = s =>
               /\ new.state = "failed"
               /\ observed'[s] = observed[s],
           UNCHANGED <<scan, noticeVars>>
    PROVE  SpotInv'
<1>1. /\ record' \in [Slots -> SlotRecord] /\ record'[s] = new
      /\ \A t \in Slots \ {s} : record'[t] = record[t]
  BY DEF SpotInv, SpotType
<1>2. \A n \in issued : n.vm \in VMs /\ vm[n.vm].state # "none" /\ vm[n.vm].slot \in Slots
  BY NoticeShape DEF SpotInv, SpotType, Launched
<1>3. \A i \in VMs : Alive(i)' => Alive(i) /\ vm[i].slot \in Slots
  BY DEF Alive, SpotInv, Launched
<1>4. Launched'
  BY <1>1, <1>2 DEF SpotInv, Launched, noticeVars
<1>5. LiveIsHeld'
  <2> SUFFICES ASSUME NEW j \in VMs, Alive(j)'
               PROVE  \/ record'[vm'[j].slot].state = "failed"
                      \/ record'[vm'[j].slot].state = "held" /\ record'[vm'[j].slot].vm = j
    BY DEF LiveIsHeld
  <2>1. CASE vm[j].slot = s
    BY <1>1, <2>1
  <2>2. CASE vm[j].slot # s
    BY <1>1, <1>3, <2>2 DEF SpotInv, LiveIsHeld
  <2> QED
    BY <2>1, <2>2
<1>6. \A n \in issued : Alive(n.vm)' =>
        /\ Alive(n.vm) /\ vm'[n.vm].slot = vm[n.vm].slot
        /\ observed[vm[n.vm].slot] > 0 => observed'[vm[n.vm].slot] > 0
  BY <1>2, <1>3
<1> QED
  BY <1>1, <1>2, <1>4, <1>5, <1>6, FleetMoves DEF SpotInv, SpotType

LEMMA ReleasedKeeps == ASSUME SpotInv, NEW s \in Slots, Released(s) PROVE SpotInv'
<1> DEFINE new == [record[s] EXCEPT !.state = "releasing"]
           i == record[s].vm
<1>0. i \in VMs /\ vm[i].state # "none"
  BY DEF Released, SpotInv, Launched
<1>1. /\ record[s] \in SlotRecord /\ record \in [Slots -> SlotRecord] /\ vm \in [VMs -> VMRecord]
      /\ record[s].state = "held" /\ UNCHANGED <<observed, scan, noticeVars>>
      /\ vm' = [vm EXCEPT ![i].state = "gone"] /\ record' = [record EXCEPT ![s].state = "releasing"]
      /\ observed \in [Slots -> Risks]
  BY DEF Released, SpotInv, SpotType
<1>2. new \in SlotRecord /\ new.state = "releasing" /\ record' = [record EXCEPT ![s] = new]
  BY <1>1 DEF SlotRecord
<1>3. \A j \in VMs : Alive(j) /\ vm[j].slot = s => j = i
  BY <1>1 DEF SpotInv, LiveIsHeld
<1>4. /\ vm' \in [VMs -> VMRecord]
      /\ \A j \in VMs : /\ vm'[j].slot = vm[j].slot
                        /\ vm'[j].state = IF j = i THEN "gone" ELSE vm[j].state
  BY <1>1 DEF VMRecord
<1> HIDE DEF new, i
<1>5. \A j \in VMs : Alive(j)' => Alive(j) /\ vm[j].slot # s
  BY <1>3, <1>4 DEF Alive
<1>6. \A j \in VMs : vm[j].state = "none" => vm'[j].state = "none"
  BY <1>0, <1>4
<1>7. /\ vm' \in [VMs -> VMRecord] /\ UNCHANGED <<scan, noticeVars>>
      /\ \A j \in VMs : ~(Alive(j)' /\ vm[j].slot = s)
      /\ \A t \in Slots \ {s} : observed'[t] = observed[t]
      /\ observed' \in [Slots -> Risks]
  BY <1>1, <1>4, <1>5
<1>8. \A j \in VMs : /\ vm'[j].slot = vm[j].slot
                     /\ vm'[j].state \in {vm[j].state, "gone"}
                     /\ vm[j].state = "none" => vm'[j].state = "none"
  BY <1>4, <1>6
<1> QED
  BY <1>2, <1>7, <1>8, SlotMoves

LEMMA ReleaseFailedKeeps == ASSUME SpotInv, NEW s \in Slots, ReleaseFailed(s) PROVE SpotInv'
<1> DEFINE new == [record[s] EXCEPT !.state = "failed"]
<1>1. /\ record[s] \in SlotRecord /\ record \in [Slots -> SlotRecord] /\ vm \in [VMs -> VMRecord]
      /\ UNCHANGED <<vm, observed, scan, noticeVars>>
      /\ record' = [record EXCEPT ![s].state = "failed"]
      /\ observed \in [Slots -> Risks]
  BY DEF ReleaseFailed, SpotInv, SpotType
<1>2. new \in SlotRecord /\ new.state = "failed" /\ record' = [record EXCEPT ![s] = new]
  BY <1>1 DEF SlotRecord
<1> HIDE DEF new
<1> QED
  BY <1>1, <1>2, SlotMoves

LEMMA ClearedKeeps == ASSUME SpotInv, NEW s \in Slots, Cleared(s) PROVE SpotInv'
<1> DEFINE new == [record[s] EXCEPT !.state = "free", !.vm = NoVM]
<1>1. /\ record[s] \in SlotRecord /\ record \in [Slots -> SlotRecord] /\ vm \in [VMs -> VMRecord]
      /\ record[s].state = "releasing" /\ UNCHANGED <<vm, scan, noticeVars>>
      /\ record' = [record EXCEPT ![s].state = "free", ![s].vm = NoVM]
      /\ observed' = [observed EXCEPT ![s] = 0]
      /\ observed \in [Slots -> Risks]
  BY DEF Cleared, SpotInv, SpotType
<1>2. new \in SlotRecord /\ new.state = "free" /\ record' = [record EXCEPT ![s] = new]
  BY <1>1 DEF SlotRecord
<1>3. observed' \in [Slots -> Risks] /\ \A t \in Slots \ {s} : observed'[t] = observed[t]
  BY <1>1 DEF Risks
<1>4. \A j \in VMs : Alive(j) => vm[j].slot # s
  BY <1>1 DEF SpotInv, LiveIsHeld
<1>5. \A j \in VMs : ~(Alive(j)' /\ vm[j].slot = s)
  BY <1>1, <1>4 DEF Alive
<1> HIDE DEF new
<1> QED
  BY <1>1, <1>2, <1>3, <1>4, <1>5, SlotMoves

\* Reconcile publishes the tracker's view and leaves the rest of a record alone.
LEMMA ReconcileKeeps ==
    ASSUME SpotInv, Described("ticker") \/ Refreshed("ticker", "ready")
    PROVE  SpotInv'
<1>1. /\ record \in [Slots -> SlotRecord] /\ scan \in [Loops -> Scan] /\ "ticker" \in Loops
      /\ observed \in [Slots -> Risks]
      /\ UNCHANGED <<vm, observed, noticeVars>>
  BY DEF Described, Refreshed, SpotInv, SpotType, Loops
<1>2. /\ record' \in [Slots -> SlotRecord]
      /\ \A s \in Slots : record'[s].state = record[s].state /\ record'[s].vm = record[s].vm
  <2>1. CASE UNCHANGED record
    BY <1>1, <2>1
  <2>2. CASE record' = [s \in Slots |-> [record[s] EXCEPT !.risk = scan["ticker"].risk[s]]]
    <3>1. scan["ticker"].risk \in [Slots -> Risks]
      BY <1>1 DEF Scan
    <3> QED
      BY <1>1, <2>2, <3>1 DEF SlotRecord
  <2> QED
    BY <2>1, <2>2 DEF Described, Refreshed
<1>3. scan' \in [Loops -> Scan]
  <2>1. Between("ready") \in Scan
    BY DEF Between, Scan, Risks
  <2>2. [stage |-> "described", risk |-> observed] \in Scan
    BY <1>1 DEF Scan
  <2>3. PICK new \in Scan : scan' = [scan EXCEPT !["ticker"] = new]
    BY <2>1, <2>2 DEF Described, Refreshed
  <2> QED
    BY <1>1, <2>3
<1>4. Launched'
  BY <1>1, <1>2 DEF SpotInv, Launched, noticeVars
<1>5. LiveIsHeld'
  BY <1>1, <1>2 DEF SpotInv, LiveIsHeld, Launched, Alive
<1>6. \A n \in issued : Alive(n.vm)' <=> Alive(n.vm)
  BY <1>1 DEF Alive
<1> QED
  BY <1>1, <1>2, <1>3, <1>4, <1>5, <1>6, FleetMoves DEF SpotInv, SpotType

LEMMA ReclaimKeeps == ASSUME SpotInv, NEW i \in VMs, Reclaim(i, "gone") PROVE SpotInv'
<1>1. /\ vm \in [VMs -> VMRecord] /\ Alive(i) /\ vm' = [vm EXCEPT ![i].state = "gone"]
      /\ UNCHANGED <<record, observed, scan, noticeVars>>
  BY DEF Reclaim, SpotInv, SpotType
<1>2. /\ vm' \in [VMs -> VMRecord]
      /\ \A j \in VMs : /\ vm'[j].slot = vm[j].slot
                        /\ vm'[j].state = IF j = i THEN "gone" ELSE vm[j].state
  BY <1>1 DEF VMRecord
<1>3. \A j \in VMs : Alive(j)' => Alive(j)
  BY <1>2 DEF Alive
<1>4. \A n \in issued : n.vm \in VMs
  BY NoticeShape DEF SpotInv, SpotType
<1>5. Launched'
  BY <1>1, <1>2, <1>4 DEF SpotInv, Launched, noticeVars, Alive
<1>6. LiveIsHeld'
  BY <1>1, <1>2, <1>3 DEF SpotInv, LiveIsHeld
<1> QED
  BY <1>1, <1>2, <1>3, <1>4, <1>5, <1>6, FleetMoves DEF SpotInv, SpotType

-----------------------------------------------------------------------------
(* The notices.                                                             *)

\* A step of the poller's, or of the queue's: the fleet stays as it is, but for a mark.
LEMMA PollerMoves ==
    ASSUME SpotInv, UNCHANGED <<vm, record, scan>>,
           observed' \in [Slots -> Risks],
           \A s \in Slots : observed[s] > 0 => observed'[s] > 0,
           poller' \in [stage : Busy \union Free, notice : Notices \union {NoNotice},
                        slot : Slots \union {NoSlot}],
           issued' \subseteq Notices, channel' \subseteq issued', issued \subseteq issued',
           excused \subseteq excused',
           \A n \in issued' \ issued : Alive(n.vm) /\ n \in channel' \union excused',
           InHand',
           \A n \in issued : Alive(n.vm) /\ (n \in channel \/ poller.notice = n) =>
               \/ n \in channel' \union excused'
               \/ poller'.notice = n
               \/ observed'[vm[n.vm].slot] > 0
    PROVE  SpotInv'
<1>1. SpotType'
  BY DEF SpotInv, SpotType
<1>2. Launched'
  BY DEF SpotInv, Launched, Alive
<1>3. LiveIsHeld'
  BY DEF SpotInv, LiveIsHeld, Alive
<1>4. Kept'
  <2> SUFFICES ASSUME NEW n \in issued', Alive(n.vm)
               PROVE  \/ n \in channel' \union excused'
                      \/ poller'.notice = n
                      \/ observed'[vm[n.vm].slot] > 0
    BY DEF Kept, Alive
  <2>1. CASE n \in issued
    <3>1. vm[n.vm].slot \in Slots
      BY <2>1, NoticeShape DEF SpotInv, SpotType, Launched
    <3> QED
      BY <2>1, <3>1 DEF SpotInv, Kept
  <2>2. CASE n \notin issued
    BY <2>2
  <2> QED
    BY <2>1, <2>2
<1> QED
  BY <1>1, <1>2, <1>3, <1>4 DEF SpotInv

\* A restart empties the tracker and excuses every notice that is not on its way.
LEMMA RebootKeeps ==
    ASSUME SpotInv, Rebooted, NEW stage \in {"idle", "starting", "resuming"},
           poller' = [Idling EXCEPT !.stage = stage],
           excused' = excused \union (issued \ channel), UNCHANGED channel
    PROVE  SpotInv'
<1>1. /\ observed' = [s \in Slots |-> 0] /\ UNCHANGED <<vm, issued, channel>>
      /\ scan' = [g \in Loops |-> Between(IF g = "ticker" THEN "ready" ELSE "off")]
      /\ record \in [Slots -> SlotRecord]
  BY DEF Rebooted, SpotInv, SpotType
<1>2. /\ record' \in [Slots -> SlotRecord]
      /\ \A s \in Slots :
           /\ record'[s].vm = record[s].vm
           /\ record'[s].state = IF record[s].state = "releasing" THEN "failed"
                                 ELSE record[s].state
  BY <1>1 DEF Rebooted, SlotRecord
<1>3. scan' \in [Loops -> Scan] /\ observed' \in [Slots -> Risks]
  BY <1>1 DEF Between, Scan, Risks
<1>4. /\ poller'.stage = stage /\ poller'.notice = NoNotice
      /\ poller' \in [stage : Busy \union Free, notice : Notices \union {NoNotice},
                      slot : Slots \union {NoSlot}]
  BY DEF Idling, Busy, Free
<1>5. SpotType'
  BY <1>1, <1>2, <1>3, <1>4 DEF SpotInv, SpotType
<1>6. Launched'
  BY <1>1, <1>2 DEF SpotInv, Launched
<1>7. LiveIsHeld'
  BY <1>1, <1>2 DEF SpotInv, LiveIsHeld, Launched, Alive
<1>8. InHand'
  BY <1>4 DEF InHand, Busy, Free
<1>9. Kept'
  BY <1>1 DEF Kept, SpotInv, SpotType
<1> QED
  BY <1>5, <1>6, <1>7, <1>8, <1>9 DEF SpotInv

LEMMA Start ==
    ASSUME FleetInit, NEW stage \in {"idle", "starting"}, poller = [Idling EXCEPT !.stage = stage]
    PROVE  SpotInv
<1> USE DEF FleetInit
<1>1. vm \in [VMs -> VMRecord] /\ record \in [Slots -> SlotRecord] /\ observed \in [Slots -> Risks]
  BY DEF VMRecord, SlotRecord, Risks
<1>2. scan \in [Loops -> Scan]
  BY DEF Between, Scan, Risks
<1>3. /\ poller.stage = stage /\ poller.notice = NoNotice
      /\ poller \in [stage : Busy \union Free, notice : Notices \union {NoNotice},
                     slot : Slots \union {NoSlot}]
  BY DEF Idling, Busy, Free
<1>4. SpotType
  BY <1>1, <1>2, <1>3 DEF SpotType
<1>5. Launched /\ LiveIsHeld /\ Kept
  BY DEF Launched, LiveIsHeld, Alive, Kept
<1>6. InHand
  BY <1>3 DEF InHand, Busy, Free
<1> QED
  BY <1>4, <1>5, <1>6 DEF SpotInv

-----------------------------------------------------------------------------
(* AWS. *)

\* What Aws!X and Oci!X say is what SpotFleet's X says.
LEMMA SameFleet ==
    /\ \A s \in Slots : /\ Aws!Launch(s) <=> Launch(s)
                        /\ Oci!Launch(s) <=> Launch(s)
                        /\ Aws!Released(s) <=> Released(s)
                        /\ Oci!Released(s) <=> Released(s)
                        /\ Aws!ReleaseFailed(s) <=> ReleaseFailed(s)
                        /\ Oci!ReleaseFailed(s) <=> ReleaseFailed(s)
                        /\ Aws!Cleared(s) <=> Cleared(s)
                        /\ Oci!Cleared(s) <=> Cleared(s)
    /\ \A i \in VMs : /\ Aws!Reclaim(i, "gone") <=> Reclaim(i, "gone")
                      /\ Oci!Reclaim(i, "gone") <=> Reclaim(i, "gone")
    /\ Aws!Described("ticker") <=> Described("ticker")
    /\ Oci!Described("ticker") <=> Described("ticker")
    /\ Aws!Refreshed("ticker", "ready") <=> Refreshed("ticker", "ready")
    /\ Oci!Refreshed("ticker", "ready") <=> Refreshed("ticker", "ready")
    /\ Aws!Rebooted <=> Rebooted
    /\ Oci!Rebooted <=> Rebooted
    /\ Aws!Notices = Notices /\ Oci!Notices = Notices
    /\ \A i \in VMs : (Aws!Alive(i) <=> Alive(i)) /\ (Oci!Alive(i) <=> Alive(i))
<1> USE DEF Aws!noticeVars, Oci!noticeVars, noticeVars
<1>1. \A s \in Slots : /\ Aws!Launch(s) <=> Launch(s)
                       /\ Oci!Launch(s) <=> Launch(s)
  BY DEF Aws!Launch, Oci!Launch, Launch
<1>2. \A s \in Slots : /\ Aws!Released(s) <=> Released(s)
                       /\ Oci!Released(s) <=> Released(s)
                       /\ Aws!ReleaseFailed(s) <=> ReleaseFailed(s)
                       /\ Oci!ReleaseFailed(s) <=> ReleaseFailed(s)
                       /\ Aws!Cleared(s) <=> Cleared(s)
                       /\ Oci!Cleared(s) <=> Cleared(s)
  BY DEF Aws!Released, Oci!Released, Released, Aws!ReleaseFailed, Oci!ReleaseFailed,
         ReleaseFailed, Aws!Cleared, Oci!Cleared, Cleared
<1>3. \A i \in VMs : (Aws!Alive(i) <=> Alive(i)) /\ (Oci!Alive(i) <=> Alive(i))
  BY DEF Aws!Alive, Oci!Alive, Alive
<1>4. \A i \in VMs : /\ Aws!Reclaim(i, "gone") <=> Reclaim(i, "gone")
                     /\ Oci!Reclaim(i, "gone") <=> Reclaim(i, "gone")
  BY <1>3 DEF Aws!Reclaim, Oci!Reclaim, Reclaim
<1>5. /\ Aws!Described("ticker") <=> Described("ticker")
      /\ Oci!Described("ticker") <=> Described("ticker")
      /\ Aws!Refreshed("ticker", "ready") <=> Refreshed("ticker", "ready")
      /\ Oci!Refreshed("ticker", "ready") <=> Refreshed("ticker", "ready")
  BY DEF Aws!Described, Oci!Described, Described, Aws!Refreshed, Oci!Refreshed, Refreshed,
         Aws!Between, Oci!Between, Between
<1>6. (Aws!Rebooted <=> Rebooted) /\ (Oci!Rebooted <=> Rebooted)
  BY DEF Aws!Rebooted, Oci!Rebooted, Rebooted, Aws!Between, Oci!Between, Between,
         Aws!Loops, Oci!Loops, Loops
<1>7. Aws!Notices = Notices /\ Oci!Notices = Notices
  BY DEF Aws!Notices, Oci!Notices, Notices, Aws!Risks, Oci!Risks, Risks
<1> QED
  BY <1>1, <1>2, <1>3, <1>4, <1>5, <1>6, <1>7

\* The steps the two have in common.
LEMMA FleetKeeps ==
    ASSUME SpotInv,
           \/ \E s \in Slots : Launch(s) \/ Released(s) \/ ReleaseFailed(s) \/ Cleared(s)
           \/ Described("ticker") \/ Refreshed("ticker", "ready")
           \/ \E i \in VMs : Reclaim(i, "gone")
    PROVE  SpotInv'
BY LaunchKeeps, ReleasedKeeps, ReleaseFailedKeeps, ClearedKeeps, ReconcileKeeps, ReclaimKeeps

\* A notice is given, of a live VM, and is on its way or excused.
LEMMA NotifyKeeps ==
    ASSUME SpotInv, NEW n \in Notices, Alive(n.vm), issued' = issued \union {n},
           \/ channel' = channel \union {n} /\ UNCHANGED excused
           \/ excused' = excused \union {n} /\ UNCHANGED channel,
           UNCHANGED <<vm, record, observed, scan, poller>>
    PROVE  SpotInv'
<1>1. InHand'
  BY DEF SpotInv, InHand, Alive
<1> QED
  BY <1>1, PollerMoves DEF SpotInv, SpotType

LEMMA TakeKeeps ==
    ASSUME SpotInv, NEW n \in channel, poller.stage = "idle",
           poller' = [Idling EXCEPT !.stage = "received", !.notice = n],
           channel' \in {channel, channel \ {n}},
           UNCHANGED <<vm, record, observed, scan, issued, excused>>
    PROVE  SpotInv'
<1>1. n \in issued /\ n \in Notices /\ poller.notice = NoNotice /\ issued \subseteq Notices
  BY DEF SpotInv, SpotType, InHand, Free
<1>2. /\ poller'.stage = "received" /\ poller'.notice = n
      /\ poller' \in [stage : Busy \union Free, notice : Notices \union {NoNotice},
                      slot : Slots \union {NoSlot}]
  BY <1>1 DEF Idling, Busy, Free
<1>3. InHand'
  BY <1>1, <1>2 DEF InHand, Busy, Free
<1>4. \A b \in issued : b # NoNotice
  BY <1>1, NoNoticeAssumption
<1> QED
  BY <1>1, <1>2, <1>3, <1>4, PollerMoves DEF SpotInv, SpotType

LEMMA MarkKeeps ==
    ASSUME SpotInv, poller.stage = "resolved", Marked(poller.slot, poller.notice),
           \/ poller' = [poller EXCEPT !.stage = "handled"]
           \/ poller' = Idling,
           UNCHANGED <<vm, record, scan, issued, channel, excused>>
    PROVE  SpotInv'
<1> DEFINE n == poller.notice
           s == vm[n.vm].slot
<1>1. /\ n \in issued /\ n \in Notices /\ n.vm \in VMs /\ poller.slot = s
      /\ n.risk \in Risks /\ n.risk > 0 /\ s \in Slots /\ issued \subseteq Notices
  BY NoticeShape DEF SpotInv, SpotType, InHand, Busy, Launched
<1>2. observed' = [observed EXCEPT ![s] = n.risk] /\ observed \in [Slots -> Risks]
  BY <1>1 DEF Marked, SpotInv, SpotType
<1> HIDE DEF s
<1>3. /\ observed' \in [Slots -> Risks] /\ observed'[s] > 0
      /\ \A t \in Slots : observed[t] > 0 => observed'[t] > 0
  BY <1>1, <1>2
<1>4. CASE poller' = [poller EXCEPT !.stage = "handled"]
  <2>1. /\ poller'.stage = "handled" /\ poller'.notice = n
        /\ poller' \in [stage : Busy \union Free, notice : Notices \union {NoNotice},
                        slot : Slots \union {NoSlot}]
    BY <1>4 DEF SpotInv, SpotType, Busy, Free
  <2>2. InHand'
    BY <1>1, <1>3, <2>1 DEF InHand, Busy, Free, s
  <2> QED
    BY <1>3, <2>1, <2>2, PollerMoves DEF SpotInv, SpotType
<1>5. CASE poller' = Idling
  <2>1. /\ poller'.stage = "idle" /\ poller'.notice = NoNotice
        /\ poller' \in [stage : Busy \union Free, notice : Notices \union {NoNotice},
                        slot : Slots \union {NoSlot}]
    BY <1>5 DEF Idling, Busy, Free
  <2>2. InHand'
    BY <2>1 DEF InHand, Busy, Free
  <2>3. n \in issued => observed'[vm[n.vm].slot] > 0
    BY <1>3 DEF s
  <2> QED
    BY <1>3, <2>1, <2>2, <2>3, PollerMoves DEF SpotInv, SpotType
<1> QED
  BY <1>4, <1>5

\* The notice is put down: it is back on its way, excused, its VM is gone, or its
\* slot is marked.
LEMMA PutDownKeeps ==
    ASSUME SpotInv, poller.stage \in Busy, NEW stage \in {"idle", "off"},
           poller' = [Idling EXCEPT !.stage = stage],
           channel \ {poller.notice} \subseteq channel', channel' \subseteq channel,
           excused \subseteq excused',
           Alive(poller.notice.vm) =>
               \/ poller.notice \in excused'
               \/ observed[vm[poller.notice.vm].slot] > 0,
           UNCHANGED <<vm, record, observed, scan, issued>>
    PROVE  SpotInv'
<1>1. /\ poller'.stage = stage /\ poller'.notice = NoNotice
      /\ poller' \in [stage : Busy \union Free, notice : Notices \union {NoNotice},
                      slot : Slots \union {NoSlot}]
  BY DEF Idling, Busy, Free
<1>2. InHand'
  BY <1>1 DEF InHand, Busy, Free
<1>3. /\ issued \subseteq Notices /\ channel \subseteq issued /\ observed \in [Slots -> Risks]
  BY DEF SpotInv, SpotType
<1>4. \A n \in issued : Alive(n.vm) /\ (n \in channel \/ poller.notice = n) =>
               \/ n \in channel' \union excused'
               \/ poller'.notice = n
               \/ observed'[vm[n.vm].slot] > 0
  <2> SUFFICES ASSUME NEW n \in issued, Alive(n.vm), n \in channel \/ poller.notice = n
               PROVE  n \in channel' \union excused' \/ observed'[vm[n.vm].slot] > 0
    OBVIOUS
  <2>1. CASE poller.notice = n
    BY <2>1
  <2>2. CASE poller.notice # n
    BY <2>2
  <2> QED
    BY <2>1, <2>2
<1> QED
  BY <1>1, <1>2, <1>3, <1>4, PollerMoves

LEMMA ResolvedKeeps ==
    ASSUME SpotInv, poller.stage = "received", excused \subseteq excused',
           UNCHANGED <<vm, record, observed, scan, issued, channel>>,
           \/ poller' = [poller EXCEPT !.stage = "resolved", !.slot = vm[poller.notice.vm].slot]
           \/ /\ poller' = [poller EXCEPT !.stage = "handled"]
              /\ Alive(poller.notice.vm) => poller.notice \in excused'
    PROVE  SpotInv'
<1>1. /\ poller.notice \in issued /\ poller.notice \in Notices /\ poller.notice.vm \in VMs
      /\ vm[poller.notice.vm].slot \in Slots
      /\ issued \subseteq Notices /\ channel \subseteq issued /\ observed \in [Slots -> Risks]
      /\ poller \in [stage : Busy \union Free, notice : Notices \union {NoNotice},
                     slot : Slots \union {NoSlot}]
  BY NoticeShape DEF SpotInv, SpotType, InHand, Busy, Launched
<1>2. /\ poller'.notice = poller.notice
      /\ poller' \in [stage : Busy \union Free, notice : Notices \union {NoNotice},
                      slot : Slots \union {NoSlot}]
      /\ \/ poller'.stage = "resolved" /\ poller'.slot = vm[poller.notice.vm].slot
         \/ /\ poller'.stage = "handled"
            /\ Alive(poller.notice.vm) => poller.notice \in excused'
  BY <1>1 DEF Busy, Free
<1>3. InHand'
  BY <1>1, <1>2 DEF InHand, Busy, Free, Alive
<1> QED
  BY <1>1, <1>2, <1>3, PollerMoves

LEMMA AwsKeeps == ASSUME SpotInv, Aws!Next PROVE SpotInv'
<1>1. CASE \/ \E s \in Slots : Aws!CreateInstance(s) \/ Aws!DeleteInstance(s)
           \/ Aws!Reconcile
           \/ \E i \in VMs : Aws!Reclaim(i, "gone")
  BY <1>1, SameFleet, FleetKeeps DEF Aws!CreateInstance, Aws!DeleteInstance,
     Aws!TerminateInstance, Aws!Reconcile
<1>2. CASE \E n \in Aws!Notices : Aws!Notify(n)
  <2> PICK n \in Notices : Aws!Notify(n)
    BY <1>2, SameFleet
  <2>1. n.vm \in VMs
    BY NoticeShape
  <2>2. Alive(n.vm)
    BY <2>1, SameFleet DEF Aws!Notify, Aws!NewNotice
  <2> QED
    BY <2>2, NotifyKeeps DEF Aws!Notify, Aws!fleetVars
<1>3. CASE \E n \in Aws!Notices : Aws!Receive(n)
  <2> PICK n \in Notices : Aws!Receive(n)
    BY <1>3, SameFleet
  <2> QED
    BY TakeKeeps DEF Aws!Receive, Aws!fleetVars, Aws!Idling, Idling
<1>4. CASE Aws!Resolve
  <2>1. poller.notice \in Notices /\ poller.notice.vm \in VMs
    BY <1>4, NoticeShape DEF Aws!Resolve, SpotInv, SpotType, InHand, Busy
  <2>2. Aws!Alive(poller.notice.vm) <=> Alive(poller.notice.vm)
    BY <2>1, SameFleet
  <2> QED
    BY <1>4, <2>2, ResolvedKeeps DEF Aws!Resolve, Aws!fleetVars
<1>5. CASE Aws!Mark
  BY <1>5, MarkKeeps DEF Aws!Mark, Aws!Marked, Marked
<1>6. CASE Aws!DeleteMessage
  <2>1. poller' = [Idling EXCEPT !.stage = "idle"]
    BY <1>6 DEF Aws!DeleteMessage, Aws!Idling, Idling
  <2>2. poller.stage = "handled" /\ channel' \in {channel, channel \ {poller.notice}}
        /\ UNCHANGED <<vm, record, observed, scan, issued, excused>>
    BY <1>6 DEF Aws!DeleteMessage, Aws!fleetVars
  <2>3. Alive(poller.notice.vm) =>
               \/ poller.notice \in excused
               \/ observed[vm[poller.notice.vm].slot] > 0
    BY <2>2 DEF SpotInv, InHand
  <2> QED
    BY <2>1, <2>2, <2>3, PutDownKeeps DEF Busy
<1>7. CASE Aws!Restart
  <2>1. poller' = [Idling EXCEPT !.stage = "idle"]
    BY <1>7 DEF Aws!Restart, Aws!Idling, Idling
  <2> QED
    BY <1>7, <2>1, SameFleet, RebootKeeps DEF Aws!Restart
<1> QED
  BY <1>1, <1>2, <1>3, <1>4, <1>5, <1>6, <1>7 DEF Aws!Next

LEMMA OciKeeps == ASSUME SpotInv, Oci!Next PROVE SpotInv'
<1>1. CASE \/ \E s \in Slots : Oci!CreateInstance(s) \/ Oci!DeleteInstance(s)
           \/ Oci!Reconcile
           \/ \E i \in VMs : Oci!Reclaim(i, "gone")
  BY <1>1, SameFleet, FleetKeeps DEF Oci!CreateInstance, Oci!DeleteInstance,
     Oci!TerminateInstance, Oci!Reconcile
<1>2. CASE \E n \in Oci!Notices : Oci!Notify(n)
  <2> PICK n \in Notices : Oci!Notify(n)
    BY <1>2, SameFleet
  <2>1. n.vm \in VMs
    BY NoticeShape
  <2>2. Alive(n.vm)
    BY <2>1, SameFleet DEF Oci!Notify, Oci!NewNotice
  <2> QED
    BY <2>2, NotifyKeeps DEF Oci!Notify, Oci!fleetVars
<1>3. CASE \E n \in Oci!Notices : Oci!GetMessages(n)
  <2> PICK n \in Notices : Oci!GetMessages(n)
    BY <1>3, SameFleet
  <2> QED
    BY TakeKeeps DEF Oci!GetMessages, Oci!fleetVars, Oci!Idling, Idling
<1>8. CASE \E n \in Oci!Notices : Oci!GetMessagesLost(n)
  <2> PICK n \in Notices : Oci!GetMessagesLost(n)
    BY <1>8, SameFleet
  <2>1. /\ channel' = channel \ {n} /\ excused' = excused \union {n}
        /\ UNCHANGED <<vm, record, observed, scan, poller, issued>>
    BY DEF Oci!GetMessagesLost, Oci!fleetVars
  <2>2. InHand'
    BY <2>1 DEF SpotInv, InHand, Alive
  <2> QED
    BY <2>1, <2>2, PollerMoves DEF SpotInv, SpotType
<1>4. CASE Oci!Resolve
  <2>1. poller.notice \in Notices /\ poller.notice.vm \in VMs /\ poller.stage = "received"
    BY <1>4, NoticeShape DEF Oci!Resolve, SpotInv, SpotType, InHand, Busy
  <2>2. Oci!Alive(poller.notice.vm) <=> Alive(poller.notice.vm)
    BY <2>1, SameFleet
  <2>3. CASE poller' = Oci!Idling
    <3>1. poller' = [Idling EXCEPT !.stage = "idle"]
      BY <2>3 DEF Oci!Idling, Idling
    <3>2. /\ UNCHANGED <<vm, record, observed, scan, issued, channel>>
          /\ excused \subseteq excused'
          /\ Alive(poller.notice.vm) => poller.notice \in excused'
      BY <1>4, <2>1, <2>2, <2>3 DEF Oci!Resolve, Oci!fleetVars, Oci!Idling
    <3> QED
      BY <2>1, <3>1, <3>2, PutDownKeeps DEF Busy
  <2>4. CASE poller' # Oci!Idling
    BY <1>4, <2>4, ResolvedKeeps DEF Oci!Resolve, Oci!fleetVars
  <2> QED
    BY <2>3, <2>4
<1>5. CASE Oci!Mark
  BY <1>5, MarkKeeps DEF Oci!Mark, Oci!Marked, Marked, Oci!Idling, Idling
<1>6. CASE Oci!CursorFails \/ Oci!CursorCreated
  <2>1. /\ poller.stage \in Free /\ poller.notice = NoNotice
        /\ poller'.stage \in Free /\ poller'.notice = NoNotice
        /\ poller' \in [stage : Busy \union Free, notice : Notices \union {NoNotice},
                        slot : Slots \union {NoSlot}]
    BY <1>6 DEF Oci!CursorFails, Oci!CursorCreated, Oci!Idling, SpotInv, SpotType, InHand,
       Busy, Free
  <2>2. UNCHANGED <<vm, record, observed, scan, issued, channel, excused>>
    BY <1>6 DEF Oci!CursorFails, Oci!CursorCreated, Oci!fleetVars
  <2>3. InHand'
    BY <2>1 DEF InHand, Busy, Free
  <2> QED
    BY <2>1, <2>2, <2>3, PollerMoves DEF SpotInv, SpotType
<1>7. CASE Oci!Restart
  <2>1. PICK stage \in {"idle", "starting", "resuming"} :
            poller' = [Idling EXCEPT !.stage = stage]
    BY <1>7 DEF Oci!Restart, Oci!Idling, Idling
  <2> QED
    BY <1>7, <2>1, SameFleet, RebootKeeps DEF Oci!Restart
<1> QED
  BY <1>1, <1>2, <1>3, <1>4, <1>5, <1>6, <1>7, <1>8 DEF Oci!Next

\* A notice that AWS or OCI gave of a VM that still runs is on its way, in the
\* poller's hands or on the slot's record of observed risks, whatever is launched,
\* released, reclaimed, delivered again or restarted.  The excused ones alone may be
\* lost: to a lookup that failed, a restart, OCI's missing consumer group or the lost
\* answer of a read that had committed.
THEOREM NoticesAreHeld == Spec => []NoticeHeld
<1> DEFINE Inv == provider \in {"aws", "oracle"} => SpotInv
<1>1. Init => Inv
  <2> SUFFICES ASSUME Init, provider \in {"aws", "oracle"} PROVE SpotInv
    OBVIOUS
  <2>1. /\ FleetInit
        /\ \E stage \in {"idle", "starting"} : poller = [Idling EXCEPT !.stage = stage]
    BY DEF Init, Aws!Init, Oci!Init, Aws!FleetInit, Oci!FleetInit, FleetInit, Aws!Between,
       Oci!Between, Between, Aws!Loops, Oci!Loops, Loops, Aws!Idling, Oci!Idling, Idling
  <2> QED
    BY <2>1, Start
<1>2. Inv /\ [Next]_allVars => Inv'
  <2> SUFFICES ASSUME Inv, [Next]_allVars, provider' \in {"aws", "oracle"} PROVE SpotInv'
    OBVIOUS
  <2>1. provider' = provider /\ SpotInv
    BY DEF Next, allVars
  <2>2. CASE UNCHANGED vars
    BY <2>1, <2>2 DEF vars, fleetVars, noticeVars, SpotInv, SpotType, Launched, LiveIsHeld,
       InHand, Kept, Alive
  <2>3. CASE Aws!Next \/ Oci!Next
    BY <2>1, <2>3, AwsKeeps, OciKeeps
  <2> QED
    BY <2>1, <2>2, <2>3 DEF Next, allVars
<1>3. Inv => NoticeHeld
  BY DEF SpotInv, Kept, NoticeHeld
<1> QED
  BY <1>1, <1>2, <1>3, PTL DEF Spec
=============================================================================
