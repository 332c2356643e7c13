----------------------------- MODULE SpotFleet -----------------------------
(***************************************************************************)
(* What the providers that publish an observed interruption risk share:    *)
(* slots and the VMs behind them, the in-memory `interruption' tracker, the *)
(* kit's records that survive a restart, and Reconcile, which carries the  *)
(* tracker's view into the records.  A risk of 0 stands for the forecast,  *)
(* never for none; higher risks are observed.                              *)
(***************************************************************************)
EXTENDS Naturals, FiniteSets

CONSTANTS
    Slots, VMs,
    NoVM, NoSlot, NoNotice,
    MaxNotices,   \* bound on the notices the cloud gives
    MaxRestarts   \* bound on the restarts of the provider

VARIABLES
    vm,        \* the cloud: each VM's slot (its machine-id tag) and state
    record,    \* the kit: each slot's state, VM and published risk
    observed,  \* interruption.observed, 0 where it has no entry
    scan,      \* each Reconcile goroutine and the risks its Describe returned
    issued,    \* the notices the cloud gave
    channel,   \* the notices on their way to the provider
    poller,    \* the goroutine that takes notices
    excused,   \* the notices that may be lost: to a failed lookup, a restart, a read
               \* whose answer was lost, or for want of a consumer group
    restarts

fleetVars == <<vm, record, observed, scan>>
noticeVars == <<issued, channel, poller, excused>>
vars == <<fleetVars, noticeVars, restarts>>

Risks == 0..2
Loops == {"ticker", "post"}
Notices == [vm : VMs, risk : Risks \ {0}]

ASSUME NoNoticeAssumption == NoNotice \notin Notices

Alive(i) == vm[i].state = "alive"
NewNotice(n) == Alive(n.vm) /\ n \notin issued /\ Cardinality(issued) < MaxNotices
Between(stage) == [stage |-> stage, risk |-> [s \in Slots |-> 0]]
Idling == [stage |-> "idle", notice |-> NoNotice, slot |-> NoSlot]

FleetInit ==
    /\ vm = [i \in VMs |-> [slot |-> NoSlot, state |-> "none"]]
    /\ record = [s \in Slots |-> [state |-> "free", vm |-> NoVM, risk |-> 0]]
    /\ observed = [s \in Slots |-> 0]
    /\ scan = [g \in Loops |-> Between(IF g = "ticker" THEN "ready" ELSE "off")]
    /\ issued = {} /\ channel = {} /\ excused = {}
    /\ restarts = 0

-----------------------------------------------------------------------------
\* The operations as the kit drives them: one at a time per slot, from the states
\* it accepts them in; a failed or interrupted one leaves the slot failed.

\* A wait that times out leaves the VM running behind a failed slot.
Launch(s) ==
    /\ record[s].state = "free"
    /\ \E i \in VMs :
         /\ vm[i].state = "none"
         /\ vm' = [vm EXCEPT ![i] = [slot |-> s, state |-> "alive"]]
         /\ \/ record' = [record EXCEPT ![s].state = "held", ![s].vm = i]
            \/ record' = [record EXCEPT ![s].state = "failed"]
    /\ UNCHANGED <<observed, scan, noticeVars, restarts>>

\* The request to end the slot's VM went through.
Released(s) ==
    /\ record[s].state = "held"
    /\ record' = [record EXCEPT ![s].state = "releasing"]
    /\ vm' = [vm EXCEPT ![record[s].vm].state = "gone"]
    /\ UNCHANGED <<observed, scan, noticeVars, restarts>>

\* Mutant: DeleteInstance clears the tracker before it asks for the termination.
ReleaseFailedCleared(s) ==
    /\ record[s].state = "held"
    /\ record' = [record EXCEPT ![s].state = "failed"]
    /\ observed' = [observed EXCEPT ![s] = 0]
    /\ UNCHANGED <<vm, scan, noticeVars, restarts>>

ReleaseFailed(s) ==
    /\ record[s].state = "held"
    /\ record' = [record EXCEPT ![s].state = "failed"]
    /\ UNCHANGED <<vm, observed, scan, noticeVars, restarts>>

\* interruption.clear, after which the kit settles the slot as free.
Cleared(s) ==
    /\ record[s].state = "releasing"
    /\ observed' = [observed EXCEPT ![s] = 0]
    /\ record' = [record EXCEPT ![s].state = "free", ![s].vm = NoVM]
    /\ UNCHANGED <<vm, scan, noticeVars, restarts>>

-----------------------------------------------------------------------------
\* Server.Reconcile on one goroutine: the backend's Describe, then the kit's
\* refresh of every record, whatever was marked or cleared in between.
Described(g) ==
    /\ scan[g].stage = "ready"
    /\ scan' = [scan EXCEPT ![g] = [stage |-> "described", risk |-> observed]]
    /\ UNCHANGED <<vm, record, observed, noticeVars, restarts>>

\* Mutant: a machine the kit already tracks is left as it is.
RefreshedOnlyNew(g, next) ==
    /\ scan[g].stage = "described"
    /\ scan' = [scan EXCEPT ![g] = Between(next)]
    /\ UNCHANGED <<vm, record, observed, noticeVars, restarts>>

Refreshed(g, next) ==
    /\ scan[g].stage = "described"
    /\ record' = [s \in Slots |-> [record[s] EXCEPT !.risk = scan[g].risk[s]]]
    /\ scan' = [scan EXCEPT ![g] = Between(next)]
    /\ UNCHANGED <<vm, observed, noticeVars, restarts>>

-----------------------------------------------------------------------------
\* interruption.markWarning and its namesakes: the last notice wins.
Marked(s, n) == observed' = [observed EXCEPT ![s] = n.risk]

\* The cloud takes a VM back, with or without a notice before.
Reclaim(i, state) ==
    /\ Alive(i)
    /\ vm' = [vm EXCEPT ![i].state = state]
    /\ UNCHANGED <<record, observed, scan, noticeVars, restarts>>

\* The provider dies and starts again on its state file: the tracker is empty, the
\* kit fails the transitions it cannot have finished.
Rebooted ==
    /\ restarts < MaxRestarts
    /\ restarts' = restarts + 1
    /\ observed' = [s \in Slots |-> 0]
    /\ scan' = [g \in Loops |-> Between(IF g = "ticker" THEN "ready" ELSE "off")]
    /\ record' = [s \in Slots |->
                    IF record[s].state = "releasing" THEN [record[s] EXCEPT !.state = "failed"]
                    ELSE record[s]]
    /\ UNCHANGED <<vm, issued>>
=============================================================================
