----------------------------- MODULE HostFleet -----------------------------
(***************************************************************************)
(* What every provider's backend works with: the offering slots and the    *)
(* kit's record of each, the cloud's hosts with the marks the provider     *)
(* leaves on them, and the backend call each slot has in progress.  A      *)
(* provider's module says of which cloud calls its operations are made and *)
(* how they find a host again; a stage of a call is the request made next. *)
(* The kit, which this module only sketches, is ProviderKit's subject.     *)
(***************************************************************************)
EXTENDS Naturals, FiniteSets

CONSTANTS
    Slots, Hosts,
    NoSlot, NoHost,
    MaxOps,       \* bound on the operations the kit starts in one life
    MaxRestarts   \* bound on the restarts of the provider

ASSUME HostsAssumption == IsFiniteSet(Hosts) /\ NoHost \notin Hosts /\ NoSlot \notin Slots

VARIABLES
    host,      \* the cloud: each host's state, machine-id mark, name, binding mark and
               \* rank among the ids; what its node did; whether the provider's own
               \* index, or its file, has it; what the reaper means to do with it; the
               \* life of the provider it was asked for in, where a run follows it;
               \* whether an operating system is on it
    record,    \* the kit: each slot's state (or operation) and host
    call,      \* each slot's backend call: its stage, operation id and host
    nextOp,    \* the kit's operation counter: ids are "op-1", "op-2", ...
    durable,   \* whether the provider keeps a state file
    lapsed,    \* the slots whose commands may, since a restart, be answered though
               \* no host carried them out: it only grows
    restarts

vars == <<host, record, call, nextOp, durable, lapsed, restarts>>

Operations == {"create", "configure", "drain", "delete"}
From == [create |-> "speculative", configure |-> "idle", drain |-> "configured", delete |-> "idle"]
Done == [create |-> "idle", configure |-> "configured", drain |-> "idle", delete |-> "speculative"]

NoCall == [stage |-> "none", op |-> 0, host |-> NoHost]
Unused == [state |-> "none", slot |-> NoSlot, op |-> 0, bound |-> FALSE, node |-> "never",
           known |-> FALSE, saved |-> FALSE, id |-> 0, reap |-> "no",
           life |-> 0, installed |-> FALSE]

Listed(h) == host[h].state \in {"booting", "up", "off", "error", "going"}
Live(h) == host[h].state \in {"pending", "booting", "up", "off", "error"}
Marked(s) == {h \in Hosts : Listed(h) /\ host[h].slot = s}
Named(op) == {h \in Hosts : Listed(h) /\ host[h].op = op}

FleetInit ==
    /\ host = [h \in Hosts |-> Unused]
    /\ record = [s \in Slots |-> [state |-> "speculative", host |-> NoHost]]
    /\ call = [s \in Slots |-> NoCall]
    /\ nextOp = 1
    /\ durable \in BOOLEAN
    /\ lapsed = {}
    /\ restarts = 0

-----------------------------------------------------------------------------
(* The kit around a backend call. *)

Starts(s, operation, stage) ==
    /\ record[s].state = From[operation]
    /\ nextOp <= MaxOps
    /\ record' = [record EXCEPT ![s].state = operation]
    /\ call' = [call EXCEPT ![s] = [stage |-> stage, op |-> nextOp, host |-> record[s].host]]
    /\ nextOp' = nextOp + 1
    /\ UNCHANGED <<host, durable, lapsed, restarts>>

At(s, stage) == call[s].stage = stage

\* The call goes on to its next request, or answers the kit without an error: a
\* kit that no longer waits for it drops the answer.
Goes(s, stage, h) ==
    /\ call' = [call EXCEPT ![s].stage = stage, ![s].host = h]
    /\ UNCHANGED <<record, nextOp, durable, lapsed, restarts>>

Answers(s, h) ==
    /\ record' = IF record[s].state \in Operations
                 THEN [record EXCEPT ![s] = [state |-> Done[record[s].state], host |-> h]]
                 ELSE record
    /\ call' = [call EXCEPT ![s] = NoCall]
    /\ UNCHANGED <<nextOp, durable, lapsed, restarts>>

\* The call answers with an error, or the kit's deadline ends it.
Errs(s) ==
    /\ record' = [record EXCEPT ![s].state = "failed"]
    /\ call' = [call EXCEPT ![s] = NoCall]
    /\ UNCHANGED <<nextOp, durable, lapsed, restarts>>

Fails(s) == call[s].stage # "none" /\ Errs(s) /\ UNCHANGED host

\* A command of the slot's is taken for done and was not.
Lapses(s) == s \in lapsed /\ UNCHANGED host

\* main starts again on the state file, where the kit fails what was in progress.
Recovered ==
    /\ durable /\ restarts < MaxRestarts
    /\ restarts' = restarts + 1
    /\ record' = [s \in Slots |-> IF record[s].state \in Operations
                                  THEN [record[s] EXCEPT !.state = "failed"]
                                  ELSE record[s]]
    /\ call' = [s \in Slots |-> NoCall]
    /\ UNCHANGED <<nextOp, durable>>

\* main starts again without one: the records are what Describe makes of the hosts,
\* and operation ids start over.  A slot with several hosts takes any of them.
Reseeded(owners) ==
    /\ ~durable /\ restarts < MaxRestarts
    /\ restarts' = restarts + 1
    /\ \E owner \in [Slots -> Hosts \union {NoHost}] :
         /\ \A s \in Slots : owner[s] \in (IF owners[s] = {} THEN {NoHost} ELSE owners[s])
         /\ record' = [s \in Slots |->
                         [state |-> IF owner[s] = NoHost THEN "speculative" ELSE "idle",
                          host |-> owner[s]]]
    /\ call' = [s \in Slots |-> NoCall]
    /\ nextOp' = 1
    /\ UNCHANGED durable

-----------------------------------------------------------------------------
(* The cloud. *)

\* A host that was asked for is listed some time later, whoever still waits for it.
Launched(h, s, op) ==
    /\ host[h].state = "none"
    /\ host' = [host EXCEPT ![h] = [Unused EXCEPT !.state = "pending", !.slot = s, !.op = op]]

Turns(h, from, to) ==
    /\ host[h].state = from
    /\ host' = [host EXCEPT ![h].state = to]
    /\ UNCHANGED <<record, call, nextOp, durable, lapsed, restarts>>

\* A request to end the host is accepted; a host the cloud does not know has ended.
Removed(h) == host' = IF Listed(h) THEN [host EXCEPT ![h].state = "going"] ELSE host

Appears(h) == Turns(h, "pending", "booting")
Boots(h) == Turns(h, "booting", "up")
Errors(h) == Turns(h, "booting", "error")
PowersOff(h) == Turns(h, "up", "off")
Ends(h) == Turns(h, "going", "gone")
Breaks(h) == \E from \in {"booting", "up", "off"} : Turns(h, from, "gone")

\* What the bootstrap and the drain do in the guest, and the mark kept of it.
Joins(h) == host[h].state = "up" /\ host' = [host EXCEPT ![h].node = "in"]
Leaves(h) == host[h].state = "up" /\ host' = [host EXCEPT ![h].node = "left"]
Binds(h) == Listed(h) /\ host' = [host EXCEPT ![h].bound = TRUE]
Unbinds(h) == Listed(h) /\ host' = [host EXCEPT ![h].bound = FALSE]
=============================================================================
