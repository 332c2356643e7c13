-------------------------- MODULE BootstrapChannel --------------------------
(***************************************************************************)
(* What the DigitalOcean and the Scaleway bootstrap vault have in common:  *)
(* the Enqueue calls that wait in the provider, the pending command of     *)
(* each machine, and, external to both, the kit that makes the calls and   *)
(* the on-host agent that polls for a command, applies it and posts an     *)
(* acknowledgement. The agent's requests and the answers to them are       *)
(* delayed at will, and an acknowledgement left unanswered is sent again.  *)
(***************************************************************************)
EXTENDS Integers, FiniteSets

CONSTANTS
    Machines,     \* machine ids
    MaxCalls,     \* bound on the number of Enqueue calls
    MaxRestarts,  \* bound on the number of restarts
    Serial        \* the caller is the kit, which drives a machine serially

ASSUME ChannelAssumption == /\ Machines # {}
                            /\ MaxCalls \in Nat
                            /\ MaxRestarts \in Nat
                            /\ Serial \in BOOLEAN

Calls == 1..MaxCalls
NoCall == 0

VARIABLES
    call,      \* each Enqueue call: its command and the waiter blocked on it
    issued,    \* the number of calls made; calls are numbered in their order
    pending,   \* bootstrapVault.pending
    restarts,  \* how often the process was restarted
    fetched,   \* external: commands answered to an agent and not applied yet
    effect,    \* external: the results the agent reached on each call's command
    acks       \* external: acknowledgements an agent has to deliver

channelVars == <<call, issued, pending, restarts, fetched, effect, acks>>
agent == <<fetched, effect, acks>>

Results == {"ok", "failed", "superseded"}
Stages == {"unused", "waiting", "returning", "returned", "killed"}

\* The done channel holds one value; "empty" when there is none.
Call == [machine : Machines, id : Nat, stage : Stages,
         done : Results \union {"empty"}, result : Results \union {"none", "timeout"}]

Ack == [machine : Machines, id : Nat, call : Calls, ok : BOOLEAN]

NewCall(m, id) == [machine |-> m, id |-> id, stage |-> "waiting", done |-> "empty",
                   result |-> "none"]

Unused == [machine |-> CHOOSE m \in Machines : TRUE, id |-> 0, stage |-> "unused",
           done |-> "empty", result |-> "none"]

\* A send on the buffered channel that gives up when the buffer is full.
TrySend(calls, c, value) ==
    IF calls[c].done = "empty" THEN [calls EXCEPT ![c].done = value] ELSE calls

\* Mutant: a superseded waiter is left to its deadline.
RegisterSilently(c, m, id) == [call EXCEPT ![c] = NewCall(m, id)]

\* The critical section of Enqueue: the waiter of a command it replaces is told.
Register(c, m, id) ==
    LET told == IF pending[m] = NoCall THEN call ELSE TrySend(call, pending[m], "superseded")
    IN  [told EXCEPT ![c] = NewCall(m, id)]

\* external: the kit calls on a machine whose earlier calls all succeeded; an
\* error, a timeout or a restart during a call leaves the machine Failed.
KitMayCall(m) ==
    Serial => \A c \in 1..issued : call[c].machine = m =>
                call[c].stage = "returned" /\ call[c].result = "ok"

-----------------------------------------------------------------------------
\* The select in Enqueue: a result is there, or the context is done.
Receive(c) ==
    /\ call[c].stage = "waiting"
    /\ call[c].done # "empty"
    /\ call' = [call EXCEPT ![c].stage = "returning", ![c].result = call[c].done,
                            ![c].done = "empty"]
    /\ UNCHANGED <<issued, pending, restarts, agent>>

\* Mutant: the select has no case for the context.
ExpireNever(c) == FALSE /\ UNCHANGED channelVars

Expire(c) ==
    /\ call[c].stage = "waiting"
    /\ call' = [call EXCEPT ![c].stage = "returning", ![c].result = "timeout"]
    /\ UNCHANGED <<issued, pending, restarts, agent>>

\* Mutant: there is no deferred function.
ReturnClearsNone(c) ==
    /\ call[c].stage = "returning"
    /\ call' = [call EXCEPT ![c].stage = "returned"]
    /\ UNCHANGED <<issued, pending, restarts, agent>>

\* The deferred function, under the lock again, and the return.
Return(c) ==
    /\ call[c].stage = "returning"
    /\ call' = [call EXCEPT ![c].stage = "returned"]
    /\ pending' = IF pending[call[c].machine] = c
                  THEN [pending EXCEPT ![call[c].machine] = NoCall] ELSE pending
    /\ UNCHANGED <<issued, restarts, agent>>

\* GET /v1/command answers with the pending command, however often it is asked.
\* The agent asks when it has none to apply.
HandleCommand(m) ==
    /\ \A f \in fetched : f.machine # m
    /\ pending[m] # NoCall
    /\ fetched' = fetched \union {[machine |-> m, id |-> call[pending[m]].id,
                                   call |-> pending[m]]}
    /\ UNCHANGED <<call, issued, pending, restarts, effect, acks>>

\* external: the agent applies a command it fetched and has a result to post.
Apply(f) ==
    /\ fetched' = fetched \ {f}
    /\ \E ok \in BOOLEAN :
         /\ effect' = [effect EXCEPT ![f.call] = @ \union {ok}]
         /\ acks' = acks \union {[machine |-> f.machine, id |-> f.id, call |-> f.call, ok |-> ok]}
    /\ UNCHANGED <<call, issued, pending, restarts>>

\* external: an answered acknowledgement is done with; without the answer the
\* agent will post it again.
Answered(a) == acks' \in {acks, acks \ {a}} /\ UNCHANGED <<fetched, effect>>

\* Mutant: the acknowledgement goes to whoever waits.
MatchesAny(a) == pending[a.machine] # NoCall

\* handleAck's lookup: a command is pending, and it is the one acknowledged.
Matches(a) == pending[a.machine] # NoCall /\ call[pending[a.machine]].id = a.id

ResultOf(a) == IF a.ok THEN "ok" ELSE "failed"

\* The calls and the pending commands die with the process.
KillCalls ==
    /\ restarts < MaxRestarts
    /\ restarts' = restarts + 1
    /\ call' = [c \in Calls |-> IF call[c].stage \in {"waiting", "returning"}
                                THEN [call[c] EXCEPT !.stage = "killed"] ELSE call[c]]
    /\ pending' = [m \in Machines |-> NoCall]
    /\ UNCHANGED <<issued, agent>>

ChannelInit ==
    /\ call = [c \in Calls |-> Unused]
    /\ issued = 0
    /\ pending = [m \in Machines |-> NoCall]
    /\ restarts = 0
    /\ fetched = {}
    /\ effect = [c \in Calls |-> {}]
    /\ acks = {}

-----------------------------------------------------------------------------
(* Properties of either vault.                                              *)

ChannelTypeOK ==
    /\ call \in [Calls -> Call]
    /\ issued \in 0..MaxCalls
    /\ pending \in [Machines -> Calls \union {NoCall}]
    /\ restarts \in Nat
    /\ fetched \subseteq [machine : Machines, id : Nat, call : Calls]
    /\ effect \in [Calls -> SUBSET BOOLEAN]
    /\ acks \subseteq Ack

\* An Enqueue that returns nil was acknowledged by an agent that applied that
\* call's own command: "never release the current waiter with another command's
\* result" (bootstrap.go:208-209).
ReleasedByOwnAck ==
    \A c \in Calls : call[c].result = "ok" => TRUE \in effect[c]

\* A waiter that no acknowledgement can reach any more already has a result in
\* its channel: nobody waits out a deadline for a command the agent cannot see.
NoOrphanWaiter ==
    \A c \in Calls : call[c].stage = "waiting" =>
        pending[call[c].machine] = c \/ call[c].done # "empty"

\* An agent is only ever served a command whose Enqueue has not returned: what
\* the kit has given up on is not applied behind its back by a later poll.
ServedWhileWanted ==
    \A m \in Machines : pending[m] # NoCall =>
        /\ call[pending[m]].machine = m
        /\ call[pending[m]].stage \in {"waiting", "returning"}

Outcome(c) == CASE call[c].stage = "unused" -> "idle"
                [] call[c].stage = "waiting" -> "waiting"
                [] OTHER -> IF call[c].result = "ok" THEN "ok" ELSE "error"

Delivery == INSTANCE CommandDelivery WITH outcome <- [c \in Calls |-> Outcome(c)]
=============================================================================
