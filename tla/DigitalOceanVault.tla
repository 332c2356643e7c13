-------------------------- MODULE DigitalOceanVault --------------------------
(***************************************************************************)
(* The DigitalOcean bootstrapVault (digitalocean/bootstrap.go): command    *)
(* ids come from a counter in memory, and an acknowledgement is matched    *)
(* under the lock but delivered after it.                                  *)
(***************************************************************************)
EXTENDS BootstrapChannel

VARIABLES
    seq,     \* bootstrapVault.seq
    acking   \* handleAck invocations between the lookup and the send

vars == <<channelVars, seq, acking>>

\* Each Enqueue stamps the next number of this process.
Enqueue(m) ==
    /\ issued < MaxCalls
    /\ KitMayCall(m)
    /\ issued' = issued + 1
    /\ seq' = seq + 1
    /\ call' = Register(issued + 1, m, seq + 1)
    /\ pending' = [pending EXCEPT ![m] = issued + 1]
    /\ UNCHANGED <<restarts, agent, acking>>

AckArrives(a) ==
    /\ Matches(a)
    /\ acking' = acking \union {[ack |-> a, to |-> pending[a.machine]]}
    /\ UNCHANGED <<channelVars, seq>>

\* Nothing pending, or another command: answered and ignored.
AckIgnored(a) ==
    /\ ~Matches(a)
    /\ Answered(a)
    /\ UNCHANGED <<call, issued, pending, restarts, seq, acking>>

\* The send, without the lock: the pending command may have changed by now.
AckDelivered(h) ==
    /\ acking' = acking \ {h}
    /\ call' = TrySend(call, h.to, ResultOf(h.ack))
    /\ Answered(h.ack)
    /\ UNCHANGED <<issued, pending, restarts, seq>>

\* The counter starts over, the agents and their requests do not.
Restart ==
    /\ KillCalls
    /\ seq' = 0
    /\ acking' = {}

Init == ChannelInit /\ seq = 0 /\ acking = {}

Wait(c) == (Receive(c) \/ Expire(c)) /\ UNCHANGED <<seq, acking>>

Next ==
    \/ \E m \in Machines : Enqueue(m)
    \/ \E m \in Machines : HandleCommand(m) /\ UNCHANGED <<seq, acking>>
    \/ \E c \in Calls : Wait(c)
    \/ \E c \in Calls : Return(c) /\ UNCHANGED <<seq, acking>>
    \/ \E f \in fetched : Apply(f) /\ UNCHANGED <<seq, acking>>
    \/ \E a \in acks : AckArrives(a) \/ AckIgnored(a)
    \/ \E h \in acking : AckDelivered(h)
    \/ Restart

Spec == Init /\ [][Next]_vars
=============================================================================
