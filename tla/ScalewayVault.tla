---------------------------- MODULE ScalewayVault ----------------------------
(***************************************************************************)
(* The Scaleway bootstrapVault (scaleway/scwbootstrap.go): command ids are *)
(* random and never repeat, and an acknowledgement is matched, taken off   *)
(* pending and delivered under one lock.                                   *)
(***************************************************************************)
EXTENDS BootstrapChannel

\* newCommandID: 128 random bits, an id no other call has. The call's own number
\* stands for it.
newCommandID == issued + 1

Enqueue(m) ==
    /\ issued < MaxCalls
    /\ KitMayCall(m)
    /\ issued' = issued + 1
    /\ call' = Register(issued + 1, m, newCommandID)
    /\ pending' = [pending EXCEPT ![m] = issued + 1]
    /\ UNCHANGED <<restarts, agent>>

HandleAck(a) ==
    /\ Matches(a)
    /\ pending' = [pending EXCEPT ![a.machine] = NoCall]
    /\ call' = TrySend(call, pending[a.machine], ResultOf(a))
    /\ Answered(a)
    /\ UNCHANGED <<issued, restarts>>

\* 204 when nothing is pending, 409 when the command has been superseded.
RejectAck(a) ==
    /\ ~Matches(a)
    /\ Answered(a)
    /\ UNCHANGED <<call, issued, pending, restarts>>

Restart == KillCalls

Init == ChannelInit

Wait(c) == Receive(c) \/ Expire(c)

Next ==
    \/ \E m \in Machines : Enqueue(m) \/ HandleCommand(m)
    \/ \E c \in Calls : Wait(c) \/ Return(c)
    \/ \E f \in fetched : Apply(f)
    \/ \E a \in acks : HandleAck(a) \/ RejectAck(a)
    \/ Restart

Spec == Init /\ [][Next]_channelVars
=============================================================================
