--------------------------- MODULE CommandDelivery ---------------------------
(***************************************************************************)
(* What a bootstrap channel promises the actuator that sends a command     *)
(* through it (bootstrap.go:105-109, scwbootstrap.go:114-118): the call    *)
(* blocks until the machine's agent acknowledges this very command, or is  *)
(* given up; it never reports success for a command the agent did not      *)
(* apply.                                                                  *)
(***************************************************************************)
CONSTANT Calls

VARIABLES
    outcome,  \* of each call: idle, waiting, ok, error
    effect    \* the results the agent reached on each call's command

deliveryVars == <<outcome, effect>>

DeliveryInit == /\ outcome = [c \in Calls |-> "idle"]
                /\ effect = [c \in Calls |-> {}]

Issue(c) == /\ outcome[c] = "idle"
            /\ outcome' = [outcome EXCEPT ![c] = "waiting"]
            /\ UNCHANGED effect

\* The agent may carry a command out more than once, also after the call ended.
Apply(c) == /\ outcome[c] # "idle"
            /\ \E ok \in BOOLEAN : effect' = [effect EXCEPT ![c] = @ \union {ok}]
            /\ UNCHANGED outcome

Succeed(c) == /\ outcome[c] = "waiting"
              /\ TRUE \in effect[c]
              /\ outcome' = [outcome EXCEPT ![c] = "ok"]
              /\ UNCHANGED effect

\* A refusal, a newer command or the deadline ends one call, a restart many.
GiveUp(S) == /\ S # {}
             /\ \A c \in S : outcome[c] = "waiting"
             /\ outcome' = [c \in Calls |-> IF c \in S THEN "error" ELSE outcome[c]]
             /\ UNCHANGED effect

DeliveryNext == \/ \E c \in Calls : Issue(c) \/ Apply(c) \/ Succeed(c)
                \/ \E S \in SUBSET Calls : GiveUp(S)

DeliverySpec == DeliveryInit /\ [][DeliveryNext]_deliveryVars
=============================================================================
