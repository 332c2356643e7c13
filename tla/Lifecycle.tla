------------------------------ MODULE Lifecycle ------------------------------
(***************************************************************************)
(* The constant part of providerkit: the machine states, the four mutating *)
(* operations and the (transitional, stable) pair each one drives a        *)
(* machine through (machine.go), and the lexicographic order of fencing    *)
(* tokens (fence.go).                                                      *)
(***************************************************************************)
EXTENDS Integers

Kinds == {"create", "configure", "drain", "delete"}

StableStates == {"Speculative", "Idle", "Configured"}
TransitionalStates == {"Creating", "Configuring", "Draining", "Deleting"}
States == StableStates \union TransitionalStates \union {"Failed"}

\* The state of an id the kit holds no record of.
Absent == "Absent"

\* Mutant: the switch forgets a kind and falls to its default.
TransitionalNoDelete == [k \in Kinds |-> CASE k = "create"    -> "Creating"
                                           [] k = "configure" -> "Configuring"
                                           [] k = "drain"     -> "Draining"
                                           [] k = "delete"    -> "Unspecified"]

\* kind.targets: the state a kind holds the machine in, the one it settles in.
Transitional == [k \in Kinds |-> CASE k = "create"    -> "Creating"
                                   [] k = "configure" -> "Configuring"
                                   [] k = "drain"     -> "Draining"
                                   [] k = "delete"    -> "Deleting"]
Stable == [k \in Kinds |-> CASE k = "create"    -> "Idle"
                             [] k = "configure" -> "Configured"
                             [] k = "drain"     -> "Idle"
                             [] k = "delete"    -> "Speculative"]

\* Mutant: a failed create may be retried on the same slot.
CanStartFromFailed(s, k) ==
    <<s, k>> \in {<<"Speculative", "create">>, <<"Failed", "create">>, <<"Idle", "configure">>,
                  <<"Configured", "drain">>, <<"Idle", "delete">>}

\* canStart: the only four entry edges. Nothing leaves Failed.
CanStart(s, k) == <<s, k>> \in {<<"Speculative", "create">>, <<"Idle", "configure">>,
                                <<"Configured", "drain">>, <<"Idle", "delete">>}

\* FenceMark.newer: token f is strictly newer than mark, epoch first.
Newer(mark, f) == \/ f.epoch > mark.epoch
                  \/ f.epoch = mark.epoch /\ f.seq > mark.seq

\* The edges a record may take between two observations: an operation is
\* accepted, it settles, it fails, or a new id appears in the inventory.
LegalEdges ==
    {<<"Speculative", "Creating">>, <<"Creating", "Idle">>,
     <<"Idle", "Configuring">>, <<"Configuring", "Configured">>,
     <<"Configured", "Draining">>, <<"Draining", "Idle">>,
     <<"Idle", "Deleting">>, <<"Deleting", "Speculative">>,
     <<Absent, "Speculative">>, <<Absent, "Idle">>}
      \union {<<s, "Failed">> : s \in TransitionalStates}
=============================================================================
