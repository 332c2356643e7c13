--------------------------- MODULE MachineContract ---------------------------
(***************************************************************************)
(* What the kit promises its callers, as if the process never died: an     *)
(* inventory of machines moved by four atomic-looking operations, fencing  *)
(* marks that only advance, one operation id per accepted call, and every  *)
(* accepted transition ending in its stable state or in Failed (doc.go,    *)
(* server.go:112-117 "a restart loses nothing"). A restart shows only as   *)
(* the transitions it cut short failing together.                          *)
(***************************************************************************)
EXTENDS Lifecycle

CONSTANTS Machines, Shards, Clusters, Metas, Epochs, Seqs,
          NoHost, NoCluster, NoMeta, NoMark, ZeroToken

VARIABLES
    inventory,  \* each machine's state, host, cluster and metadata
    marks,      \* the fencing marks
    opOf,       \* the operation id of each machine and kind, 0 for none
    minted      \* the last operation id handed out

contractVars == <<inventory, marks, opOf, minted>>

\* A machine of no cluster: not there at all, a free slot, or an existing host.
Unbound(state, host) == [state |-> state, host |-> host,
                         cluster |-> NoCluster, metadata |-> NoMeta]

\* The mark of (shard, machine) once token f has passed; a stale one passes not.
Admits(m, f) == f # ZeroToken /\ marks[f.shard][m] # NoMark => Newer(marks[f.shard][m], f)

Admitted(m, f) == IF f = ZeroToken THEN marks
                  ELSE [marks EXCEPT ![f.shard][m] = [epoch |-> f.epoch, seq |-> f.seq]]

ContractInit ==
    /\ inventory = [m \in Machines |-> Unbound(Absent, NoHost)]
    /\ marks = [s \in Shards |-> [m \in Machines |-> NoMark]]
    /\ opOf = [m \in Machines |-> [k \in Kinds |-> 0]]
    /\ minted = 0

\* The substrate brings new ids, as a free slot or as an existing host.
Appear ==
    /\ \E S \in SUBSET {m \in Machines : inventory[m].state = Absent} :
         /\ S # {}
         /\ \A m \in Machines \ S : inventory'[m] = inventory[m]
         /\ \A m \in S : \/ inventory'[m] = Unbound("Speculative", NoHost)
                         \/ /\ inventory'[m] = Unbound("Idle", inventory'[m].host)
                            /\ inventory'[m].host # NoHost
    /\ DOMAIN inventory' = Machines
    /\ UNCHANGED <<marks, opOf, minted>>

\* A call that changes no machine may still advance the caller's mark.
NoteToken(m, f) ==
    /\ Admits(m, f)
    /\ marks' = Admitted(m, f)
    /\ UNCHANGED <<inventory, opOf, minted>>

\* A call in position, from a caller that is no zombie, gets a fresh id.
Begin(k, m, f, c, d) ==
    /\ Admits(m, f)
    /\ CanStart(inventory[m].state, k)
    /\ marks' = Admitted(m, f)
    /\ minted' = minted + 1
    /\ opOf' = [opOf EXCEPT ![m][k] = minted + 1]
    /\ inventory' = [inventory EXCEPT ![m].state = Transitional[k],
                                      ![m].cluster = IF k = "configure" THEN c ELSE @,
                                      ![m].metadata = IF k = "configure" THEN d ELSE @]

\* The substrate did its part: bound, unbound, given a host or relieved of it.
Succeed(k, m) ==
    /\ inventory[m].state = Transitional[k]
    /\ inventory' = [inventory EXCEPT
         ![m].state = Stable[k],
         ![m].host = CASE k = "create" -> opOf[m][k] [] k = "delete" -> NoHost [] OTHER -> @,
         ![m].cluster = IF k = "drain" THEN NoCluster ELSE @,
         ![m].metadata = IF k = "drain" THEN NoMeta ELSE @]
    /\ UNCHANGED <<marks, opOf, minted>>

\* Transitions fail, one by an error or a timeout, several by a restart. The
\* record keeps what it held.
GiveUp(S) ==
    /\ S # {}
    /\ \A m \in S : inventory[m].state \in TransitionalStates
    /\ inventory' = [m \in Machines |-> IF m \in S THEN [inventory[m] EXCEPT !.state = "Failed"]
                                        ELSE inventory[m]]
    /\ UNCHANGED <<marks, opOf, minted>>

ContractNext ==
    \/ Appear
    \/ \E m \in Machines, f \in [shard : Shards, epoch : Epochs, seq : Seqs] \union {ZeroToken} :
          \/ NoteToken(m, f)
          \/ \E k \in Kinds \ {"configure"} : Begin(k, m, f, NoCluster, NoMeta)
          \/ \E c \in Clusters, d \in Metas \union {NoMeta} : Begin("configure", m, f, c, d)
    \/ \E m \in Machines, k \in Kinds : Succeed(k, m)
    \/ \E S \in SUBSET Machines : GiveUp(S)

ContractSpec == ContractInit /\ [][ContractNext]_contractVars

\* Accepted work ends: with success or, at the latest at its timeout, without.
Ending(m) == GiveUp({m}) \/ \E k \in Kinds : Succeed(k, m)

FairContractSpec == /\ ContractSpec
                    /\ \A m \in Machines : WF_contractVars(Ending(m))
=============================================================================
