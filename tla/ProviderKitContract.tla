------------------------- MODULE ProviderKitContract -------------------------
(***************************************************************************)
(* The kit, with its crashes and restarts, implements MachineContract,     *)
(* which has none: while the process is down, the contract's state is the  *)
(* one its next start will load and recover.                               *)
(***************************************************************************)
EXTENDS ProviderKit, TLC

Listed == [m \in Machines |-> [state |-> View[m].state, host |-> View[m].host,
                               cluster |-> View[m].cluster, metadata |-> View[m].metadata]]

Contract == INSTANCE MachineContract
    WITH inventory <- Listed,
         marks <- IF up THEN fences ELSE disk.fences,
         opOf <- IF up THEN ops ELSE disk.ops,
         minted <- IF up THEN nextOp ELSE disk.nextOp

\* Every step of the kit, a crash and a restart included, is a step of the
\* contract or none, and every accepted transition ends.
ImplementsContract == Contract!FairContractSpec

-----------------------------------------------------------------------------
(* Instances of this module for TLC.                                        *)

\* Machines and shards are only compared.
Symmetry == Permutations(Machines) \union Permutations(Shards)

\* The properties promise nothing once a lost write was followed by a crash, so
\* a run with failing saves does not look beyond it.
NothingLost == ~lost

\* A negative price, which Instance.validate refuses, and two that move.
MovingPrices == {-1, 1, 2}
=============================================================================
