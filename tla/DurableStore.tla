---------------------------- MODULE DurableStore ----------------------------
(***************************************************************************)
(* What the kit needs of a Store (store.go:26-34): Save replaces the whole *)
(* snapshot at one instant, an error means that it did not, nil that it    *)
(* did, and a crash in the middle leaves the prior snapshot or the new one.*)
(* Snapshots are numbered in the order they are saved.                     *)
(***************************************************************************)
EXTENDS Naturals

VARIABLES
    stored,   \* the snapshot that survives whatever happens
    saving,   \* the snapshot of the Save in progress, 0 for none
    limbo,    \* the snapshot of a Save cut short that may still be stored, or 0
    acked     \* the last snapshot a Save vouched for

storeVars == <<stored, saving, limbo, acked>>

StoreInit == stored = 0 /\ saving = 0 /\ limbo = 0 /\ acked = 0

Call == /\ saving = 0
        /\ saving' \in Nat /\ saving' > stored /\ saving' > limbo
        /\ UNCHANGED <<stored, limbo, acked>>

\* The instant of a Save; it supersedes one that was cut short.
Commit == /\ saving # 0
          /\ stored' = saving
          /\ limbo' = 0
          /\ UNCHANGED <<saving, acked>>

CommitLate == /\ limbo # 0
              /\ stored' = limbo
              /\ limbo' = 0
              /\ UNCHANGED <<saving, acked>>

Supersede == limbo' = 0 /\ UNCHANGED <<stored, saving, acked>>

ReturnNil == /\ saving # 0
             /\ stored' = saving
             /\ limbo' = 0
             /\ acked' = saving
             /\ saving' = 0

ReturnError == /\ saving # 0
               /\ stored # saving
               /\ saving' = 0
               /\ UNCHANGED <<stored, limbo, acked>>

\* The caller is told nothing it can rely on, or is gone itself.
CutShort == /\ saving' = 0
            /\ limbo' \in {0, limbo, saving}
            /\ UNCHANGED <<stored, acked>>

StoreNext == Call \/ Commit \/ CommitLate \/ Supersede \/ ReturnNil \/ ReturnError \/ CutShort

StoreSpec == StoreInit /\ [][StoreNext]_storeVars
=============================================================================
