------------------------------ MODULE FileStore ------------------------------
(***************************************************************************)
(* FileStore.Save and Load (providerkit/filestore.go) over a file system   *)
(* that keeps data and directory entries in memory until they are synced   *)
(* or written back: temp file, write, fsync, close, rename, directory      *)
(* fsync. The process may be killed, or the host lose power, between any   *)
(* two of them. A snapshot is its number; Server.mu and FileStore.mu let   *)
(* one Save run at a time.                                                 *)
(***************************************************************************)
EXTENDS Naturals, FiniteSets

CONSTANTS
    MaxSaves,  \* bound on the Saves of a behaviour
    Torn       \* data that was not written in full

ASSUME SavesAssumption == MaxSaves \in Nat /\ Torn \notin Nat

VARIABLES
    pc,       \* the next step of Save, "idle" outside it, "down" for a dead process
    saving,   \* the snapshot Save was called with, 0 outside it
    file,     \* external: the data of the file each name points to
    entry,    \* external: the file the store's path names, as the kernel sees it
    durable,  \* external: the file the store's path names on the disk
    synced,   \* external: files whose data is on the disk
    litter,   \* external: temp files that were never removed
    loaded,   \* what the last Load returned
    acked,    \* history: the last snapshot whose Save synced the directory and returned nil
    calls     \* history: Saves called so far

vars == <<pc, saving, file, entry, durable, synced, litter, loaded, acked, calls>>

\* Files are named by the Save that creates them; 0 is no file.
Files == 0..MaxSaves
Empty == 0

-----------------------------------------------------------------------------
Call ==
    /\ pc = "idle"
    /\ calls < MaxSaves
    /\ calls' = calls + 1
    /\ saving' = calls + 1
    /\ pc' = "create"
    /\ UNCHANGED <<file, entry, durable, synced, litter, loaded, acked>>

\* os.CreateTemp in the directory of the target.
CreateTemp ==
    /\ pc = "create"
    /\ file' = [file EXCEPT ![saving] = Torn]
    /\ litter' = litter \union {saving}
    /\ pc' = "write"
    /\ UNCHANGED <<saving, entry, durable, synced, loaded, acked, calls>>

Write ==
    /\ pc = "write"
    /\ file' = [file EXCEPT ![saving] = saving]
    /\ pc' = "sync"
    /\ UNCHANGED <<saving, entry, durable, synced, litter, loaded, acked, calls>>

\* Mutant: the temp file is renamed without having been synced.
SyncSkipped == pc = "sync" /\ pc' = "rename"
               /\ UNCHANGED <<saving, file, entry, durable, synced, litter, loaded, acked, calls>>

Sync ==
    /\ pc = "sync"
    /\ synced' = synced \union {saving}
    /\ pc' = "rename"
    /\ UNCHANGED <<saving, file, entry, durable, litter, loaded, acked, calls>>

\* Close and rename over the target: the deferred Remove finds nothing.
Rename ==
    /\ pc = "rename"
    /\ entry' = saving
    /\ litter' = litter \ {saving}
    /\ pc' = "dirsync"
    /\ UNCHANGED <<saving, file, durable, synced, loaded, acked, calls>>

\* Mutant: the directory is never synced.
ReturnUnsynced ==
    /\ pc = "dirsync"
    /\ acked' = saving
    /\ saving' = 0
    /\ pc' = "idle"
    /\ UNCHANGED <<file, entry, durable, synced, litter, loaded, calls>>

\* The directory sync is best effort: Save returns nil when it fails too.
Return ==
    /\ pc = "dirsync"
    /\ \/ durable' = entry /\ acked' = saving
       \/ UNCHANGED <<durable, acked>>
    /\ saving' = 0
    /\ pc' = "idle"
    /\ UNCHANGED <<file, entry, synced, litter, loaded, calls>>

\* Mutant: an error path forgets the temp file.
FailLeavesTemp ==
    /\ pc \in {"create", "write", "sync", "rename"}
    /\ saving' = 0
    /\ pc' = "idle"
    /\ UNCHANGED <<file, entry, durable, synced, litter, loaded, acked, calls>>

\* Encode, create, write, sync, close or rename fails: the deferred Remove runs
\* and the error is returned.
Fails ==
    /\ pc \in {"create", "write", "sync", "rename"}
    /\ litter' = litter \ {saving}
    /\ saving' = 0
    /\ pc' = "idle"
    /\ UNCHANGED <<file, entry, durable, synced, loaded, acked, calls>>

-----------------------------------------------------------------------------
\* external: the kernel writes a file's data, or the directory, back by itself.
WriteBack ==
    \/ /\ \E f \in Files \ synced : f # 0 /\ file[f] = f /\ synced' = synced \union {f}
       /\ UNCHANGED <<pc, saving, file, entry, durable, litter, loaded, acked, calls>>
    \/ /\ durable # entry
       /\ durable' = entry
       /\ UNCHANGED <<pc, saving, file, entry, synced, litter, loaded, acked, calls>>

\* The process is killed: the kernel's view survives, the defers do not run.
Kill ==
    /\ pc # "down"
    /\ pc' = "down"
    /\ saving' = 0
    /\ UNCHANGED <<file, entry, durable, synced, litter, loaded, acked, calls>>

\* The host loses power: only what reached the disk survives.
PowerLoss ==
    /\ pc # "down"
    /\ pc' = "down"
    /\ saving' = 0
    /\ entry' = durable
    /\ file' = [f \in Files |-> IF f = 0 THEN Empty ELSE IF f \in synced THEN file[f] ELSE Torn]
    /\ UNCHANGED <<durable, synced, litter, loaded, acked, calls>>

\* Load at the next start: no file is the empty snapshot, a torn one fails it.
Load ==
    /\ pc = "down"
    /\ loaded' = file[entry]
    /\ pc' = IF file[entry] = Torn THEN "down" ELSE "idle"
    /\ UNCHANGED <<saving, file, entry, durable, synced, litter, acked, calls>>

Init ==
    /\ pc = "down"
    /\ saving = 0
    /\ file = [f \in Files |-> Empty]
    /\ entry = 0
    /\ durable = 0
    /\ synced = {}
    /\ litter = {}
    /\ loaded = Empty
    /\ acked = 0
    /\ calls = 0

Next == \/ Call \/ CreateTemp \/ Write \/ Sync \/ Rename \/ Return \/ Fails
        \/ WriteBack \/ Kill \/ PowerLoss \/ Load

Spec == Init /\ [][Next]_vars

-----------------------------------------------------------------------------
\* "Load sees either the prior snapshot or the new one" (filestore.go:15-16):
\* whatever is cut short, a start reads a whole snapshot, never a torn one.
NeverTorn == loaded # Torn /\ file[entry] # Torn

\* A start reads a snapshot at least as new as the last one whose Save returned
\* nil with the directory synced, and none that no Save was called with.
AckedSurvives == /\ acked <= durable /\ durable <= calls
                 /\ acked <= entry /\ entry <= calls

\* A Save that returns, with an error or without, has removed its temp file or
\* moved it into place: only the death of the process leaves one behind.
NoLitter == [][saving # 0 /\ pc' = "idle" => saving \notin litter']_vars

\* The instant a Save takes effect is the one its directory entry reaches the
\* disk: the file system implements the Store interface, power loss included,
\* with the reservation that a nil without the directory sync promises no more
\* than a Save that was cut short.
Durable == INSTANCE DurableStore
    WITH stored <- durable,
         limbo <- IF entry \in {durable, saving} THEN 0 ELSE entry

ImplementsStore == Durable!StoreSpec
=============================================================================
