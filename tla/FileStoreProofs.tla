--------------------------- MODULE FileStoreProofs ---------------------------
(***************************************************************************)
(* Theorems about FileStore: what survives a Save that is cut short        *)
(* anywhere, by the process' death or the host's, for any number of Saves. *)
(***************************************************************************)
EXTENDS FileStore, TLAPS

Writing == {"create", "write", "sync", "rename"}

TypeOK ==
    /\ pc \in Writing \union {"idle", "down", "dirsync"}
    /\ saving \in Files /\ entry \in Files /\ durable \in Files
    /\ acked \in Nat /\ calls \in Files
    /\ file \in [Files -> Nat \union {Torn}]
    /\ synced \subseteq Files /\ litter \subseteq Files

\* A Save in progress is the newest, and its file is the target only once it was
\* renamed.
SaveInv ==
    /\ saving = 0 <=> pc \in {"idle", "down"}
    /\ saving # 0 => saving = calls
    /\ pc \in Writing => entry < saving
    /\ pc = "dirsync" => entry = saving /\ saving \notin litter

\* Data counts as synced only when it is whole: a file is not before its Save has
\* written it, and the file that is renamed over the target is.
DataInv ==
    /\ file[0] = Empty
    /\ \A f \in synced : f # 0 /\ file[f] = f
    /\ \A f \in Files : f > calls => f \notin synced /\ file[f] # f
    /\ pc \in {"create", "write"} => saving \notin synced /\ file[saving] # saving
    /\ pc = "sync" => file[saving] = saving
    /\ pc = "rename" => saving \in synced

\* The names of the target, on the disk and in memory, follow the Saves in order,
\* and neither is given to data that is not on the disk.
EntryInv ==
    /\ acked <= durable /\ durable <= entry /\ entry <= calls
    /\ entry # 0 => entry \in synced
    /\ durable # 0 => durable \in synced

StoreInv == TypeOK /\ SaveInv /\ DataInv /\ EntryInv /\ loaded # Torn

LEMMA FilesAreNat == Files \subseteq Nat /\ 0 \in Files /\ \A f \in Files : f <= MaxSaves
BY SavesAssumption DEF Files

LEMMA StoreInvInit == Init => StoreInv
BY SavesAssumption, FilesAreNat
   DEF Init, StoreInv, TypeOK, SaveInv, DataInv, EntryInv, Empty, Writing

LEMMA StoreInvNext == StoreInv /\ [Next]_vars => StoreInv'
<1> SUFFICES ASSUME StoreInv, [Next]_vars PROVE StoreInv'
  OBVIOUS
<1> USE SavesAssumption, FilesAreNat
<1> USE DEF StoreInv, TypeOK, SaveInv, DataInv, EntryInv, Writing
<1>1. CASE Call
  <2>1. calls + 1 \in Files
    BY <1>1 DEF Call, Files
  <2> QED
    BY <1>1, <2>1 DEF Call
<1>2. CASE CreateTemp
  BY <1>2 DEF CreateTemp
<1>3. CASE Write
  BY <1>3 DEF Write
<1>4. CASE Sync
  BY <1>4 DEF Sync
<1>5. CASE Rename
  <2>1. /\ pc = "rename" /\ pc' = "dirsync"
        /\ entry' = saving /\ litter' = litter \ {saving}
        /\ UNCHANGED <<saving, file, durable, synced, loaded, acked, calls>>
    BY <1>5 DEF Rename
  <2>2. TypeOK' /\ SaveInv'
    BY <2>1
  <2>3. DataInv'
    BY <2>1
  <2>4. EntryInv'
    BY <2>1
  <2> QED
    BY <2>1, <2>2, <2>3, <2>4
<1>6. CASE Return
  BY <1>6 DEF Return
<1>7. CASE Fails
  BY <1>7 DEF Fails
<1>8. CASE WriteBack
  <2>1. CASE /\ \E f \in Files \ synced : f # 0 /\ file[f] = f /\ synced' = synced \union {f}
             /\ UNCHANGED <<pc, saving, file, entry, durable, litter, loaded, acked, calls>>
    <3>1. PICK f \in Files \ synced : f # 0 /\ file[f] = f /\ synced' = synced \union {f}
      BY <2>1
    <3>2. DataInv'
      BY <2>1, <3>1
    <3> QED
      BY <2>1, <3>1, <3>2
  <2>2. CASE /\ durable # entry /\ durable' = entry
             /\ UNCHANGED <<pc, saving, file, entry, synced, litter, loaded, acked, calls>>
    BY <2>2
  <2> QED
    BY <1>8, <2>1, <2>2 DEF WriteBack
<1>9. CASE Kill
  BY <1>9 DEF Kill
<1>10. CASE PowerLoss
  <2>1. /\ pc' = "down" /\ saving' = 0 /\ entry' = durable
        /\ UNCHANGED <<durable, synced, litter, loaded, acked, calls>>
        /\ file' = [f \in Files |-> IF f = 0 THEN Empty
                                    ELSE IF f \in synced THEN file[f] ELSE Torn]
    BY <1>10 DEF PowerLoss
  <2>2. file' \in [Files -> Nat \union {Torn}]
    BY <2>1 DEF Empty
  <2>3. DataInv'
    <3>1. \A f \in Files : f # 0 /\ f \notin synced => file'[f] = Torn /\ file'[f] # f
      BY <2>1
    <3>2. \A f \in synced : file'[f] = f
      BY <2>1
    <3> QED
      BY <2>1, <3>1, <3>2
  <2> QED
    BY <2>1, <2>2, <2>3
<1>11. CASE Load
  BY <1>11 DEF Load, Empty
<1>12. CASE UNCHANGED vars
  BY <1>12 DEF vars
<1> QED
  BY <1>1, <1>2, <1>3, <1>4, <1>5, <1>6, <1>7, <1>8, <1>9, <1>10, <1>11, <1>12 DEF Next

LEMMA StoreInvAlways == Spec => []StoreInv
BY StoreInvInit, StoreInvNext, PTL DEF Spec

\* No start ever reads half a snapshot: the target's name is only ever given to
\* synced data (filestore.go: the temp file is fsynced before the rename).
THEOREM NeverReadTorn == Spec => []NeverTorn
<1>1. StoreInv => NeverTorn
  BY SavesAssumption, FilesAreNat DEF StoreInv, TypeOK, DataInv, EntryInv, NeverTorn, Empty
<1> QED
  BY <1>1, StoreInvAlways, PTL

\* What a Save vouched for is what every later start reads, or something newer.
THEOREM AckedAlwaysSurvives == Spec => []AckedSurvives
<1>1. StoreInv => AckedSurvives
  BY FilesAreNat DEF StoreInv, TypeOK, EntryInv, AckedSurvives
<1> QED
  BY <1>1, StoreInvAlways, PTL

\* Every return of Save, on each of its error paths, leaves no temp file behind.
THEOREM NoLitterLeft == Spec => NoLitter
<1>1. StoreInv /\ [Next]_vars => [saving # 0 /\ pc' = "idle" => saving \notin litter']_vars
  <2> SUFFICES ASSUME StoreInv, Next, saving # 0, pc' = "idle" PROVE saving \notin litter'
    OBVIOUS
  <2>1. pc \in Writing \/ pc = "dirsync"
    BY DEF StoreInv, TypeOK, SaveInv
  <2> QED
    BY <2>1 DEF StoreInv, SaveInv, Next, Call, CreateTemp, Write, Sync, Rename, Return, Fails,
                WriteBack, Kill, PowerLoss, Load, Writing
<1> QED
  BY <1>1, StoreInvAlways, PTL DEF Spec, NoLitter

-----------------------------------------------------------------------------
(* The file system as a Store.                                              *)

\* The snapshot whose fate a Save that was cut short left open.
Limbo == IF entry \in {durable, saving} THEN 0 ELSE entry

LEMMA LimboOf ==
    ASSUME StoreInv
    PROVE  /\ Limbo \in Nat
           /\ saving = 0 => Limbo = IF entry = durable THEN 0 ELSE entry
BY FilesAreNat DEF StoreInv, TypeOK, EntryInv, Limbo

LEMMA StoreStepImplements ==
    ASSUME StoreInv, StoreInv', [Next]_vars
    PROVE  [Durable!StoreNext]_(Durable!storeVars)
<1> USE FilesAreNat DEF StoreInv, TypeOK, SaveInv, EntryInv
<1> DEFINE Same == UNCHANGED <<durable, saving, entry, acked>>
<1>0. ASSUME Same PROVE UNCHANGED Durable!storeVars
  BY <1>0 DEF Durable!storeVars
<1>1. CASE Call
  <2>1. /\ saving = 0 /\ saving' = calls + 1
        /\ UNCHANGED <<durable, entry, acked>>
        /\ entry <= calls /\ durable <= entry
    BY <1>1 DEF Call
  <2>2. Limbo' = Limbo /\ Limbo <= calls
    BY <2>1 DEF Limbo
  <2> QED
    BY <2>1, <2>2 DEF Durable!StoreNext, Durable!Call, Limbo
<1>2. CASE CreateTemp \/ Write \/ Sync \/ Load \/ UNCHANGED vars
  BY <1>0, <1>2 DEF CreateTemp, Write, Sync, Load, vars
<1>3. CASE Rename
  BY <1>3 DEF Rename, Durable!StoreNext, Durable!Supersede
<1>4. CASE Return
  BY <1>4 DEF Return, Durable!StoreNext, Durable!ReturnNil, Durable!CutShort
<1>5. CASE Fails
  BY <1>5 DEF Fails, Writing, Durable!StoreNext, Durable!ReturnError
<1>6. CASE WriteBack
  <2>1. CASE Same
    BY <1>0, <2>1
  <2>2. CASE durable # entry /\ durable' = entry /\ UNCHANGED <<saving, entry, acked>>
    BY <2>2 DEF Durable!StoreNext, Durable!Commit, Durable!CommitLate
  <2> QED
    BY <1>6, <2>1, <2>2 DEF WriteBack
<1>7. CASE Kill
  BY <1>7 DEF Kill, Durable!StoreNext, Durable!CutShort
<1>8. CASE PowerLoss
  BY <1>8 DEF PowerLoss, Durable!StoreNext, Durable!CutShort
<1> QED
  BY <1>1, <1>2, <1>3, <1>4, <1>5, <1>6, <1>7, <1>8 DEF Next

\* A file system that syncs nothing by itself and may forget whatever was not
\* synced implements the Store the kit is written against.
THEOREM FileStoreIsAStore == Spec => ImplementsStore
<1>1. Init => Durable!StoreInit
  BY DEF Init, Durable!StoreInit
<1> QED
  BY <1>1, StoreInvAlways, StoreStepImplements, PTL
     DEF Spec, ImplementsStore, Durable!StoreSpec
=============================================================================
