-------------------------- MODULE StateFileProofs --------------------------
(***************************************************************************)
(* What StateFile guarantees for any number of calls and readers.          *)
(*                                                                         *)
(* The inductive invariant Inv says why the update is safe: every open     *)
(* descriptor is on the one sidecar inode, so at most one call is locked;  *)
(* the locked call's draft is the store plus its own edit; and what is in  *)
(* the store, or in the file its entry on the disk names, is flushed.      *)
(***************************************************************************)
EXTENDS StateFile, TLAPS

OneSidecar ==
    \A c \in Calls :
        /\ pc[c] \in Open <=> fd[c] # NoInode
        /\ fd[c] # NoInode => fd[c] = sidecar

HeldIsLocked ==
    /\ \A c \in Calls : c \in held <=> pc[c] \in Locked
    /\ \A c, d \in held : c = d

(* Nobody replaced the store since the locked call read it. *)
DraftIsFresh ==
    \A c \in Calls :
        /\ pc[c] = "loaded" => draft[c] = Data(store)
        /\ pc[c] \in {"edited", "temped", "written", "synced"} =>
               draft[c] = Data(store) \union {c}

TempIsDraft ==
    \A c \in Calls :
        /\ pc[c] = "written" => file[c] = [data |-> draft[c], blocks |-> "cached"]
        /\ pc[c] = "synced" => file[c] = [data |-> draft[c], blocks |-> "flushed"]

Renamed == {"renamed", "unlocking", "saved", "died"}

(* A call's file gets a name, and its edit an effect, only by its rename. *)
Provenance ==
    /\ \A c \in Calls : c \in Data(store) => pc[c] \in Renamed
    /\ \A c \in Calls : c \in Data(entry) => pc[c] \in Renamed
    /\ \A f \in {store, entry} : f \in Calls => pc[f] \in Renamed
    /\ \A r \in Readers : opened[r] \in Calls => pc[opened[r]] \in Renamed

NamedIsFlushed ==
    /\ \A f \in {store, entry} : f \in Calls => file[f].blocks = "flushed"
    /\ \A r \in Readers : opened[r] \in Calls => file[opened[r]].blocks = "flushed"

DiskIsBehind == Data(entry) \subseteq Data(store)

AppliedIsThere ==
    /\ \A c \in Calls :
           pc[c] \in {"renamed", "unlocking"} => store = c /\ c \in Data(store)
    /\ \A c \in Calls : pc[c] = "saved" => c \in Data(store) \union undone

HardenedIsThere ==
    \A c \in hardened : {c} \union file[c].data \subseteq Data(entry)

Inv ==
    /\ TypeOK
    /\ OneSidecar
    /\ HeldIsLocked
    /\ DraftIsFresh
    /\ TempIsDraft
    /\ Provenance
    /\ NamedIsFlushed
    /\ DiskIsBehind
    /\ AppliedIsThere
    /\ HardenedIsThere

-----------------------------------------------------------------------------
(* Type correctness: no action takes a variable out of its type. *)
LEMMA TypeInit == Init => TypeOK
  BY DEF Init, TypeOK, Files, Progress, Empty

LEMMA TypeStep == TypeOK /\ [Next]_vars => TypeOK'
  <1> SUFFICES ASSUME TypeOK, [Next]_vars PROVE TypeOK'
    OBVIOUS
  <1> USE SentinelsDiffer DEF TypeOK, Files, Progress, Empty, Data, Open, Final,
        Failable, lockVars, diskVars
  <1>1. ASSUME NEW c \in Calls, OpenSidecar(c) PROVE TypeOK'
    BY <1>1 DEF OpenSidecar, Goto
  <1>2. ASSUME NEW c \in Calls, Flock(c) PROVE TypeOK'
    BY <1>2 DEF Flock, Goto
  <1>3. ASSUME NEW c \in Calls, Load(c) PROVE TypeOK'
    BY <1>3 DEF Load, Goto
  <1>4. ASSUME NEW c \in Calls, Edit(c) PROVE TypeOK'
    BY <1>4 DEF Edit, Goto
  <1>5. ASSUME NEW c \in Calls, Raise(c) PROVE TypeOK'
    BY <1>5 DEF Raise, Goto, Release
  <1>6. ASSUME NEW c \in Calls, MakeTemp(c) PROVE TypeOK'
    BY <1>6 DEF MakeTemp, Goto, SetFile
  <1>7. ASSUME NEW c \in Calls, Write(c) PROVE TypeOK'
    BY <1>7 DEF Write, Goto, SetFile
  <1>8. ASSUME NEW c \in Calls, Fsync(c) PROVE TypeOK'
    BY <1>8 DEF Fsync, Goto, SetFile
  <1>9. ASSUME NEW c \in Calls, Rename(c) PROVE TypeOK'
    BY <1>9 DEF Rename, Goto
  <1>10. ASSUME NEW c \in Calls, SyncDirectory(c) PROVE TypeOK'
    BY <1>10 DEF SyncDirectory, Goto
  <1>11. ASSUME NEW c \in Calls, Close(c) PROVE TypeOK'
    BY <1>11 DEF Close, Goto, Release
  <1>12. ASSUME NEW c \in Calls, Fail(c) PROVE TypeOK'
    BY <1>12 DEF Fail, UnlinkTemp, Release
  <1>13. ASSUME NEW c \in Calls, Die(c) PROVE TypeOK'
    BY <1>13 DEF Die, Release
  <1>14. ASSUME NEW r \in Readers, ReadOpen(r) \/ ReadRest(r) PROVE TypeOK'
    BY <1>14 DEF ReadOpen, ReadRest
  <1>15. ASSUME Writeback PROVE TypeOK'
    BY <1>15 DEF Writeback
  <1>16. ASSUME PowerCut PROVE TypeOK'
    BY <1>16 DEF PowerCut
  <1>17. ASSUME UNCHANGED vars PROVE TypeOK'
    BY <1>17 DEF vars
  <1> QED
    BY <1>1, <1>2, <1>3, <1>4, <1>5, <1>6, <1>7, <1>8, <1>9, <1>10, <1>11, <1>12, <1>13, <1>14,
       <1>15, <1>16, <1>17 DEF Next, CallNext, Advance

-----------------------------------------------------------------------------
(* Inv is inductive. *)
LEMMA InvInit == Init => Inv
  <1> SUFFICES ASSUME Init PROVE Inv
    OBVIOUS
  <1>1. TypeOK
    BY TypeInit
  <1> QED
    BY <1>1, SentinelsDiffer DEF Init, Inv, OneSidecar, HeldIsLocked, DraftIsFresh,
       TempIsDraft, Provenance, NamedIsFlushed, DiskIsBehind, AppliedIsThere,
       HardenedIsThere, Data, Open, Locked, Renamed

(* What is hardened stays so while the disk names the file it did, and the *)
(* files that have been renamed stay what they are.                        *)
LEMMA HardenedKept ==
  ASSUME Inv, UNCHANGED <<entry, hardened>>,
         \A c \in Calls : pc[c] \in Renamed => file'[c] = file[c]
  PROVE  HardenedIsThere'
  <1> USE SentinelsDiffer DEF Inv, TypeOK
  <1>1. ASSUME NEW c \in hardened PROVE c \in Calls /\ c \in Data(entry)
    BY <1>1 DEF HardenedIsThere
  <1>2. \A c \in hardened : file'[c] = file[c]
    BY <1>1 DEF Provenance
  <1>3. Data(entry)' = Data(entry)
    <2>1. CASE entry = NoFile
      BY <2>1 DEF Data
    <2>2. CASE entry \in Calls
      BY <2>2 DEF Data, Provenance
    <2> QED
      BY <2>1, <2>2
  <1> QED
    BY <1>2, <1>3 DEF HardenedIsThere

(* Under each action, the parts it can disturb with the parts they need,   *)
(* and last the parts that only need themselves.                           *)
LEMMA InvStep == Inv /\ [Next]_vars => Inv'
  <1> SUFFICES ASSUME Inv, [Next]_vars PROVE Inv'
    OBVIOUS
  <1> TypeOK /\ TypeOK'
    BY TypeStep DEF Inv
  <1> USE SentinelsDiffer DEF Inv, TypeOK, Files, Progress, Empty, Data, Open, Final,
        Locked, Renamed, Failable, lockVars, diskVars
  <1>1. ASSUME NEW c \in Calls, OpenSidecar(c) PROVE Inv'
    <2>h. HardenedIsThere'
      BY <1>1, HardenedKept DEF OpenSidecar, Goto
    <2>1. /\ OneSidecar' /\ HeldIsLocked' /\ DraftIsFresh'
         /\ TempIsDraft' /\ Provenance' /\ NamedIsFlushed'
         /\ DiskIsBehind' /\ AppliedIsThere'
      BY <1>1 DEF OpenSidecar, Goto, OneSidecar, HeldIsLocked, DraftIsFresh,
         TempIsDraft, Provenance, NamedIsFlushed, DiskIsBehind, AppliedIsThere
    <2> QED
      BY <2>1, <2>h
  <1>2. ASSUME NEW c \in Calls, Flock(c) PROVE Inv'
    <2>h. HardenedIsThere'
      BY <1>2, HardenedKept DEF Flock, LockFree, Goto
    <2>1. HeldIsLocked'
      BY <1>2 DEF Flock, Goto, LockFree, OneSidecar, HeldIsLocked
    <2>2. /\ OneSidecar' /\ DraftIsFresh' /\ TempIsDraft'
         /\ Provenance' /\ NamedIsFlushed' /\ DiskIsBehind'
         /\ AppliedIsThere'
      BY <1>2 DEF Flock, Goto, LockFree, OneSidecar, DraftIsFresh,
         TempIsDraft, Provenance, NamedIsFlushed, DiskIsBehind, AppliedIsThere
    <2> QED
      BY <2>1, <2>2, <2>h
  <1>3. ASSUME NEW c \in Calls, Load(c) PROVE Inv'
    <2>h. HardenedIsThere'
      BY <1>3, HardenedKept DEF Load, Goto
    <2>1. /\ OneSidecar' /\ HeldIsLocked' /\ DraftIsFresh'
         /\ TempIsDraft' /\ Provenance' /\ NamedIsFlushed'
         /\ DiskIsBehind' /\ AppliedIsThere'
      BY <1>3 DEF Load, Goto, Whole, OneSidecar, HeldIsLocked, DraftIsFresh,
         TempIsDraft, Provenance, NamedIsFlushed, DiskIsBehind, AppliedIsThere
    <2> QED
      BY <2>1, <2>h
  <1>4. ASSUME NEW c \in Calls, Edit(c) PROVE Inv'
    <2>h. HardenedIsThere'
      BY <1>4, HardenedKept DEF Edit, Goto
    <2>1. /\ OneSidecar' /\ HeldIsLocked' /\ DraftIsFresh'
         /\ TempIsDraft' /\ Provenance' /\ NamedIsFlushed'
         /\ DiskIsBehind' /\ AppliedIsThere'
      BY <1>4 DEF Edit, Goto, OneSidecar, HeldIsLocked, DraftIsFresh,
         TempIsDraft, Provenance, NamedIsFlushed, DiskIsBehind, AppliedIsThere
    <2> QED
      BY <2>1, <2>h
  <1>5. ASSUME NEW c \in Calls, Raise(c) PROVE Inv'
    <2>h. HardenedIsThere'
      BY <1>5, HardenedKept DEF Raise, Release, Goto
    <2>1. /\ OneSidecar' /\ HeldIsLocked' /\ DraftIsFresh'
         /\ TempIsDraft' /\ Provenance' /\ NamedIsFlushed'
         /\ DiskIsBehind' /\ AppliedIsThere'
      BY <1>5 DEF Raise, Goto, Release, OneSidecar, HeldIsLocked,
         DraftIsFresh, TempIsDraft, Provenance, NamedIsFlushed, DiskIsBehind,
         AppliedIsThere
    <2> QED
      BY <2>1, <2>h
  <1>6. ASSUME NEW c \in Calls, MakeTemp(c) PROVE Inv'
    <2>h. HardenedIsThere'
      BY <1>6, HardenedKept DEF MakeTemp, SetFile, Goto
    <2>1. DraftIsFresh'
      BY <1>6 DEF MakeTemp, Goto, SetFile, DraftIsFresh, Provenance
    <2>2. NamedIsFlushed'
      BY <1>6 DEF MakeTemp, Goto, SetFile, Provenance, NamedIsFlushed
    <2>3. DiskIsBehind'
      BY <1>6 DEF MakeTemp, Goto, SetFile, Provenance, DiskIsBehind
    <2>4. AppliedIsThere'
      BY <1>6 DEF MakeTemp, Goto, SetFile, Provenance, AppliedIsThere
    <2>5. /\ OneSidecar' /\ HeldIsLocked' /\ TempIsDraft'
         /\ Provenance'
      BY <1>6 DEF MakeTemp, Goto, SetFile, OneSidecar, HeldIsLocked,
         TempIsDraft, Provenance
    <2> QED
      BY <2>1, <2>2, <2>3, <2>4, <2>5, <2>h
  <1>7. ASSUME NEW c \in Calls, Write(c) PROVE Inv'
    <2>h. HardenedIsThere'
      BY <1>7, HardenedKept DEF Write, SetFile, Goto
    <2>1. DraftIsFresh'
      BY <1>7 DEF Write, Goto, SetFile, DraftIsFresh, Provenance
    <2>2. NamedIsFlushed'
      BY <1>7 DEF Write, Goto, SetFile, Provenance, NamedIsFlushed
    <2>3. DiskIsBehind'
      BY <1>7 DEF Write, Goto, SetFile, Provenance, DiskIsBehind
    <2>4. AppliedIsThere'
      BY <1>7 DEF Write, Goto, SetFile, Provenance, AppliedIsThere
    <2>5. /\ OneSidecar' /\ HeldIsLocked' /\ TempIsDraft'
         /\ Provenance'
      BY <1>7 DEF Write, Goto, SetFile, OneSidecar, HeldIsLocked, TempIsDraft,
         Provenance
    <2> QED
      BY <2>1, <2>2, <2>3, <2>4, <2>5, <2>h
  <1>8. ASSUME NEW c \in Calls, Fsync(c) PROVE Inv'
    <2>h. HardenedIsThere'
      BY <1>8, HardenedKept DEF Fsync, SetFile, Goto
    <2>1. /\ OneSidecar' /\ HeldIsLocked' /\ DraftIsFresh'
         /\ TempIsDraft' /\ Provenance' /\ NamedIsFlushed'
         /\ DiskIsBehind' /\ AppliedIsThere'
      BY <1>8 DEF Fsync, Goto, SetFile, OneSidecar, HeldIsLocked,
         DraftIsFresh, TempIsDraft, Provenance, NamedIsFlushed, DiskIsBehind,
         AppliedIsThere
    <2> QED
      BY <2>1, <2>h
  <1>9. ASSUME NEW c \in Calls, Rename(c) PROVE Inv'
    <2>h. HardenedIsThere'
      BY <1>9, HardenedKept DEF Rename, Goto
    <2>1. DraftIsFresh'
      BY <1>9 DEF Rename, Goto, HeldIsLocked, DraftIsFresh
    <2>2. Provenance'
      BY <1>9 DEF Rename, Goto, DraftIsFresh, TempIsDraft, Provenance
    <2>3. NamedIsFlushed'
      BY <1>9 DEF Rename, Goto, TempIsDraft, NamedIsFlushed
    <2>4. DiskIsBehind'
      BY <1>9 DEF Rename, Goto, DraftIsFresh, TempIsDraft, DiskIsBehind
    <2>5. AppliedIsThere'
      BY <1>9 DEF Rename, Goto, HeldIsLocked, DraftIsFresh, TempIsDraft, AppliedIsThere
    <2>6. OneSidecar' /\ HeldIsLocked' /\ TempIsDraft'
      BY <1>9 DEF Rename, Goto, OneSidecar, HeldIsLocked, TempIsDraft
    <2> QED
      BY <2>1, <2>2, <2>3, <2>4, <2>5, <2>6, <2>h
  <1>10. ASSUME NEW c \in Calls, SyncDirectory(c) PROVE Inv'
    <2>h. HardenedIsThere'
      <3>1. CASE entry' = store /\ hardened' = hardened \union {c}
        <4>1. store = c /\ c \in Data(store) /\ UNCHANGED file
          BY <1>10 DEF SyncDirectory, Goto, AppliedIsThere
        <4>2. Data(entry)' = Data(store) /\ file[c].data = Data(store)
          BY <3>1, <4>1 DEF Data
        <4>3. ASSUME NEW d \in hardened PROVE {d} \union file[d].data \subseteq Data(store)
          BY <4>3 DEF HardenedIsThere, DiskIsBehind
        <4> QED
          BY <3>1, <4>1, <4>2, <4>3 DEF HardenedIsThere
      <3>2. CASE UNCHANGED <<entry, hardened>>
        BY <1>10, <3>2, HardenedKept DEF SyncDirectory, Goto
      <3> QED
        BY <1>10, <3>1, <3>2 DEF SyncDirectory
    <2>1. AppliedIsThere'
      BY <1>10 DEF SyncDirectory, Goto, DiskIsBehind, AppliedIsThere
    <2>2. /\ OneSidecar' /\ HeldIsLocked' /\ DraftIsFresh'
         /\ TempIsDraft' /\ Provenance' /\ NamedIsFlushed'
         /\ DiskIsBehind'
      BY <1>10 DEF SyncDirectory, Goto, OneSidecar, HeldIsLocked,
         DraftIsFresh, TempIsDraft, Provenance, NamedIsFlushed, DiskIsBehind
    <2> QED
      BY <2>1, <2>2, <2>h
  <1>11. ASSUME NEW c \in Calls, Close(c) PROVE Inv'
    <2>h. HardenedIsThere'
      BY <1>11, HardenedKept DEF Close, Release, Goto
    <2>1. /\ OneSidecar' /\ HeldIsLocked' /\ DraftIsFresh'
         /\ TempIsDraft' /\ Provenance' /\ NamedIsFlushed'
         /\ DiskIsBehind' /\ AppliedIsThere'
      BY <1>11 DEF Close, Goto, Release, OneSidecar, HeldIsLocked,
         DraftIsFresh, TempIsDraft, Provenance, NamedIsFlushed, DiskIsBehind,
         AppliedIsThere
    <2> QED
      BY <2>1, <2>h
  <1>12. ASSUME NEW c \in Calls, Fail(c) PROVE Inv'
    <2>h. HardenedIsThere'
      BY <1>12, HardenedKept DEF Fail, UnlinkTemp, Release, Goto
    <2>1. /\ UNCHANGED <<store, entry, opened, draft>>
          /\ \A d \in Calls \ {c} : file'[d] = file[d]
          /\ c \notin {store, entry} /\ \A r \in Readers : opened[r] # c
      BY <1>12 DEF Fail, UnlinkTemp, Provenance
    <2>2. UNCHANGED <<Data(store), Data(entry)>>
      BY <2>1 DEF Data
    <2>3. OneSidecar' /\ HeldIsLocked'
      BY <1>12 DEF Fail, UnlinkTemp, Release, OneSidecar, HeldIsLocked
    <2>4. DraftIsFresh' /\ TempIsDraft'
      <3> HIDE DEF Data
      <3> QED
        BY <1>12, <2>1, <2>2 DEF Fail, DraftIsFresh, TempIsDraft
    <2>5. Provenance' /\ DiskIsBehind'
      <3> HIDE DEF Data
      <3> QED
        BY <1>12, <2>1, <2>2 DEF Fail, Provenance, DiskIsBehind
    <2>6. NamedIsFlushed'
      BY <2>1 DEF NamedIsFlushed
    <2>7. AppliedIsThere'
      <3>1. UNCHANGED undone
        BY <1>12 DEF Fail, UnlinkTemp
      <3> HIDE DEF Data
      <3> QED
        BY <1>12, <2>1, <2>2, <3>1 DEF Fail, AppliedIsThere
    <2> QED
      BY <2>3, <2>4, <2>5, <2>6, <2>7, <2>h
  <1>13. ASSUME NEW c \in Calls, Die(c) PROVE Inv'
    <2>h. HardenedIsThere'
      BY <1>13, HardenedKept DEF Die, Release, Goto
    <2>1. /\ OneSidecar' /\ HeldIsLocked' /\ DraftIsFresh'
         /\ TempIsDraft' /\ Provenance' /\ NamedIsFlushed'
         /\ DiskIsBehind' /\ AppliedIsThere'
      BY <1>13 DEF Die, Release, OneSidecar, HeldIsLocked, DraftIsFresh,
         TempIsDraft, Provenance, NamedIsFlushed, DiskIsBehind, AppliedIsThere
    <2> QED
      BY <2>1, <2>h
  <1>14. ASSUME NEW r \in Readers, ReadOpen(r) \/ ReadRest(r) PROVE Inv'
    <2>h. HardenedIsThere'
      BY <1>14, HardenedKept DEF ReadOpen, ReadRest
    <2>1. OneSidecar' /\ HeldIsLocked' /\ DraftIsFresh' /\ TempIsDraft'
      BY <1>14 DEF ReadOpen, ReadRest, OneSidecar, HeldIsLocked, DraftIsFresh,
         TempIsDraft
    <2>2. Provenance' /\ NamedIsFlushed'
      BY <1>14 DEF ReadOpen, ReadRest, Provenance, NamedIsFlushed
    <2>3. DiskIsBehind' /\ AppliedIsThere'
      BY <1>14 DEF ReadOpen, ReadRest, DiskIsBehind, AppliedIsThere
    <2> QED
      BY <2>1, <2>2, <2>3, <2>h
  <1>15. ASSUME Writeback PROVE Inv'
    <2>h. HardenedIsThere'
      BY <1>15 DEF Writeback, DiskIsBehind, HardenedIsThere
    <2>1. AppliedIsThere'
      BY <1>15 DEF Writeback, DiskIsBehind, AppliedIsThere
    <2>2. /\ OneSidecar' /\ HeldIsLocked' /\ DraftIsFresh'
         /\ TempIsDraft' /\ Provenance' /\ NamedIsFlushed'
         /\ DiskIsBehind'
      BY <1>15 DEF Writeback, OneSidecar, HeldIsLocked, DraftIsFresh,
         TempIsDraft, Provenance, NamedIsFlushed, DiskIsBehind
    <2> QED
      BY <2>1, <2>2, <2>h
  <1>16. ASSUME PowerCut PROVE Inv'
    <2>h. HardenedIsThere'
      BY <1>16 DEF PowerCut, NamedIsFlushed, HardenedIsThere
    <2>1. AppliedIsThere'
      BY <1>16 DEF PowerCut, NamedIsFlushed, AppliedIsThere
    <2>2. /\ OneSidecar' /\ HeldIsLocked' /\ DraftIsFresh'
         /\ TempIsDraft' /\ Provenance' /\ NamedIsFlushed'
         /\ DiskIsBehind'
      BY <1>16 DEF PowerCut, OneSidecar, HeldIsLocked, DraftIsFresh,
         TempIsDraft, Provenance, NamedIsFlushed, DiskIsBehind
    <2> QED
      BY <2>1, <2>2, <2>h
  <1>17. ASSUME UNCHANGED vars PROVE Inv'
    <2>h. HardenedIsThere'
      BY <1>17, HardenedKept DEF vars
    <2>1. /\ OneSidecar' /\ HeldIsLocked' /\ DraftIsFresh'
         /\ TempIsDraft' /\ Provenance' /\ NamedIsFlushed'
         /\ DiskIsBehind' /\ AppliedIsThere'
      BY <1>17 DEF vars, OneSidecar, HeldIsLocked, DraftIsFresh, TempIsDraft,
         Provenance, NamedIsFlushed, DiskIsBehind, AppliedIsThere
    <2> QED
      BY <2>1, <2>h
  <1> QED
    BY <1>1, <1>2, <1>3, <1>4, <1>5, <1>6, <1>7, <1>8, <1>9, <1>10, <1>11,
       <1>12, <1>13, <1>14, <1>15, <1>16, <1>17 DEF Next, CallNext, Advance

THEOREM Invariance == Spec => []Inv
  <1> QED
    BY InvInit, InvStep, PTL DEF Spec

-----------------------------------------------------------------------------
(* The properties the runs check, for any number of calls and readers. *)

(* Every variable keeps its type. *)
THEOREM TypeCorrect == Spec => []TypeOK
  <1> QED
    BY TypeInit, TypeStep, PTL DEF Spec

(* At most one call is between reading the store and replacing it. *)
THEOREM Exclusion == Spec => []MutualExclusion
  <1>1. Inv => MutualExclusion
    BY DEF Inv, HeldIsLocked, MutualExclusion, TypeOK
  <1> QED
    BY <1>1, Invariance, PTL

(* No reader sees a truncated store, not even after a power cut. *)
THEOREM Untorn == Spec => []NeverTorn
  <1>1. Inv => NeverTorn
    BY SentinelsDiffer DEF Inv, NamedIsFlushed, NeverTorn, Whole, TypeOK
  <1> QED
    BY <1>1, Invariance, PTL

(* A call that returned is not undone by another call. *)
THEOREM NoLostUpdate == Spec => []SavedStays
  <1>1. Inv => SavedStays
    BY DEF Inv, AppliedIsThere, SavedStays
  <1> QED
    BY <1>1, Invariance, PTL

(* A call whose directory sync succeeded is not undone by a power cut, nor *)
(* are the updates it found in the store.                                  *)
THEOREM Durability == Spec => []HardenedStays
  <1>1. Inv => HardenedStays
    BY DEF Inv, HardenedIsThere, DiskIsBehind, HardenedStays
  <1> QED
    BY <1>1, Invariance, PTL

(* A call that raised has left nothing behind. *)
THEOREM CleanFailure == Spec => []RaisedLeavesNothing
  <1>1. Inv => RaisedLeavesNothing
    BY DEF Inv, Provenance, RaisedLeavesNothing, Renamed
  <1> QED
    BY <1>1, Invariance, PTL

-----------------------------------------------------------------------------
(* The refinement: every step of a call is a step of AtomicStore's or none. *)

LEMMA AbstractInit == Init => Abstract!Init
  <1> SUFFICES ASSUME Init PROVE Abstract!Init
    OBVIOUS
  <1>1. \A c \in Calls : Seen(c) = "idle"
    BY DEF Init, Seen, Open
  <1>2. Data(store) = {} /\ Data(entry) = {}
    BY DEF Init, Data
  <1> QED
    BY <1>1, <1>2 DEF Abstract!Init

(* A step of one call, seen from AtomicStore, *)
LEMMA Mapped ==
  ASSUME NEW c \in Calls, NEW from, NEW to, Seen(c) \in from,
         \A d \in Calls : Seen(d)' = IF d = c THEN to ELSE Seen(d)
  PROVE  Abstract!Goto(c, from, to)
  BY DEF Abstract!Goto

LEMMA MappedReject ==
  ASSUME NEW c \in Calls, Seen(c) \in {"idle", "running"},
         \A d \in Calls : Seen(d)' = IF d = c THEN "rejected" ELSE Seen(d),
         UNCHANGED <<Data(store), Data(entry)>>
  PROVE  Abstract!Reject(c)
  <1>1. Abstract!Goto(c, {"idle", "running"}, "rejected")
    BY Mapped
  <1> QED
    BY <1>1 DEF Abstract!Reject

LEMMA MappedDie ==
  ASSUME NEW c \in Calls, Seen(c) \in {"running", "applied"},
         \A d \in Calls : Seen(d)' = IF d = c THEN "died" ELSE Seen(d),
         UNCHANGED <<Data(store), Data(entry)>>
  PROVE  Abstract!Die(c)
  <1>1. Abstract!Goto(c, {"running", "applied"}, "died")
    BY Mapped
  <1> QED
    BY <1>1 DEF Abstract!Die

(* and one that cannot be seen from there. *)
LEMMA Stutter ==
  ASSUME UNCHANGED <<Data(store), Data(entry)>>, \A d \in Calls : Seen(d)' = Seen(d)
  PROVE  UNCHANGED Abstract!vars
  BY DEF Abstract!vars

(* The steps of a call that nobody else can see. *)
Inner(c) == Flock(c) \/ Load(c) \/ Edit(c) \/ MakeTemp(c) \/ Write(c) \/ Fsync(c)

LEMMA AbstractStep ==
  Inv /\ [Next]_vars => [Abstract!Next]_(Abstract!vars)
  <1> SUFFICES ASSUME Inv, [Next]_vars PROVE [Abstract!Next]_(Abstract!vars)
    OBVIOUS
  <1> TypeOK /\ TypeOK'
    BY TypeStep DEF Inv
  <1> USE SentinelsDiffer DEF TypeOK, Files, Progress, Open, Final, Failable,
        lockVars, diskVars
  <1>1. ASSUME NEW c \in Calls, OpenSidecar(c) PROVE Abstract!Begin(c)
    <2>1. /\ Seen(c) \in {"idle"}
          /\ \A d \in Calls : Seen(d)' = IF d = c THEN "running" ELSE Seen(d)
      BY <1>1 DEF OpenSidecar, Goto, Seen
    <2>2. UNCHANGED <<Data(store), Data(entry)>>
      BY <1>1 DEF OpenSidecar, Goto, Data
    <2> QED
      BY <2>1, <2>2, Mapped DEF Abstract!Begin
  <1>2. ASSUME NEW c \in Calls, Inner(c) PROVE UNCHANGED Abstract!vars
    <2>1. \A d \in Calls : Seen(d)' = Seen(d)
      BY <1>2 DEF Inner, Flock, Load, Edit, MakeTemp, Write, Fsync, SetFile, Goto, Seen
    <2>2. ASSUME Flock(c) \/ Load(c) \/ Edit(c)
          PROVE  UNCHANGED <<Data(store), Data(entry)>>
      BY <2>2 DEF Flock, Load, Edit, Data
    <2>3. ASSUME MakeTemp(c) \/ Write(c) \/ Fsync(c)
          PROVE  UNCHANGED <<Data(store), Data(entry)>>
      <3>1. c # store /\ c # entry
        BY <2>3 DEF MakeTemp, Write, Fsync, Goto, Inv, Provenance, Renamed
      <3>2. UNCHANGED <<store, entry>> /\ \A f \in Calls \ {c} : file'[f] = file[f]
        BY <2>3 DEF MakeTemp, Write, Fsync, SetFile
      <3> QED
        BY <3>1, <3>2 DEF Data
    <2> QED
      BY <1>2, <2>1, <2>2, <2>3, Stutter DEF Inner
  <1>3. ASSUME NEW c \in Calls, Rename(c) PROVE Abstract!Apply(c)
    <2>1. /\ Seen(c) \in {"running"}
          /\ \A d \in Calls : Seen(d)' = IF d = c THEN "applied" ELSE Seen(d)
      BY <1>3 DEF Rename, Goto, Seen
    <2>2. /\ Data(store)' = Data(store) \union {c}
          /\ UNCHANGED Data(entry)
      BY <1>3 DEF Rename, Goto, Inv, TempIsDraft, DraftIsFresh, Data
    <2> QED
      BY <2>1, <2>2, Mapped DEF Abstract!Apply
  <1>4. ASSUME NEW c \in Calls, SyncDirectory(c)
        PROVE Abstract!Persist \/ UNCHANGED Abstract!vars
    <2>1. \A d \in Calls : Seen(d)' = Seen(d)
      BY <1>4 DEF SyncDirectory, Goto, Seen
    <2>2. /\ UNCHANGED Data(store)
          /\ Data(entry)' = Data(store) \/ UNCHANGED Data(entry)
      BY <1>4 DEF SyncDirectory, Data
    <2> QED
      BY <2>1, <2>2, Stutter DEF Abstract!Persist
  <1>5. ASSUME NEW c \in Calls, Close(c) PROVE Abstract!Return(c)
    <2>1. /\ Seen(c) \in {"applied"}
          /\ \A d \in Calls : Seen(d)' = IF d = c THEN "saved" ELSE Seen(d)
      BY <1>5 DEF Close, Release, Goto, Seen
    <2>2. UNCHANGED <<Data(store), Data(entry)>>
      BY <1>5 DEF Close, Release, Goto, Data
    <2> QED
      BY <2>1, <2>2, Mapped DEF Abstract!Return
  <1>6. ASSUME NEW c \in Calls, Raise(c) \/ Fail(c) PROVE Abstract!Reject(c)
    <2>1. /\ Seen(c) \in {"idle", "running"}
          /\ \A d \in Calls : Seen(d)' = IF d = c THEN "rejected" ELSE Seen(d)
      BY <1>6 DEF Raise, Fail, Release, Goto, Seen
    <2>2. UNCHANGED <<Data(store), Data(entry)>>
      <3>1. CASE Raise(c)
        BY <3>1 DEF Raise, Release, Goto, Data
      <3>2. CASE Fail(c)
        <4>1. /\ c \notin {store, entry} /\ UNCHANGED <<store, entry>>
              /\ \A d \in Calls \ {c} : file'[d] = file[d]
          BY <3>2 DEF Fail, UnlinkTemp, Inv, Provenance, Renamed
        <4> QED
          BY <4>1 DEF Data
      <3> QED
        BY <1>6, <3>1, <3>2
    <2> QED
      BY <2>1, <2>2, MappedReject
  <1>7. ASSUME NEW c \in Calls, Die(c) PROVE Abstract!Die(c)
    <2>1. /\ Seen(c) \in {"running", "applied"}
          /\ \A d \in Calls : Seen(d)' = IF d = c THEN "died" ELSE Seen(d)
      BY <1>7 DEF Die, Release, Seen
    <2>2. UNCHANGED <<Data(store), Data(entry)>>
      BY <1>7 DEF Die, Release, Data
    <2> QED
      BY <2>1, <2>2, MappedDie
  <1>8. ASSUME NEW r \in Readers, ReadOpen(r) \/ ReadRest(r)
        PROVE UNCHANGED Abstract!vars
    BY <1>8, Stutter DEF ReadOpen, ReadRest, Seen, Data
  <1>9. ASSUME Writeback PROVE Abstract!Persist
    BY <1>9 DEF Writeback, Seen, Data, Abstract!Persist
  <1>10. ASSUME PowerCut PROVE Abstract!PowerCut
    <2>1. \A d \in Calls :
             Seen(d)' = IF Seen(d) \in {"running", "applied"} THEN "died" ELSE Seen(d)
      BY <1>10 DEF PowerCut, Seen
    <2>2. Data(store)' = Data(entry) /\ UNCHANGED Data(entry)
      BY <1>10 DEF PowerCut, Inv, NamedIsFlushed, Data
    <2> QED
      BY <2>1, <2>2 DEF Abstract!PowerCut
  <1>11. ASSUME UNCHANGED vars PROVE UNCHANGED Abstract!vars
    BY <1>11, Stutter DEF vars, Seen, Data
  <1> QED
    BY <1>1, <1>2, <1>3, <1>4, <1>5, <1>6, <1>7, <1>8, <1>9, <1>10, <1>11
       DEF Next, CallNext, Advance, Inner, Abstract!Next

(* The system calls of update_state_file add up to one atomic update per   *)
(* call, undone by nothing but a power cut before it is on the disk.       *)
THEOREM Refinement == Spec => AtomicUpdates
  <1> QED
    BY AbstractInit, AbstractStep, Invariance, PTL
       DEF Spec, AtomicUpdates, Abstract!Spec
=============================================================================
