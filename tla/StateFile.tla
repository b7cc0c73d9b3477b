----------------------------- MODULE StateFile -----------------------------
(***************************************************************************)
(* One state file and the calls of update_state_file (state_file.py) on    *)
(* it, one action per system call that other processes, a kill or a power  *)
(* cut can come before or after.                                           *)
(*                                                                         *)
(* Each call is a CLI process or a thread of the server and runs once.     *)
(* What the file holds is abstracted to the set of calls whose edit it     *)
(* carries.  A call writes at most one file, its mkstemp temporary, so     *)
(* that file is named by the call; the name of the store and the directory *)
(* entry on the disk are then each the name of such a file.                *)
(***************************************************************************)
EXTENDS Naturals, FiniteSets

CONSTANTS
    Calls,     \* the calls of update_state_file
    Readers,   \* readers that take no lock: auth.py, app list, serve
    Inodes,    \* identities the sidecar lock file can have
    NoInode,   \* no sidecar; no open descriptor
    NoFile,    \* the store is not there yet
    Closed     \* a reader with no file open

ASSUME SentinelsDiffer ==
    /\ NoInode \notin Inodes
    /\ NoFile \notin Calls
    /\ Closed \notin Calls \union {NoFile}

VARIABLES
    pc,        \* where each call is
    sidecar,   \* the inode at the .lock path
    fd,        \* the sidecar inode each call has open
    held,      \* the calls whose descriptor the kernel granted the flock
    draft,     \* what each call holds in memory
    file,      \* each call's temporary file: its data, and how far it got
    store,     \* the file now at the store's path
    entry,     \* the file the store's directory entry names on the disk
    opened,    \* the file each reader has open
    hardened,  \* history: calls whose directory sync succeeded
    undone     \* history: calls whose rename a power cut undid

vars == <<pc, sidecar, fd, held, draft, file, store, entry, opened, hardened, undone>>

lockVars == <<sidecar, fd, held>>
diskVars == <<file, store, entry, opened, hardened, undone>>

Final == {"saved", "raised", "failed", "died"}
Open == {"opened", "locked", "loaded", "edited", "temped", "written", "synced",
         "renamed", "unlocking"}
Locked == Open \ {"opened"}
(* Mutant: a failed directory sync is raised. *)
FailableOnceRenamed ==
    {"idle", "opened", "locked", "edited", "temped", "written", "synced", "renamed"}

Failable == {"idle", "opened", "locked", "edited", "temped", "written", "synced"}

(* How far a file's data blocks got: not all written, in the page cache,   *)
(* or on the disk.                                                         *)
Progress == {"torn", "cached", "flushed"}
Files == [data : SUBSET Calls, blocks : Progress]
Empty == [data |-> {}, blocks |-> "torn"]

(* A file that is not there is the empty store. *)
Data(f) == IF f = NoFile THEN {} ELSE file[f].data
Whole(f) == f \in Calls => file[f].blocks # "torn"

Init ==
    /\ pc = [c \in Calls |-> "idle"]
    /\ sidecar = NoInode
    /\ fd = [c \in Calls |-> NoInode]
    /\ held = {}
    /\ draft = [c \in Calls |-> {}]
    /\ file = [c \in Calls |-> Empty]
    /\ store = NoFile
    /\ entry = NoFile
    /\ opened = [r \in Readers |-> Closed]
    /\ hardened = {}
    /\ undone = {}

Goto(c, from, to) ==
    /\ pc[c] = from
    /\ pc' = [pc EXCEPT ![c] = to]

(* Mutant: the sidecar is unlinked as its descriptor is closed. *)
ReleaseUnlinks(c) ==
    /\ fd' = [fd EXCEPT ![c] = NoInode]
    /\ held' = held \ {c}
    /\ sidecar' = NoInode

(* os.close on the sidecar's descriptor; the kernel drops its flock and    *)
(* the file stays.                                                         *)
Release(c) ==
    /\ fd' = [fd EXCEPT ![c] = NoInode]
    /\ held' = held \ {c}
    /\ UNCHANGED sidecar

(* os.open(O_CREAT): the file at the lock path, or a new one. *)
OpenSidecar(c) ==
    /\ Goto(c, "idle", "opened")
    /\ \E i \in Inodes :
          /\ IF sidecar = NoInode THEN \A d \in Calls : fd[d] # i ELSE i = sidecar
          /\ sidecar' = i
          /\ fd' = [fd EXCEPT ![c] = i]
    /\ UNCHANGED <<held, draft>>
    /\ UNCHANGED diskVars

(* Mutant: the lock is shared. *)
LockShared(c) == fd[c] # NoInode

(* The lock is the inode's: descriptors of another file do not exclude.    *)
LockFree(c) == \A d \in held : fd[d] # fd[c]

Flock(c) ==
    /\ Goto(c, "opened", "locked")
    /\ LockFree(c)
    /\ held' = held \union {c}
    /\ UNCHANGED <<sidecar, fd, draft>>
    /\ UNCHANGED diskVars

(* load_state_file; a torn file does not parse and is left to Fail. *)
Load(c) ==
    /\ Goto(c, "locked", "loaded")
    /\ Whole(store)
    /\ draft' = [draft EXCEPT ![c] = Data(store)]
    /\ UNCHANGED lockVars
    /\ UNCHANGED diskVars

(* The caller's block changes what it was given, *)
Edit(c) ==
    /\ Goto(c, "loaded", "edited")
    /\ draft' = [draft EXCEPT ![c] = @ \union {c}]
    /\ UNCHANGED lockVars
    /\ UNCHANGED diskVars

(* or raises, which skips the save. *)
Raise(c) ==
    /\ Goto(c, "loaded", "raised")
    /\ Release(c)
    /\ UNCHANGED draft
    /\ UNCHANGED diskVars

SetFile(c, f) ==
    /\ file' = [file EXCEPT ![c] = f]
    /\ UNCHANGED <<draft, store, entry, opened, hardened, undone>>
    /\ UNCHANGED lockVars

(* tempfile.mkstemp *)
MakeTemp(c) ==
    /\ Goto(c, "edited", "temped")
    /\ SetFile(c, Empty)

(* handle.write and handle.flush *)
Write(c) ==
    /\ Goto(c, "temped", "written")
    /\ SetFile(c, [data |-> draft[c], blocks |-> "cached"])

(* Mutant: the temporary is renamed without an fsync. *)
FsyncForgotten(c) ==
    /\ Goto(c, "written", "synced")
    /\ SetFile(c, file[c])

(* os.fsync on the temporary *)
Fsync(c) ==
    /\ Goto(c, "written", "synced")
    /\ SetFile(c, [file[c] EXCEPT !.blocks = "flushed"])

(* temporary.replace(path): visible to every open from here on. *)
Rename(c) ==
    /\ Goto(c, "synced", "renamed")
    /\ store' = c
    /\ UNCHANGED <<draft, file, entry, opened, hardened, undone>>
    /\ UNCHANGED lockVars

(* Mutant: something else than the directory is synced. *)
SyncElsewhere(c) ==
    /\ Goto(c, "renamed", "unlocking")
    /\ hardened' = hardened \union {c}
    /\ UNCHANGED <<draft, file, store, entry, opened, undone>>
    /\ UNCHANGED lockVars

(* _sync_directory, best effort: a failure is suppressed. *)
SyncDirectory(c) ==
    /\ Goto(c, "renamed", "unlocking")
    /\ \/ entry' = store /\ hardened' = hardened \union {c}
       \/ UNCHANGED <<entry, hardened>>
    /\ UNCHANGED <<draft, file, store, opened, undone>>
    /\ UNCHANGED lockVars

(* The context managers exit and the call returns. *)
Close(c) ==
    /\ Goto(c, "unlocking", "saved")
    /\ Release(c)
    /\ UNCHANGED draft
    /\ UNCHANGED diskVars

(* The temporary, if there is one, is unlinked, unless that fails as well.  *)
UnlinkTemp(c) ==
    /\ file' \in {file, [file EXCEPT ![c] = Empty]}
    /\ UNCHANGED <<draft, store, entry, opened, hardened, undone>>

(* Mutant: the error path does not close the descriptor. *)
FailKeepsLock(c) ==
    /\ pc[c] \in Failable
    /\ pc' = [pc EXCEPT ![c] = "failed"]
    /\ UnlinkTemp(c)
    /\ UNCHANGED lockVars

(* An OSError, or a store that does not parse, becomes a StateFileError;   *)
(* the finally clauses unlink the temporary and close the descriptor.      *)
Fail(c) ==
    /\ pc[c] \in Failable
    /\ pc' = [pc EXCEPT ![c] = "failed"]
    /\ UnlinkTemp(c)
    /\ Release(c)

(* The process is killed and the kernel closes its descriptors. *)
Die(c) ==
    /\ pc[c] \in Open
    /\ pc' = [pc EXCEPT ![c] = "died"]
    /\ Release(c)
    /\ UNCHANGED draft
    /\ UNCHANGED diskVars

(* load_state_file without the lock: the open fixes which file is read,    *)
ReadOpen(r) ==
    /\ opened[r] = Closed
    /\ opened' = [opened EXCEPT ![r] = store]
    /\ UNCHANGED <<pc, draft, file, store, entry, hardened, undone>>
    /\ UNCHANGED lockVars

(* and the read can come after any number of renames. *)
ReadRest(r) ==
    /\ opened[r] # Closed
    /\ opened' = [opened EXCEPT ![r] = Closed]
    /\ UNCHANGED <<pc, draft, file, store, entry, hardened, undone>>
    /\ UNCHANGED lockVars

(* The kernel writes the directory back in its own time. *)
Writeback ==
    /\ entry' = store
    /\ UNCHANGED <<pc, draft, file, store, opened, hardened, undone>>
    /\ UNCHANGED lockVars

(* Everything running is gone, the store is the file its entry on the disk *)
(* names, blocks not on the disk are lost, and so may be the sidecar.      *)
PowerCut ==
    /\ pc' = [c \in Calls |-> IF pc[c] \in Open THEN "died" ELSE pc[c]]
    /\ sidecar' \in {sidecar, NoInode}
    /\ fd' = [c \in Calls |-> NoInode]
    /\ held' = {}
    /\ store' = entry
    /\ file' = [c \in Calls |->
                   IF file[c].blocks = "flushed" THEN file[c] ELSE Empty]
    /\ opened' = [r \in Readers |-> Closed]
    /\ undone' = undone \union (Data(store) \ Data(entry))
    /\ UNCHANGED <<draft, entry, hardened>>

(* What a call does by itself once it has been made. *)
Advance(c) ==
    \/ Flock(c) \/ Load(c) \/ Edit(c) \/ MakeTemp(c) \/ Write(c) \/ Fsync(c)
    \/ Rename(c) \/ SyncDirectory(c) \/ Close(c)

CallNext(c) ==
    OpenSidecar(c) \/ Advance(c) \/ Raise(c) \/ Fail(c) \/ Die(c)

Next ==
    \/ \E c \in Calls : CallNext(c)
    \/ \E r \in Readers : ReadOpen(r) \/ ReadRest(r)
    \/ Writeback
    \/ PowerCut

Spec == Init /\ [][Next]_vars

(* A call that was made keeps running: it is a live process or thread, and *)
(* flock blocks only while another holds the lock.                         *)
FairSpec == Spec /\ \A c \in Calls : WF_vars(Advance(c))

-----------------------------------------------------------------------------
TypeOK ==
    /\ pc \in [Calls -> {"idle"} \union Open \union Final]
    /\ sidecar \in Inodes \union {NoInode}
    /\ fd \in [Calls -> Inodes \union {NoInode}]
    /\ held \subseteq Calls
    /\ draft \in [Calls -> SUBSET Calls]
    /\ file \in [Calls -> Files]
    /\ store \in Calls \union {NoFile}
    /\ entry \in Calls \union {NoFile}
    /\ opened \in [Readers -> Calls \union {NoFile, Closed}]
    /\ hardened \subseteq Calls
    /\ undone \subseteq Calls

(* No two calls are between reading the store and replacing it: the lock   *)
(* is on a sidecar that is never unlinked, so all of them lock one inode,  *)
(* also when a power cut loses the sidecar.                                *)
MutualExclusion ==
    \A c, d \in Calls : pc[c] \in Locked /\ pc[d] \in Locked => c = d

(* A reader never sees a truncated file, whether it opens the store now,   *)
(* has it open across any number of replacements, or opens what a power    *)
(* cut leaves: the data is flushed before the rename can reach the disk.   *)
NeverTorn ==
    /\ Whole(store)
    /\ entry \in Calls => file[entry].blocks = "flushed"
    /\ \A r \in Readers : Whole(opened[r])

(* No update is lost to another writer: the edit of a call that returned   *)
(* is in the store, and only a power cut can have undone it.               *)
SavedStays ==
    \A c \in Calls : pc[c] = "saved" => c \in Data(store) \union undone

(* Once a directory sync succeeded, not even a power cut undoes its update *)
(* or any that this one found in the store: an update whose own sync       *)
(* failed, without anybody being told, is made good by the next that works.*)
HardenedStays ==
    \A c \in hardened :
        {c} \union file[c].data \subseteq Data(store) \intersect Data(entry)

(* A call that raised left nothing in the store, now or on the disk: its   *)
(* caller may report that nothing happened.                                *)
RaisedLeavesNothing ==
    \A c \in Calls :
        pc[c] \in {"raised", "failed"} => c \notin Data(store) \union Data(entry)

(* A call that opened the lock file gets the lock and returns, or fails:   *)
(* no other call keeps the lock once it has failed, returned or died.      *)
EveryCallReturns ==
    \A c \in Calls : pc[c] = "opened" ~> pc[c] \in Final

-----------------------------------------------------------------------------
(* Where AtomicStore has a call: the rename is its atomic update. *)
Seen(c) ==
    IF pc[c] \in {"renamed", "unlocking"} THEN "applied"
    ELSE IF pc[c] \in Open THEN "running"
    ELSE IF pc[c] \in {"raised", "failed"} THEN "rejected"
    ELSE pc[c]

Abstract == INSTANCE AtomicStore WITH
    contents <- Data(store),
    persisted <- Data(entry),
    state <- [c \in Calls |-> Seen(c)]

(* The system calls add up to one atomic update per call: AtomicStore.     *)
AtomicUpdates == Abstract!Spec
=============================================================================
