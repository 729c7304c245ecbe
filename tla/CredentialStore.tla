---------------------------- MODULE CredentialStore ----------------------------
(* credentialStore at the level of the system calls it makes: the writer lock, *)
(* Save through a temporary file, QuarantineRejected, and readers of the path. *)
(*                                                                             *)
(* A directory maps the path of auth.json to an inode; temporary files and     *)
(* quarantined files are inodes with other names.  A process may be killed     *)
(* between two calls; a power loss also undoes what was not synced: the        *)
(* content of an unsynced inode is torn, and the path names any inode it has   *)
(* named since the directory was last synced.  s.mu makes one operation at a   *)
(* time per process; the lock file makes one process.                          *)
EXTENDS FiniteSets

CONSTANTS
    Auths,          \* processes that open the store for writing
    Readers,        \* API requests that read the path
    Contents,       \* complete, valid snapshots
    Foreign,        \* a complete file that is not a valid snapshot
    Tokens, TokenOf, \* the access token of each snapshot
    Inodes, None    \* bound: inodes in use at one time; no inode, no process

Torn == "torn"
Missing == "missing"

ASSUME ContentAssumption ==
    /\ TokenOf \in [Contents -> Tokens]
    /\ Foreign \notin Contents /\ Torn \notin Contents /\ Missing \notin Contents
    /\ Foreign \notin {Torn, Missing}
    /\ None \notin Inodes /\ None \notin Auths

VARIABLES
    data, synced,   \* of each inode: its content, and whether it is on the platter
    path, durable,  \* what the path names, and may name after a power loss
    temps, aside,   \* inodes named by temporary files, and by quarantined files
    lock,           \* who holds the flock of the sidecar
    pc, op,         \* where each process is in an operation; the operation
    fd, got         \* each reader's open file and what it read

\* History.
VARIABLES
    view,           \* the content each process believes the path to name
    sure,           \* each process has been told that this content is durable
    opened          \* what the path named when a reader opened it

dirVars == <<data, synced, path, durable, temps, aside>>
procVars == <<lock, pc, op>>
readVars == <<fd, got, opened>>
histVars == <<view, sure>>
vars == <<dirVars, procVars, readVars, histVars>>

\* The content an inode would give a reader.
ContentOf(i) == IF i = None THEN Missing ELSE data[i]

Files == Contents \cup {Foreign, Torn}

\* An operation: Save(content) through temp, or QuarantineRejected(token).
Operation(kind, content, token) ==
    [kind |-> kind, content |-> content, token |-> token, temp |-> None]
NoOp == Operation("none", Missing, None)

Reg == INSTANCE SnapshotRegister
           WITH Snapshots <- Contents \cup {Foreign},
                value <- ContentOf(path),
                stable <- {ContentOf(i) : i \in durable}

InUse == {path} \cup durable \cup temps \cup aside \cup {fd[r] : r \in Readers}

Init ==
    /\ \E c \in Contents \cup {Foreign, Missing} :
         IF c = Missing
         THEN path = None /\ data = [i \in Inodes |-> Torn]
         ELSE \E i \in Inodes : path = i /\ data = [j \in Inodes |-> IF j = i THEN c ELSE Torn]
    /\ synced = [i \in Inodes |-> TRUE]
    /\ durable = {path} /\ temps = {} /\ aside = {}
    /\ lock = None
    /\ pc = [a \in Auths |-> "down"] /\ op = [a \in Auths |-> NoOp]
    /\ fd = [r \in Readers |-> None] /\ got = [r \in Readers |-> Missing]
    /\ opened = [r \in Readers |-> Missing]
    /\ view = [a \in Auths |-> Missing] /\ sure = [a \in Auths |-> FALSE]

Goto(a, where) == pc' = [pc EXCEPT ![a] = where]

\* (Mutation: what cannot be decoded is taken for a missing file.)
LoadAnything == TRUE

\* Load succeeds, or the file does not exist.
LoadOk == ContentOf(path) \in Contents \cup {Missing}

-------------------------------------------------------------------------------
(* openCredentialStore and Close *)

\* (Mutation: a shared lock.)
MayShare == TRUE

\* flock(LOCK_EX|LOCK_NB) on the sidecar: refused while another process has it.
MayLock == lock = None

TakeLock(a) ==
    /\ pc[a] = "down"
    /\ MayLock
    /\ lock' = a
    /\ Goto(a, "opening")
    /\ UNCHANGED <<dirVars, op, readVars, histVars>>

\* The store opens only on a snapshot it could read, or on none.
OpenLoad(a) ==
    /\ pc[a] = "opening"
    /\ LoadOk
    /\ Goto(a, "open")
    /\ view' = [view EXCEPT ![a] = ContentOf(path)]
    /\ sure' = [sure EXCEPT ![a] = FALSE]
    /\ UNCHANGED <<dirVars, lock, op, readVars>>

\* Close after a failed load, or at the end of Run: the lock goes.
Close(a) ==
    /\ pc[a] \in {"opening", "open"}
    /\ lock' = None
    /\ Goto(a, "down")
    /\ UNCHANGED <<dirVars, op, readVars, histVars>>

-------------------------------------------------------------------------------
(* Save *)

SaveBegin(a, c) ==
    /\ pc[a] = "open"
    /\ op' = [op EXCEPT ![a] = Operation("save", c, None)]
    /\ Goto(a, "recheck")
    /\ UNCHANGED <<dirVars, lock, readVars, histVars>>

\* A snapshot that cannot be read is never replaced.
Recheck(a) ==
    /\ pc[a] = "recheck"
    /\ LoadOk
    /\ Goto(a, "create")
    /\ UNCHANGED <<dirVars, lock, op, readVars, histVars>>

\* The temporary file is new and private.
CreateTemp(a) ==
    /\ pc[a] = "create"
    /\ \E i \in Inodes \ InUse :
        /\ temps' = temps \cup {i}
        /\ data' = [data EXCEPT ![i] = Torn]
        /\ synced' = [synced EXCEPT ![i] = FALSE]
        /\ op' = [op EXCEPT ![a].temp = i]
    /\ Goto(a, "write")
    /\ UNCHANGED <<path, durable, aside, lock, readVars, histVars>>

\* (Mutation: the temporary file is not synced.)
AfterWriteUnsynced == "rename"

\* Where Save goes after writing, and after syncing, the temporary file.
AfterWrite == "sync"
AfterSync == "rename"

\* (Mutation: an existing file is overwritten in place.)
WriteInPlace(a) ==
    /\ pc[a] = "write"
    /\ data' = [data EXCEPT ![IF path = None THEN op[a].temp ELSE path] = op[a].content]
    /\ Goto(a, AfterWrite)
    /\ UNCHANGED <<synced, path, durable, temps, aside, lock, op, readVars, histVars>>

WriteTemp(a) ==
    /\ pc[a] = "write"
    /\ data' = [data EXCEPT ![op[a].temp] = op[a].content]
    /\ Goto(a, AfterWrite)
    /\ UNCHANGED <<synced, path, durable, temps, aside, lock, op, readVars, histVars>>

SyncTemp(a) ==
    /\ pc[a] = "sync"
    /\ synced' = [synced EXCEPT ![op[a].temp] = TRUE]
    /\ Goto(a, AfterSync)
    /\ UNCHANGED <<data, path, durable, temps, aside, lock, op, readVars, histVars>>

\* rename(2) replaces the path in one step; the directory is not synced yet.
RenameTemp(a) ==
    /\ pc[a] = "rename"
    /\ path' = op[a].temp
    /\ durable' = durable \cup {op[a].temp}
    /\ temps' = temps \ {op[a].temp}
    /\ view' = [view EXCEPT ![a] = op[a].content]
    /\ sure' = [sure EXCEPT ![a] = FALSE]
    /\ Goto(a, "dirsync")
    /\ UNCHANGED <<data, synced, aside, lock, op, readVars>>

\* The store's operation ends; the temporary name, if it still exists, goes.
Done(a) ==
    /\ Goto(a, "open")
    /\ op' = [op EXCEPT ![a] = NoOp]

\* Load, creation, write, sync, close or rename failed: an error, and the deferred
\* os.Remove of the temporary file.  A failed write may leave any part of it.
SaveFails(a) ==
    /\ pc[a] \in {"recheck", "create", "write", "sync", "rename"}
    /\ temps' = temps \ {op[a].temp}
    /\ Done(a)
    /\ UNCHANGED <<data, synced, path, durable, aside, lock, readVars, histVars>>

\* fsync of the directory: what the path names now is what it will name.
DirSync(a) ==
    /\ pc[a] = "dirsync"
    /\ durable' = {path}
    /\ sure' = [sure EXCEPT ![a] = TRUE]
    /\ Done(a)
    /\ UNCHANGED <<data, synced, path, temps, aside, lock, readVars, view>>

\* (Mutation: the error is swallowed.)
DirSyncErrorDropped(a) ==
    /\ pc[a] = "dirsync"
    /\ sure' = [sure EXCEPT ![a] = TRUE]
    /\ Done(a)
    /\ UNCHANGED <<dirVars, lock, readVars, view>>

\* It cannot be opened or synced: an error, although the path has changed.
DirSyncFails(a) ==
    /\ pc[a] = "dirsync"
    /\ Done(a)
    /\ UNCHANGED <<dirVars, lock, readVars, histVars>>

-------------------------------------------------------------------------------
(* QuarantineRejected *)

QuarantineBegin(a, token) ==
    /\ pc[a] = "open"
    /\ op' = [op EXCEPT ![a] = Operation("quarantine", Missing, token)]
    /\ Goto(a, "check")
    /\ UNCHANGED <<dirVars, lock, readVars, histVars>>

\* Only a readable snapshot that carries the rejected token is to be moved.
Compare(a) ==
    /\ pc[a] = "check"
    /\ ContentOf(path) \in Contents
    /\ TokenOf[ContentOf(path)] = op[a].token
    /\ Goto(a, "move")
    /\ UNCHANGED <<dirVars, lock, op, readVars, histVars>>

\* rename(2) moves whatever the path names by now.
MoveAside(a) ==
    /\ pc[a] = "move" /\ path # None
    /\ path' = None
    /\ durable' = durable \cup {None}
    /\ aside' = aside \cup {path}
    /\ view' = [view EXCEPT ![a] = Missing]
    /\ sure' = [sure EXCEPT ![a] = FALSE]
    /\ Goto(a, "dirsync")
    /\ UNCHANGED <<data, synced, temps, lock, op, readVars>>

\* The snapshot is another one, or an earlier call failed.
QuarantineFails(a) ==
    /\ pc[a] \in {"check", "move"}
    /\ Done(a)
    /\ UNCHANGED <<dirVars, lock, readVars, histVars>>

-------------------------------------------------------------------------------
(* readCredentialFile in another process: open, then read what was opened *)

OpenRead(r) ==
    /\ fd[r] = None /\ path # None
    /\ fd' = [fd EXCEPT ![r] = path]
    /\ opened' = [opened EXCEPT ![r] = ContentOf(path)]
    /\ UNCHANGED <<dirVars, procVars, got, histVars>>

Read(r) ==
    /\ fd[r] # None
    /\ got' = [got EXCEPT ![r] = ContentOf(fd[r])]
    /\ fd' = [fd EXCEPT ![r] = None]
    /\ UNCHANGED <<dirVars, procVars, opened, histVars>>

-------------------------------------------------------------------------------
(* Crashes *)

\* A killed process leaves its temporary file; the kernel drops its lock.
Kill(a) ==
    /\ pc[a] # "down"
    /\ Goto(a, "down")
    /\ op' = [op EXCEPT ![a] = NoOp]
    /\ lock' = None
    /\ UNCHANGED <<dirVars, readVars, histVars>>

\* Everything stops; unsynced contents are torn, the directory is one of those
\* it has been since its last sync.  Temporary names may or may not survive.
PowerLoss ==
    /\ path' \in durable
    /\ durable' = {path'}
    /\ data' = [i \in Inodes |-> IF synced[i] THEN data[i] ELSE Torn]
    /\ synced' = [i \in Inodes |-> TRUE]
    /\ temps' \in {{}, temps}
    /\ aside' = aside \ {path'}
    /\ lock' = None
    /\ pc' = [a \in Auths |-> "down"] /\ op' = [a \in Auths |-> NoOp]
    /\ fd' = [r \in Readers |-> None] /\ got' = [r \in Readers |-> Missing]
    /\ opened' = [r \in Readers |-> Missing]
    /\ UNCHANGED histVars

Step(a) ==
    \/ TakeLock(a) \/ OpenLoad(a) \/ Close(a)
    \/ \E c \in Contents : SaveBegin(a, c)
    \/ Recheck(a) \/ CreateTemp(a) \/ WriteTemp(a) \/ SyncTemp(a) \/ RenameTemp(a)
    \/ SaveFails(a) \/ DirSync(a) \/ DirSyncFails(a)
    \/ \E token \in Tokens : QuarantineBegin(a, token)
    \/ Compare(a) \/ MoveAside(a) \/ QuarantineFails(a)
    \/ Kill(a)

Next ==
    \/ \E a \in Auths : Step(a)
    \/ \E r \in Readers : OpenRead(r) \/ Read(r)
    \/ PowerLoss

Spec == Init /\ [][Next]_vars

-------------------------------------------------------------------------------
(* Properties *)

TypeOK ==
    /\ data \in [Inodes -> Files] /\ synced \in [Inodes -> BOOLEAN]
    /\ path \in Inodes \cup {None} /\ durable \subseteq Inodes \cup {None}
    /\ path \in durable
    /\ temps \subseteq Inodes /\ aside \subseteq Inodes
    /\ lock \in Auths \cup {None}
    /\ pc \in [Auths -> {"down", "opening", "open", "recheck", "create", "write", "sync",
                         "rename", "dirsync", "check", "move"}]
    /\ op \in [Auths -> [kind : {"none", "save", "quarantine"},
                         content : Contents \cup {Missing},
                         token : Tokens \cup {None}, temp : Inodes \cup {None}]]
    /\ fd \in [Readers -> Inodes \cup {None}]
    /\ got \in [Readers -> Files \cup {Missing}]
    /\ opened \in [Readers -> Files \cup {Missing}]
    /\ view \in [Auths -> Files \cup {Missing}] /\ sure \in [Auths -> BOOLEAN]

\* Neither a reader nor a restart after a power loss ever meets a torn snapshot:
\* Save syncs the temporary file before it renames it.
NeverTorn == \A i \in durable : ContentOf(i) # Torn

\* While a process has the store open, the path names what that process last wrote
\* there (what it loaded, before it wrote): a failed Save or quarantine has changed
\* nothing, and no other writer has come between.
WriterOwnsPath ==
    \A a \in Auths : pc[a] \notin {"down", "opening"} =>
        /\ lock = a
        /\ ContentOf(path) = view[a]

\* A Save or quarantine that answered without error is what a power loss leaves.
ConfirmedIsDurable ==
    \A a \in Auths : pc[a] \notin {"down", "opening"} /\ sure[a] =>
        {ContentOf(i) : i \in durable} = {view[a]}

\* A reader gets the snapshot that the path named when it opened it, however often
\* the file has been replaced or quarantined before it reads.
ReaderGetsWhatItOpened ==
    \A r \in Readers :
        /\ fd[r] # None => ContentOf(fd[r]) = opened[r]
        /\ fd[r] = None => got[r] \in {opened[r], Missing}

\* A file that is not a valid snapshot stays where the user put it.
ForeignKept == [][ContentOf(path) = Foreign => path' = path]_vars

\* Quarantine looks at the file and then moves whatever has its name: no other process
\* and no Save may put another snapshot there in between.  What it moves is the
\* snapshot with the rejected token, and that file is kept.
QuarantineMovesRejected ==
    [][\A a \in Auths : pc[a] = "move" /\ pc'[a] = "dirsync" =>
           /\ path \in aside'
           /\ ContentOf(path) \in Contents
           /\ TokenOf[ContentOf(path)] = op[a].token]_vars

\* What Save and QuarantineRejected do to the path, with every crash between any
\* two of their system calls, is what SnapshotRegister allows.
ImplementsRegister == Reg!Spec
================================================================================
