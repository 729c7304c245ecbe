------------------------- MODULE CredentialStoreProofs -------------------------
(* Theorems about CredentialStore, for any number of processes, readers and    *)
(* inodes.                                                                     *)
(*                                                                             *)
(* The properties speak of what the path names; the argument is about inodes:  *)
(* the one a Save works on is named by a temporary file only (NamesInv), has   *)
(* its content before it is synced and is synced before it is renamed (OpInv), *)
(* and nobody else is at work at the same time (LockInv).                      *)
EXTENDS CredentialStore, TLAPS

Positions == {"down", "opening", "open", "recheck", "create", "write", "sync", "rename",
              "dirsync", "check", "move"}
OpType == [kind : {"none", "save", "quarantine"}, content : Contents \cup {Missing},
           token : Tokens \cup {None}, temp : Inodes \cup {None}]

DirType ==
    /\ data \in [Inodes -> Files] /\ synced \in [Inodes -> BOOLEAN]
    /\ path \in Inodes \cup {None} /\ durable \subseteq Inodes \cup {None} /\ path \in durable
    /\ temps \subseteq Inodes /\ aside \subseteq Inodes
ProcType ==
    /\ lock \in Auths \cup {None}
    /\ pc \in [Auths -> Positions] /\ op \in [Auths -> OpType]
    /\ view \in [Auths -> Files \cup {Missing}] /\ sure \in [Auths -> BOOLEAN]
ReadType ==
    /\ fd \in [Readers -> Inodes \cup {None}]
    /\ got \in [Readers -> Files \cup {Missing}]
    /\ opened \in [Readers -> Files \cup {Missing}]

LockInv == \A a \in Auths : pc[a] # "down" => lock = a

NamesInv ==
    /\ \A i \in durable : i # None => synced[i] /\ data[i] # Torn
    /\ temps \cap durable = {}
    /\ \A r \in Readers : fd[r] \notin temps
    /\ \A i \in durable : ContentOf(i) = Foreign => durable = {path}

OpInv ==
    \A a \in Auths :
        /\ pc[a] \in {"recheck", "create", "write", "sync", "rename"} => op[a].content \in Contents
        /\ pc[a] \in {"write", "sync", "rename"} => op[a].temp \in temps
        /\ pc[a] \in {"sync", "rename"} => data[op[a].temp] = op[a].content
        /\ pc[a] = "rename" => synced[op[a].temp]

ViewInv ==
    \A a \in Auths : pc[a] \notin {"down", "opening"} =>
        /\ ContentOf(path) = view[a] /\ view[a] # Foreign
        /\ sure[a] => \A i \in durable : ContentOf(i) = view[a]
        /\ pc[a] = "move" => view[a] \in Contents /\ TokenOf[view[a]] = op[a].token

ReadInv ==
    \A r \in Readers :
        /\ fd[r] # None => ContentOf(fd[r]) = opened[r]
        /\ fd[r] = None => got[r] \in {opened[r], Missing}

IInv ==
    /\ DirType /\ ProcType /\ ReadType
    /\ LockInv /\ NamesInv /\ OpInv /\ ViewInv /\ ReadInv

LEMMA InitInv == Init => IInv
<1> SUFFICES ASSUME Init PROVE IInv
  OBVIOUS
<1>1. NoOp \in OpType
  BY DEF NoOp, Operation, OpType
<1>2. ProcType /\ ReadType
  BY <1>1 DEF Init, ProcType, ReadType, Positions
<1>3. PICK c \in Contents \cup {Foreign, Missing} :
        IF c = Missing
        THEN path = None /\ data = [i \in Inodes |-> Torn]
        ELSE \E i \in Inodes : path = i /\ data = [j \in Inodes |-> IF j = i THEN c ELSE Torn]
  BY DEF Init
<1>4. /\ path \in Inodes \cup {None} /\ data \in [Inodes -> Files]
      /\ path # None => data[path] # Torn
  BY <1>3, ContentAssumption DEF Files
<1>5. durable = {path} /\ temps = {} /\ aside = {} /\ synced = [i \in Inodes |-> TRUE]
  BY DEF Init
<1>6. DirType /\ NamesInv
  BY <1>4, <1>5 DEF DirType, NamesInv
<1>7. LockInv /\ OpInv /\ ViewInv /\ ReadInv
  BY DEF Init, LockInv, OpInv, ViewInv, ReadInv
<1> QED
  BY <1>2, <1>6, <1>7 DEF IInv

-------------------------------------------------------------------------------
(* One process at a time *)

\* A process that is not down is the only one.
LEMMA Alone ==
    ASSUME IInv, NEW a \in Auths, pc[a] # "down"
    PROVE  lock = a /\ \A b \in Auths \ {a} : pc[b] = "down"
BY DEF IInv, LockInv

\* A step of the only process keeps what holds of processes if it does so for this one.
LEMMA OneProcess ==
    ASSUME IInv, NEW a \in Auths, \A b \in Auths \ {a} : pc[b] = "down",
           NEW to \in Positions, Goto(a, to), to # "down" => lock' = a, lock' \in Auths \cup {None},
           op' \in [Auths -> OpType], view' \in [Auths -> Files \cup {Missing}],
           sure' \in [Auths -> BOOLEAN],
           to \in {"recheck", "create", "write", "sync", "rename"} => op'[a].content \in Contents,
           to = "move" => view'[a] \in Contents /\ TokenOf[view'[a]] = op'[a].token,
           to \in {"write", "sync", "rename"} => op'[a].temp \in temps',
           to \in {"sync", "rename"} => data'[op'[a].temp] = op'[a].content,
           to = "rename" => synced'[op'[a].temp],
           to \notin {"down", "opening"} =>
               /\ ContentOf(path)' = view'[a] /\ view'[a] # Foreign
               /\ sure'[a] => \A i \in durable' : ContentOf(i)' = view'[a]
    PROVE  ProcType' /\ LockInv' /\ OpInv' /\ ViewInv'
<1>1. pc' \in [Auths -> Positions] /\ pc'[a] = to /\ \A b \in Auths \ {a} : pc'[b] = "down"
  BY DEF Goto, IInv, ProcType
<1>2. ProcType'
  BY <1>1 DEF ProcType
<1>3. LockInv'
  BY <1>1 DEF LockInv
<1>4. OpInv'
  BY <1>1 DEF OpInv
<1>5. ViewInv'
  BY <1>1 DEF ViewInv
<1> QED
  BY <1>2, <1>3, <1>4, <1>5

\* A step that leaves the directory and the readers alone.
LEMMA SameFiles ==
    ASSUME IInv, UNCHANGED <<dirVars, readVars>>
    PROVE  /\ DirType' /\ ReadType' /\ NamesInv' /\ ReadInv'
           /\ ContentOf(path)' = ContentOf(path) /\ durable' = durable
           /\ \A i : ContentOf(i)' = ContentOf(i)
<1>1. UNCHANGED <<data, synced, path, durable, temps, aside, fd, got, opened>>
  BY DEF dirVars, readVars
<1>2. DirType' /\ ReadType'
  BY <1>1 DEF IInv, DirType, ReadType
<1>3. NamesInv' /\ ReadInv'
  BY <1>1 DEF IInv, NamesInv, ReadInv, ContentOf
<1> QED
  BY <1>1, <1>2, <1>3 DEF ContentOf

-------------------------------------------------------------------------------
(* Steps that leave the directory alone *)

LEMMA OpenInv ==
    ASSUME IInv, NEW a \in Auths, TakeLock(a) \/ OpenLoad(a)
    PROVE  IInv'
<1>1. /\ UNCHANGED <<dirVars, readVars>> /\ op' = op
      /\ op \in [Auths -> OpType] /\ view \in [Auths -> Files \cup {Missing}]
      /\ sure \in [Auths -> BOOLEAN]
  BY DEF TakeLock, OpenLoad, IInv, ProcType
<1>2. /\ DirType' /\ ReadType' /\ NamesInv' /\ ReadInv'
      /\ ContentOf(path)' = ContentOf(path) /\ durable' = durable
  BY <1>1, SameFiles
<1>3. CASE TakeLock(a)
  <2>1. \A b \in Auths : pc[b] = "down"
    BY <1>3, ContentAssumption DEF IInv, LockInv, TakeLock, MayLock
  <2>2. ProcType' /\ LockInv' /\ OpInv' /\ ViewInv'
    BY <1>1, <1>3, <2>1, OneProcess DEF TakeLock, Positions, histVars
  <2> QED
    BY <1>2, <2>2 DEF IInv
<1>4. CASE OpenLoad(a)
  <2>1. lock = a /\ \A b \in Auths \ {a} : pc[b] = "down"
    BY <1>4, Alone DEF OpenLoad
  <2>2. ContentOf(path) \in Contents \cup {Missing} /\ ContentOf(path) # Foreign
        /\ ContentOf(path) \in Files \cup {Missing}
    BY <1>4, ContentAssumption DEF OpenLoad, LoadOk, Files
  <2>3. /\ view' \in [Auths -> Files \cup {Missing}] /\ sure' \in [Auths -> BOOLEAN]
        /\ view'[a] = ContentOf(path) /\ ~sure'[a]
    BY <1>1, <1>4, <2>2 DEF OpenLoad
  <2>4. ProcType' /\ LockInv' /\ OpInv' /\ ViewInv'
    BY <1>1, <1>2, <1>4, <2>1, <2>2, <2>3, OneProcess DEF OpenLoad, Positions
  <2> QED
    BY <1>2, <2>4 DEF IInv
<1> QED
  BY <1>3, <1>4

LEMMA DownInv ==
    ASSUME IInv, NEW a \in Auths, Close(a) \/ Kill(a)
    PROVE  IInv'
<1>1. /\ UNCHANGED <<dirVars, readVars, view, sure>> /\ pc[a] # "down"
      /\ lock' = None /\ Goto(a, "down")
  BY DEF Close, Kill, histVars
<1>2. DirType' /\ ReadType' /\ NamesInv' /\ ReadInv'
  BY <1>1, SameFiles
<1>3. NoOp \in OpType
  BY DEF NoOp, Operation, OpType
<1>4. op' \in [Auths -> OpType]
  BY <1>3 DEF Close, Kill, IInv, ProcType
<1>5. \A b \in Auths \ {a} : pc[b] = "down"
  BY <1>1, Alone
<1>6. ProcType' /\ LockInv' /\ OpInv' /\ ViewInv'
  BY <1>1, <1>4, <1>5, OneProcess DEF Positions, IInv, ProcType
<1> QED
  BY <1>2, <1>6 DEF IInv

\* An operation begins, or ends without having changed the directory in this step.
LEMMA BetweenInv ==
    ASSUME IInv, NEW a \in Auths, pc[a] \notin {"down", "opening"},
           UNCHANGED <<dirVars, lock, readVars, histVars>>,
           NEW to \in {"open", "recheck", "create", "check", "move"}, Goto(a, to),
           op' \in [Auths -> OpType],
           to \in {"recheck", "create"} => op'[a].content \in Contents,
           to = "move" => ContentOf(path) \in Contents /\ TokenOf[ContentOf(path)] = op'[a].token
    PROVE  IInv'
<1>1. /\ DirType' /\ ReadType' /\ NamesInv' /\ ReadInv'
      /\ ContentOf(path)' = ContentOf(path) /\ durable' = durable
      /\ \A i : ContentOf(i)' = ContentOf(i)
  BY SameFiles
<1>2. lock = a /\ lock' = a /\ \A b \in Auths \ {a} : pc[b] = "down"
  BY Alone
<1>3. view' = view /\ sure' = sure
  BY DEF histVars
<1>4. /\ ContentOf(path) = view[a] /\ view[a] # Foreign
      /\ sure[a] => \A i \in durable : ContentOf(i) = view[a]
  BY DEF IInv, ViewInv
<1>5. ProcType' /\ LockInv' /\ OpInv' /\ ViewInv'
  BY <1>1, <1>2, <1>3, <1>4, OneProcess DEF Positions, IInv, ProcType
<1> QED
  BY <1>1, <1>5 DEF IInv

LEMMA OperationInv ==
    ASSUME IInv, NEW a \in Auths,
           \/ \E c \in Contents : SaveBegin(a, c)
           \/ \E token \in Tokens : QuarantineBegin(a, token)
           \/ Recheck(a) \/ Compare(a) \/ DirSyncFails(a) \/ QuarantineFails(a)
    PROVE  IInv'
<1>1. op \in [Auths -> OpType] /\ NoOp \in OpType
  BY DEF IInv, ProcType, NoOp, Operation, OpType
<1>2. ASSUME NEW c \in Contents, SaveBegin(a, c)
      PROVE  IInv'
  <2>1. Operation("save", c, None) \in OpType /\ Operation("save", c, None).content = c
    BY DEF Operation, OpType
  <2>2. op' \in [Auths -> OpType] /\ op'[a].content \in Contents
    BY <1>1, <1>2, <2>1 DEF SaveBegin
  <2>3. /\ UNCHANGED <<dirVars, lock, readVars, histVars>> /\ Goto(a, "recheck")
        /\ pc[a] \notin {"down", "opening"}
    BY <1>2 DEF SaveBegin
  <2> QED
    BY <2>2, <2>3, BetweenInv
<1>3. ASSUME NEW token \in Tokens, QuarantineBegin(a, token)
      PROVE  IInv'
  <2>1. Operation("quarantine", Missing, token) \in OpType
    BY DEF Operation, OpType
  <2>2. op' \in [Auths -> OpType]
    BY <1>1, <1>3, <2>1 DEF QuarantineBegin
  <2>3. /\ UNCHANGED <<dirVars, lock, readVars, histVars>> /\ Goto(a, "check")
        /\ pc[a] \notin {"down", "opening"}
    BY <1>3 DEF QuarantineBegin
  <2> QED
    BY <2>2, <2>3, BetweenInv
<1>4. CASE DirSyncFails(a) \/ QuarantineFails(a)
  <2>1. op' \in [Auths -> OpType]
    BY <1>1, <1>4 DEF DirSyncFails, QuarantineFails, Done
  <2> QED
    BY <1>4, <2>1, BetweenInv DEF DirSyncFails, QuarantineFails, Done
<1>5. CASE Recheck(a)
  <2>1. op' = op /\ pc[a] = "recheck" /\ Goto(a, "create")
        /\ UNCHANGED <<dirVars, lock, readVars, histVars>>
    BY <1>5 DEF Recheck
  <2>2. op[a].content \in Contents
    BY <2>1 DEF IInv, OpInv
  <2> QED
    BY <1>1, <2>1, <2>2, BetweenInv
<1>6. CASE Compare(a)
  <2>1. /\ op' = op /\ pc[a] = "check" /\ Goto(a, "move")
        /\ UNCHANGED <<dirVars, lock, readVars, histVars>>
        /\ ContentOf(path) \in Contents /\ TokenOf[ContentOf(path)] = op[a].token
    BY <1>6 DEF Compare
  <2> QED
    BY <1>1, <2>1, BetweenInv
<1> QED
  BY <1>2, <1>3, <1>4, <1>5, <1>6

-------------------------------------------------------------------------------
(* Save, up to the rename *)

\* The step changes only inodes in I, which neither the path nor a reader knows.
Changes(I) ==
    /\ \A i \in I : i \notin durable /\ \A r \in Readers : fd[r] # i
    /\ \A j \in Inodes \ I : data'[j] = data[j] /\ synced'[j] = synced[j]
    /\ temps' \subseteq temps \cup I

LEMMA SaveStep ==
    ASSUME IInv, NEW a \in Auths, pc[a] \notin {"down", "opening"},
           UNCHANGED <<path, durable, aside, lock, readVars, histVars>>,
           NEW I, Changes(I), temps' \subseteq Inodes,
           data' \in [Inodes -> Files], synced' \in [Inodes -> BOOLEAN],
           NEW to \in {"open", "create", "write", "sync", "rename"}, Goto(a, to),
           op' \in [Auths -> OpType],
           to # "open" => op'[a].content \in Contents,
           to \in {"write", "sync", "rename"} => op'[a].temp \in temps',
           to \in {"sync", "rename"} => data'[op'[a].temp] = op'[a].content,
           to = "rename" => synced'[op'[a].temp]
    PROVE  IInv'
<1>1. UNCHANGED <<path, durable, aside, lock, fd, got, opened, view, sure>>
  BY DEF readVars, histVars
<1>2. DirType /\ ReadType /\ NamesInv /\ ReadInv
  BY DEF IInv
<1>3. \A j \in durable : ContentOf(j)' = ContentOf(j)
  BY <1>2 DEF Changes, ContentOf, DirType
<1>4. \A r \in Readers : ContentOf(fd[r])' = ContentOf(fd[r])
  BY <1>1, <1>2 DEF Changes, ContentOf, ReadType
<1>5. ContentOf(path)' = ContentOf(path)
  BY <1>1, <1>2, <1>3 DEF DirType, ContentOf
<1>6. DirType' /\ ReadType'
  BY <1>1, <1>2 DEF DirType, ReadType
<1>7. NamesInv'
  <2>1. \A j \in durable' : j # None => synced'[j] /\ data'[j] # Torn
    BY <1>1, <1>2 DEF Changes, NamesInv, DirType
  <2>2. \A j \in temps' : j \in temps \/ j \in I
    BY DEF Changes
  <2>3. temps' \cap durable' = {} /\ \A r \in Readers : fd'[r] \notin temps'
    BY <1>1, <1>2, <2>2 DEF Changes, NamesInv
  <2>4. \A j \in durable' : ContentOf(j)' = Foreign => durable' = {path'}
    BY <1>1, <1>2, <1>3 DEF NamesInv
  <2> QED
    BY <2>1, <2>2, <2>3, <2>4 DEF NamesInv
<1>8. ReadInv'
  BY <1>1, <1>2, <1>4 DEF ReadInv
<1>9. lock = a /\ \A b \in Auths \ {a} : pc[b] = "down"
  BY Alone
<1>10. /\ ContentOf(path) = view[a] /\ view[a] # Foreign
       /\ sure[a] => \A j \in durable : ContentOf(j) = view[a]
  BY DEF IInv, ViewInv
<1>11. ProcType' /\ LockInv' /\ OpInv' /\ ViewInv'
  <2>1. lock' = a /\ lock' \in Auths \cup {None}
    BY <1>1, <1>9
  <2>2. /\ view' \in [Auths -> Files \cup {Missing}] /\ sure' \in [Auths -> BOOLEAN]
        /\ ContentOf(path)' = view'[a] /\ view'[a] # Foreign
        /\ sure'[a] => \A j \in durable' : ContentOf(j)' = view'[a]
    BY <1>1, <1>3, <1>5, <1>10 DEF IInv, ProcType
  <2> QED
    BY <1>9, <2>1, <2>2, OneProcess DEF Positions
<1> QED
  BY <1>6, <1>7, <1>8, <1>11 DEF IInv

LEMMA CreateInv ==
    ASSUME IInv, NEW a \in Auths, CreateTemp(a)
    PROVE  IInv'
<1>1. PICK i \in Inodes \ InUse :
        /\ temps' = temps \cup {i}
        /\ data' = [data EXCEPT ![i] = Torn]
        /\ synced' = [synced EXCEPT ![i] = FALSE]
        /\ op' = [op EXCEPT ![a].temp = i]
  BY DEF CreateTemp
<1>2. Changes({i})
  BY <1>1 DEF InUse, Changes, IInv, DirType
<1>3. op \in [Auths -> OpType] /\ op[a].content \in Contents
  BY DEF IInv, ProcType, OpInv, CreateTemp
<1>4. op[a] \in OpType
  BY <1>3
<1> DEFINE o == [op[a] EXCEPT !.temp = i]
<1>5. o \in OpType /\ o.content = op[a].content /\ o.temp = i
  BY <1>4 DEF OpType
<1>6. op' = [op EXCEPT ![a] = o]
  BY <1>1
<1> HIDE DEF o
<1>7. op' \in [Auths -> OpType] /\ op'[a].content \in Contents /\ op'[a].temp = i
  BY <1>3, <1>5, <1>6
<1>8. /\ data' \in [Inodes -> Files] /\ synced' \in [Inodes -> BOOLEAN]
      /\ temps' \subseteq Inodes /\ i \in temps'
  BY <1>1 DEF IInv, DirType, Files
<1>9. /\ UNCHANGED <<path, durable, aside, lock, readVars, histVars>> /\ Goto(a, "write")
      /\ pc[a] \notin {"down", "opening"}
  BY DEF CreateTemp
<1> QED
  BY <1>2, <1>7, <1>8, <1>9, SaveStep

LEMMA TempInv ==
    ASSUME IInv, NEW a \in Auths, WriteTemp(a) \/ SyncTemp(a)
    PROVE  IInv'
<1> DEFINE i == op[a].temp
<1>1. /\ op' = op /\ temps' = temps /\ UNCHANGED <<path, durable, aside, lock, readVars, histVars>>
      /\ pc[a] \in {"write", "sync"}
  BY DEF WriteTemp, SyncTemp
<1>2. op \in [Auths -> OpType] /\ op[a].content \in Contents /\ i \in temps
  BY <1>1 DEF IInv, ProcType, OpInv
<1>3. /\ i \in Inodes /\ i \notin durable /\ (\A r \in Readers : fd[r] # i)
      /\ temps \subseteq Inodes
      /\ data \in [Inodes -> Files] /\ synced \in [Inodes -> BOOLEAN]
  BY <1>2 DEF IInv, DirType, NamesInv
<1> HIDE DEF i
<1>4. CASE WriteTemp(a)
  <2>1. data' = [data EXCEPT ![i] = op[a].content] /\ synced' = synced /\ Goto(a, "sync")
    BY <1>4 DEF WriteTemp, AfterWrite, i
  <2>2. data' \in [Inodes -> Files] /\ data'[i] = op[a].content /\ Changes({i})
    BY <1>1, <1>2, <1>3, <2>1 DEF Files, Changes
  <2>3. data'[op'[a].temp] = op'[a].content /\ op'[a].temp \in temps' /\ op'[a].content \in Contents
    BY <1>1, <1>2, <2>2 DEF i
  <2> QED
    BY <1>1, <1>2, <1>3, <2>1, <2>2, <2>3, SaveStep
<1>5. CASE SyncTemp(a)
  <2>1. synced' = [synced EXCEPT ![i] = TRUE] /\ data' = data /\ Goto(a, "rename") /\ pc[a] = "sync"
    BY <1>5 DEF SyncTemp, AfterSync, i
  <2>2. synced' \in [Inodes -> BOOLEAN] /\ synced'[i] /\ Changes({i})
    BY <1>1, <1>3, <2>1 DEF Changes
  <2>3. data[op[a].temp] = op[a].content
    BY <2>1 DEF IInv, OpInv
  <2>4. data'[op'[a].temp] = op'[a].content /\ op'[a].temp \in temps' /\ op'[a].content \in Contents
        /\ synced'[op'[a].temp]
    BY <1>1, <1>2, <2>1, <2>2, <2>3 DEF i
  <2> QED
    BY <1>1, <1>2, <1>3, <2>1, <2>2, <2>4, SaveStep
<1> QED
  BY <1>4, <1>5

LEMMA FailsInv ==
    ASSUME IInv, NEW a \in Auths, SaveFails(a)
    PROVE  IInv'
<1>1. /\ temps' = temps \ {op[a].temp} /\ op' = [op EXCEPT ![a] = NoOp] /\ Goto(a, "open")
      /\ UNCHANGED <<data, synced, path, durable, aside, lock, readVars, histVars>>
      /\ pc[a] \notin {"down", "opening"}
  BY DEF SaveFails, Done
<1>2. NoOp \in OpType
  BY DEF NoOp, Operation, OpType
<1>3. op' \in [Auths -> OpType]
  BY <1>1, <1>2 DEF IInv, ProcType
<1>4. data' \in [Inodes -> Files] /\ synced' \in [Inodes -> BOOLEAN] /\ temps' \subseteq Inodes
      /\ Changes({})
  BY <1>1 DEF IInv, DirType, Changes
<1> QED
  BY <1>1, <1>3, <1>4, SaveStep

-------------------------------------------------------------------------------
(* Steps that change what the path names *)

\* While an operation is in progress, the path does not name a foreign file.
LEMMA NoForeign ==
    ASSUME IInv, NEW a \in Auths, pc[a] \notin {"down", "opening"}
    PROVE  \A i \in durable : ContentOf(i) # Foreign
<1>1. ContentOf(path) # Foreign
  BY DEF IInv, ViewInv
<1>2. ASSUME NEW i \in durable, ContentOf(i) = Foreign
      PROVE  FALSE
  <2>1. durable = {path}
    BY <1>2 DEF IInv, NamesInv
  <2> QED
    BY <1>1, <1>2, <2>1
<1> QED
  BY <1>2

LEMMA RenameInv ==
    ASSUME IInv, NEW a \in Auths, RenameTemp(a)
    PROVE  IInv'
<1> DEFINE i == op[a].temp
           c == op[a].content
<1>1. /\ path' = i /\ durable' = durable \cup {i} /\ temps' = temps \ {i}
      /\ view' = [view EXCEPT ![a] = c] /\ sure' = [sure EXCEPT ![a] = FALSE]
      /\ Goto(a, "dirsync") /\ UNCHANGED <<data, synced, aside, lock, op, fd, got, opened>>
      /\ pc[a] = "rename"
  BY DEF RenameTemp, readVars
<1>2. i \in temps /\ data[i] = c /\ synced[i] /\ c \in Contents
  BY <1>1 DEF IInv, OpInv
<1> HIDE DEF i, c
<1>3. DirType /\ ProcType /\ ReadType /\ NamesInv /\ ReadInv
  BY DEF IInv
<1>4. i \in Inodes /\ i # None /\ c \in Files /\ c # Torn /\ c # Foreign
  BY <1>2, <1>3, ContentAssumption DEF DirType, Files
<1>5. DirType' /\ ReadType'
  BY <1>1, <1>3, <1>4 DEF DirType, ReadType
<1>6. \A j : ContentOf(j)' = ContentOf(j)
  BY <1>1 DEF ContentOf
<1>7. ContentOf(i) = c /\ ContentOf(path)' = c
  BY <1>1, <1>2, <1>4 DEF ContentOf
<1>8. \A j \in durable' : ContentOf(j)' # Foreign
  BY <1>1, <1>4, <1>6, <1>7, NoForeign
<1>9. NamesInv'
  BY <1>1, <1>2, <1>3, <1>4, <1>8 DEF NamesInv
<1>10. ReadInv'
  BY <1>1, <1>3 DEF ReadInv, ContentOf
<1>11. lock = a /\ \A b \in Auths \ {a} : pc[b] = "down"
  BY <1>1, Alone
<1>12. /\ view' \in [Auths -> Files \cup {Missing}] /\ sure' \in [Auths -> BOOLEAN]
       /\ view'[a] = c /\ ~sure'[a]
  BY <1>1, <1>3, <1>4 DEF ProcType
<1>13. ProcType' /\ LockInv' /\ OpInv' /\ ViewInv'
  BY <1>1, <1>3, <1>4, <1>7, <1>11, <1>12, OneProcess DEF Positions, ProcType
<1> QED
  BY <1>5, <1>9, <1>10, <1>13 DEF IInv

LEMMA DirSyncInv ==
    ASSUME IInv, NEW a \in Auths, DirSync(a)
    PROVE  IInv'
<1>1. /\ durable' = {path} /\ sure' = [sure EXCEPT ![a] = TRUE] /\ op' = [op EXCEPT ![a] = NoOp]
      /\ Goto(a, "open")
      /\ UNCHANGED <<data, synced, path, temps, aside, lock, fd, got, opened, view>>
      /\ pc[a] = "dirsync"
  BY DEF DirSync, Done, readVars
<1>2. DirType /\ ProcType /\ ReadType /\ NamesInv /\ ReadInv
  BY DEF IInv
<1>3. DirType' /\ ReadType'
  BY <1>1, <1>2 DEF DirType, ReadType
<1>4. \A j : ContentOf(j)' = ContentOf(j)
  BY <1>1 DEF ContentOf
<1>5. NamesInv'
  BY <1>1, <1>2 DEF NamesInv, DirType
<1>6. ReadInv'
  BY <1>1, <1>2 DEF ReadInv, ContentOf
<1>7. lock = a /\ \A b \in Auths \ {a} : pc[b] = "down"
  BY <1>1, Alone
<1>8. NoOp \in OpType
  BY DEF NoOp, Operation, OpType
<1>9. /\ op' \in [Auths -> OpType] /\ sure' \in [Auths -> BOOLEAN]
      /\ view' \in [Auths -> Files \cup {Missing}]
  BY <1>1, <1>2, <1>8 DEF ProcType
<1>10. ContentOf(path) = view[a] /\ view[a] # Foreign
  BY <1>1 DEF IInv, ViewInv
<1>11. /\ ContentOf(path)' = view'[a] /\ view'[a] # Foreign
       /\ \A j \in durable' : ContentOf(j)' = view'[a]
  BY <1>1, <1>4, <1>10 DEF ContentOf
<1>12. ProcType' /\ LockInv' /\ OpInv' /\ ViewInv'
  BY <1>1, <1>2, <1>7, <1>9, <1>11, OneProcess DEF Positions, ProcType
<1> QED
  BY <1>3, <1>5, <1>6, <1>12 DEF IInv

LEMMA MoveInv ==
    ASSUME IInv, NEW a \in Auths, MoveAside(a)
    PROVE  IInv'
<1>1. /\ path' = None /\ durable' = durable \cup {None} /\ aside' = aside \cup {path}
      /\ view' = [view EXCEPT ![a] = Missing] /\ sure' = [sure EXCEPT ![a] = FALSE]
      /\ Goto(a, "dirsync") /\ UNCHANGED <<data, synced, temps, lock, op, fd, got, opened>>
      /\ pc[a] = "move" /\ ContentOf(path) \in Contents
  BY ContentAssumption DEF MoveAside, readVars, IInv, ViewInv
<1>2. DirType /\ ProcType /\ ReadType /\ NamesInv /\ ReadInv
  BY DEF IInv
<1>3. path \in Inodes
  BY <1>1, <1>2, ContentAssumption DEF ContentOf, DirType
<1>4. DirType' /\ ReadType'
  BY <1>1, <1>2, <1>3 DEF DirType, ReadType
<1>5. \A j : ContentOf(j)' = ContentOf(j)
  BY <1>1 DEF ContentOf
<1>6. ContentOf(None) = Missing /\ ContentOf(path)' = Missing /\ Missing # Foreign
  BY <1>1, ContentAssumption DEF ContentOf
<1>7. \A j \in durable' : ContentOf(j)' # Foreign
  BY <1>1, <1>5, <1>6, NoForeign
<1>8. NamesInv'
  BY <1>1, <1>2, <1>7, ContentAssumption DEF NamesInv, DirType
<1>9. ReadInv'
  BY <1>1, <1>2 DEF ReadInv, ContentOf
<1>10. lock = a /\ \A b \in Auths \ {a} : pc[b] = "down"
  BY <1>1, Alone
<1>11. /\ view' \in [Auths -> Files \cup {Missing}] /\ sure' \in [Auths -> BOOLEAN]
       /\ view'[a] = Missing /\ ~sure'[a]
  BY <1>1, <1>2 DEF ProcType
<1>12. ProcType' /\ LockInv' /\ OpInv' /\ ViewInv'
  BY <1>1, <1>2, <1>6, <1>10, <1>11, OneProcess DEF Positions, ProcType
<1> QED
  BY <1>4, <1>8, <1>9, <1>12 DEF IInv

-------------------------------------------------------------------------------
(* Readers and power losses *)

LEMMA ReaderInv ==
    ASSUME IInv, NEW r \in Readers, OpenRead(r) \/ Read(r)
    PROVE  IInv'
<1>1. UNCHANGED <<data, synced, path, durable, temps, aside, lock, pc, op, view, sure>>
  BY DEF OpenRead, Read, dirVars, procVars, histVars
<1>2. DirType' /\ ProcType' /\ LockInv' /\ OpInv' /\ ViewInv'
  BY <1>1 DEF IInv, DirType, ProcType, LockInv, OpInv, ViewInv, ContentOf
<1>3. /\ fd \in [Readers -> Inodes \cup {None}] /\ got \in [Readers -> Files \cup {Missing}]
      /\ opened \in [Readers -> Files \cup {Missing}] /\ NamesInv /\ ReadInv
      /\ path \in durable /\ path \in Inodes \cup {None} /\ data \in [Inodes -> Files]
      /\ temps \subseteq Inodes
  BY DEF IInv, ReadType, DirType
<1>4. \A i \in Inodes \cup {None} : ContentOf(i) \in Files \cup {Missing}
  BY <1>3, ContentAssumption DEF ContentOf
<1>5. CASE OpenRead(r)
  <2>1. /\ fd' = [fd EXCEPT ![r] = path] /\ opened' = [opened EXCEPT ![r] = ContentOf(path)]
        /\ got' = got /\ path # None
    BY <1>5 DEF OpenRead
  <2>2. ReadType'
    BY <1>3, <1>4, <2>1 DEF ReadType
  <2>3. \A q \in Readers : fd'[q] = (IF q = r THEN path ELSE fd[q])
                           /\ opened'[q] = (IF q = r THEN ContentOf(path) ELSE opened[q])
    BY <1>3, <2>1
  <2>4. NamesInv'
    BY <1>1, <1>3, <2>3 DEF NamesInv, ContentOf
  <2>5. ReadInv'
    BY <1>1, <1>3, <2>1, <2>3 DEF ReadInv, ContentOf
  <2> QED
    BY <1>2, <2>2, <2>4, <2>5 DEF IInv
<1>6. CASE Read(r)
  <2>1. /\ fd' = [fd EXCEPT ![r] = None] /\ got' = [got EXCEPT ![r] = ContentOf(fd[r])]
        /\ opened' = opened /\ fd[r] # None
    BY <1>6 DEF Read
  <2>2. ReadType'
    BY <1>3, <1>4, <2>1 DEF ReadType
  <2>3. \A q \in Readers : fd'[q] = (IF q = r THEN None ELSE fd[q])
                           /\ got'[q] = (IF q = r THEN ContentOf(fd[r]) ELSE got[q])
    BY <1>3, <2>1
  <2>4. NamesInv'
    BY <1>1, <1>3, <2>3, ContentAssumption DEF NamesInv, ContentOf
  <2>5. ReadInv'
    BY <1>1, <1>3, <2>1, <2>3 DEF ReadInv, ContentOf
  <2> QED
    BY <1>2, <2>2, <2>4, <2>5 DEF IInv
<1> QED
  BY <1>5, <1>6

LEMMA PowerLossInv ==
    ASSUME IInv, PowerLoss
    PROVE  IInv'
<1>1. DirType /\ ProcType /\ NamesInv
  BY DEF IInv
<1>2. \A i \in Inodes : synced[i] => data'[i] = data[i]
  BY DEF PowerLoss
<1>3. path' \in durable /\ durable' = {path'} /\ temps' \subseteq temps /\ aside' \subseteq aside
  BY DEF PowerLoss
<1>4. DirType'
  <2>1. data' \in [Inodes -> Files] /\ synced' \in [Inodes -> BOOLEAN]
    BY <1>1 DEF PowerLoss, DirType, Files
  <2> QED
    BY <1>1, <1>3, <2>1 DEF DirType
<1>5. ReadType' /\ ReadInv'
  BY DEF PowerLoss, ReadType, ReadInv
<1>6. NamesInv'
  <2>1. path' # None => path' \in Inodes /\ synced[path'] /\ data[path'] # Torn
    BY <1>1, <1>3 DEF NamesInv, DirType
  <2>2. path' # None => data'[path'] # Torn /\ synced'[path']
    BY <1>2, <2>1 DEF PowerLoss
  <2>3. \A r \in Readers : fd'[r] = None
    BY DEF PowerLoss
  <2>4. None \notin temps' /\ path' \notin temps'
    BY <1>1, <1>3, ContentAssumption DEF NamesInv, DirType
  <2> QED
    BY <1>3, <2>2, <2>3, <2>4 DEF NamesInv
<1>7. NoOp \in OpType
  BY DEF NoOp, Operation, OpType
<1>8. ProcType' /\ LockInv' /\ OpInv' /\ ViewInv'
  BY <1>1, <1>7 DEF PowerLoss, histVars, ProcType, LockInv, OpInv, ViewInv, Positions
<1> QED
  BY <1>4, <1>5, <1>6, <1>8 DEF IInv

LEMMA StepInv ==
    ASSUME IInv, [Next]_vars
    PROVE  IInv'
<1>1. ASSUME NEW a \in Auths, Step(a)
      PROVE  IInv'
  BY <1>1, OpenInv, DownInv, OperationInv, CreateInv, TempInv, FailsInv, RenameInv, DirSyncInv,
     MoveInv DEF Step
<1>2. CASE UNCHANGED vars
  <2>1. UNCHANGED <<dirVars, readVars>> /\ UNCHANGED <<lock, pc, op, view, sure>>
    BY <1>2 DEF vars, procVars, histVars
  <2>2. /\ DirType' /\ ReadType' /\ NamesInv' /\ ReadInv'
        /\ ContentOf(path)' = ContentOf(path) /\ durable' = durable
        /\ \A i : ContentOf(i)' = ContentOf(i)
    BY <2>1, SameFiles
  <2>3. data' = data /\ synced' = synced /\ temps' = temps
    BY <2>1 DEF dirVars
  <2>4. ProcType' /\ LockInv' /\ OpInv'
    BY <2>1, <2>3 DEF IInv, ProcType, LockInv, OpInv
  <2>5. ViewInv'
    BY <2>1, <2>2 DEF IInv, ViewInv
  <2> QED
    BY <2>2, <2>4, <2>5 DEF IInv
<1> QED
  BY <1>1, <1>2, ReaderInv, PowerLossInv DEF Next

LEMMA Inductive == Spec => []IInv
BY InitInv, StepInv, PTL DEF Spec

-------------------------------------------------------------------------------
(* The theorems *)

\* Whoever opens auth.json, after any crash of Save or QuarantineRejected and after any
\* power loss, finds a complete file or none: the temporary file is synced before the rename.
THEOREM NothingTorn == Spec => []NeverTorn
<1>1. IInv => NeverTorn
  BY ContentAssumption DEF IInv, NamesInv, NeverTorn, ContentOf, Torn, Missing
<1> QED
  BY <1>1, Inductive, PTL

\* The process that holds the sidecar lock finds under the path what its own Load, Save
\* or QuarantineRejected has left there.
THEOREM OneWriter == Spec => []WriterOwnsPath
<1>1. IInv => WriterOwnsPath
  BY DEF IInv, LockInv, ViewInv, WriterOwnsPath
<1> QED
  BY <1>1, Inductive, PTL

\* After a Save or QuarantineRejected that returned nil, a power loss leaves that result.
THEOREM ConfirmedSurvives == Spec => []ConfirmedIsDurable
<1>1. ASSUME IInv, NEW a \in Auths, pc[a] \notin {"down", "opening"}, sure[a]
      PROVE  {ContentOf(i) : i \in durable} = {view[a]}
  <2>1. \A i \in durable : ContentOf(i) = view[a]
    BY <1>1 DEF IInv, ViewInv
  <2>2. path \in durable
    BY <1>1 DEF IInv, DirType
  <2> QED
    BY <2>1, <2>2
<1>2. IInv => ConfirmedIsDurable
  BY <1>1 DEF ConfirmedIsDurable
<1> QED
  BY <1>2, Inductive, PTL

\* A request that has opened auth.json reads the snapshot it opened, whatever Save and
\* QuarantineRejected do to the path meanwhile: no inode is written while it is open.
THEOREM ReadersUndisturbed == Spec => []ReaderGetsWhatItOpened
<1>1. IInv => ReaderGetsWhatItOpened
  BY DEF IInv, ReadInv, ReaderGetsWhatItOpened
<1> QED
  BY <1>1, Inductive, PTL

\* Save, QuarantineRejected and a power loss leave a file that is no valid snapshot alone.
THEOREM ForeignStays == Spec => ForeignKept
<1>1. ASSUME IInv, [Next]_vars, ContentOf(path) = Foreign, path' # path
      PROVE  FALSE
  <2>1. durable = {path}
    BY <1>1 DEF IInv, NamesInv, DirType
  <2>2. CASE PowerLoss
    BY <1>1, <2>1, <2>2 DEF PowerLoss
  <2>3. ASSUME NEW a \in Auths, RenameTemp(a) \/ MoveAside(a)
        PROVE  FALSE
    <3>1. pc[a] \notin {"down", "opening"}
      BY <2>3 DEF RenameTemp, MoveAside
    <3> QED
      BY <1>1, <3>1 DEF IInv, ViewInv
  <2>4. ASSUME NEW a \in Auths, Step(a)
        PROVE  RenameTemp(a) \/ MoveAside(a)
    BY <1>1, <2>4 DEF Step, TakeLock, OpenLoad, Close, SaveBegin, Recheck,
       CreateTemp, WriteTemp, SyncTemp, SaveFails, DirSync, DirSyncFails, QuarantineBegin,
       Compare, QuarantineFails, Kill, dirVars
  <2>5. \A r \in Readers : ~OpenRead(r) /\ ~Read(r)
    BY <1>1 DEF OpenRead, Read, dirVars
  <2>6. ~UNCHANGED vars
    BY <1>1 DEF vars, dirVars
  <2> QED
    BY <1>1, <2>2, <2>3, <2>4, <2>5, <2>6 DEF Next
<1>2. IInv /\ [Next]_vars => [ContentOf(path) = Foreign => path' = path]_vars
  BY <1>1
<1> QED
  BY <1>2, Inductive, PTL DEF Spec, ForeignKept

\* The snapshot that QuarantineRejected moves is the one it has looked at and the server
\* has rejected, and the file is kept: the lock keeps every other writer away between
\* the look and the rename.
THEOREM RejectedIsMoved == Spec => QuarantineMovesRejected
<1>1. ASSUME IInv, [Next]_vars, NEW a \in Auths, pc[a] = "move", pc'[a] = "dirsync"
      PROVE  /\ path \in aside' /\ ContentOf(path) \in Contents
             /\ TokenOf[ContentOf(path)] = op[a].token
  <2>1. ContentOf(path) \in Contents /\ TokenOf[ContentOf(path)] = op[a].token
    BY <1>1 DEF IInv, ViewInv
  <2>2. \A b \in Auths \ {a} : pc[b] = "down"
    BY <1>1, Alone
  <2>3. pc \in [Auths -> Positions]
    BY <1>1 DEF IInv, ProcType
  <2>4. ASSUME NEW b \in Auths, Step(b)
        PROVE  MoveAside(a)
    <3>1. CASE b = a
      BY <1>1, <2>3, <2>4, <3>1 DEF Step, TakeLock, OpenLoad, Close, SaveBegin, Recheck,
         CreateTemp, WriteTemp, SyncTemp, RenameTemp, SaveFails, DirSync, DirSyncFails,
         QuarantineBegin, Compare, QuarantineFails, Kill, Goto, Done, AfterWrite, AfterSync
    <3>2. CASE b # a
      <4>1. TakeLock(b)
        BY <2>2, <2>4, <3>2 DEF Step, OpenLoad, Close, SaveBegin, Recheck, CreateTemp, WriteTemp,
           SyncTemp, RenameTemp, SaveFails, DirSync, DirSyncFails, QuarantineBegin, Compare,
           MoveAside, QuarantineFails, Kill
      <4> QED
        BY <1>1, <2>3, <3>2, <4>1 DEF TakeLock, Goto
    <3> QED
      BY <3>1, <3>2
  <2>5. ~PowerLoss
    BY <1>1 DEF PowerLoss
  <2>6. \A r \in Readers : ~OpenRead(r) /\ ~Read(r)
    BY <1>1 DEF OpenRead, Read, procVars
  <2>7. ~UNCHANGED vars
    BY <1>1 DEF vars, procVars
  <2>8. MoveAside(a)
    BY <1>1, <2>4, <2>5, <2>6, <2>7 DEF Next
  <2> QED
    BY <2>1, <2>8 DEF MoveAside
<1>2. IInv /\ [Next]_vars =>
        [\A a \in Auths : pc[a] = "move" /\ pc'[a] = "dirsync" =>
            /\ path \in aside'
            /\ ContentOf(path) \in Contents
            /\ TokenOf[ContentOf(path)] = op[a].token]_vars
  BY <1>1
<1> QED
  BY <1>2, Inductive, PTL DEF Spec, QuarantineMovesRejected

-------------------------------------------------------------------------------
(* The contract *)

LEMMA RegInit == Init => Reg!Init
<1> SUFFICES ASSUME Init PROVE Reg!Init
  OBVIOUS
<1>1. ContentOf(path) \in Contents \cup {Foreign} \cup {Missing} /\ durable = {path}
  BY DEF Init, ContentOf
<1> QED
  BY <1>1 DEF Reg!Init

\* The directory and what the path names are as before.
LEMMA RegStutter ==
    ASSUME path' = path, durable' = durable,
           \A i \in durable \cup {path} : ContentOf(i)' = ContentOf(i)
    PROVE  UNCHANGED Reg!regVars
<1>1. ContentOf(path)' = ContentOf(path)
  BY DEF ContentOf
<1>2. {ContentOf(i) : i \in durable}' = {ContentOf(i) : i \in durable}
  OBVIOUS
<1> QED
  BY <1>1, <1>2 DEF Reg!regVars

LEMMA RegStep ==
    ASSUME IInv, [Next]_vars
    PROVE  [Reg!Next]_(Reg!regVars)
<1>1. DirType /\ NamesInv
  BY DEF IInv
<1>2. ASSUME NEW a \in Auths, Step(a)
      PROVE  Reg!Next \/ UNCHANGED Reg!regVars
  <2>1. CASE RenameTemp(a)
    <3>1. /\ path' = op[a].temp /\ durable' = durable \cup {op[a].temp} /\ data' = data
          /\ op[a].temp \in temps /\ op[a].content \in Contents
          /\ data[op[a].temp] = op[a].content
      BY <2>1 DEF RenameTemp, IInv, OpInv
    <3>2. op[a].temp # None
      BY <1>1, <3>1, ContentAssumption DEF DirType
    <3>3. ContentOf(path)' = op[a].content /\ ContentOf(op[a].temp) = op[a].content
      BY <3>1, <3>2 DEF ContentOf
    <3>4. \A i : ContentOf(i)' = ContentOf(i)
      BY <3>1 DEF ContentOf
    <3>5. {ContentOf(i) : i \in durable}' = {ContentOf(i) : i \in durable} \cup {op[a].content}
      BY <3>1, <3>3, <3>4
    <3>6. Reg!Replace(op[a].content, "unsynced")
      BY <3>3, <3>5 DEF Reg!Replace
    <3> QED
      BY <3>1, <3>6 DEF Reg!Next, Reg!Results
  <2>2. CASE DirSync(a)
    <3>1. path' = path /\ durable' = {path} /\ data' = data
      BY <2>2 DEF DirSync
    <3>2. ContentOf(path)' = ContentOf(path) /\ \A i : ContentOf(i)' = ContentOf(i)
      BY <3>1 DEF ContentOf
    <3>3. {ContentOf(i) : i \in durable}' = {ContentOf(path)}
      BY <3>1, <3>2
    <3>4. ContentOf(path) \in Contents \cup {Foreign} \cup {Missing}
      BY <1>1 DEF DirType, NamesInv, ContentOf, Files
    <3>5. Reg!Replace(ContentOf(path), "ok")
      BY <3>2, <3>3 DEF Reg!Replace
    <3> QED
      BY <3>4, <3>5 DEF Reg!Next, Reg!Results
  <2>3. CASE MoveAside(a)
    <3>1. path' = None /\ durable' = durable \cup {None} /\ data' = data
      BY <2>3 DEF MoveAside
    <3>2. ContentOf(path)' = Missing /\ ContentOf(None) = Missing
      BY <3>1 DEF ContentOf
    <3>3. \A i : ContentOf(i)' = ContentOf(i)
      BY <3>1 DEF ContentOf
    <3>4. {ContentOf(i) : i \in durable}' = {ContentOf(i) : i \in durable} \cup {Missing}
      BY <3>1, <3>2, <3>3
    <3>5. Reg!Replace(Missing, "unsynced")
      BY <3>2, <3>4 DEF Reg!Replace
    <3> QED
      BY <3>5 DEF Reg!Next, Reg!Results
  <2>4. CASE CreateTemp(a) \/ WriteTemp(a)
    <3>1. /\ path' = path /\ durable' = durable
          /\ \A i \in durable : i # None => data'[i] = data[i]
      BY <1>1, <2>4 DEF CreateTemp, WriteTemp, InUse, IInv, OpInv, DirType, NamesInv
    <3> QED
      BY <1>1, <3>1, RegStutter DEF DirType, ContentOf
  <2>5. CASE ~RenameTemp(a) /\ ~DirSync(a) /\ ~MoveAside(a) /\ ~CreateTemp(a) /\ ~WriteTemp(a)
    <3>1. path' = path /\ durable' = durable /\ data' = data
      BY <1>2, <2>5 DEF Step, TakeLock, OpenLoad, Close, SaveBegin, Recheck, SyncTemp,
         SaveFails, DirSyncFails, QuarantineBegin, Compare, QuarantineFails, Kill, dirVars
    <3> QED
      BY <3>1, RegStutter DEF ContentOf
  <2> QED
    BY <2>1, <2>2, <2>3, <2>4, <2>5
<1>3. CASE PowerLoss
  <2>1. path' \in durable /\ durable' = {path'}
    BY <1>3 DEF PowerLoss
  <2>2. path' # None => synced[path'] /\ path' \in Inodes
    BY <1>1, <2>1 DEF NamesInv, DirType
  <2>3. path' # None => data'[path'] = data[path']
    BY <1>3, <2>2 DEF PowerLoss
  <2>4. ContentOf(path)' = (IF path' = None THEN Missing ELSE data[path'])
    BY <2>3 DEF ContentOf
  <2>5. \E i \in durable : ContentOf(path)' = ContentOf(i)
    BY <2>1, <2>4 DEF ContentOf
  <2>6. {ContentOf(i) : i \in durable}' = {ContentOf(path)'}
    BY <2>1 DEF ContentOf
  <2> QED
    BY <2>5, <2>6 DEF Reg!Next, Reg!PowerLoss
<1>4. CASE UNCHANGED vars \/ \E r \in Readers : OpenRead(r) \/ Read(r)
  <2>1. path' = path /\ durable' = durable /\ data' = data
    BY <1>4 DEF vars, OpenRead, Read, dirVars
  <2> QED
    BY <2>1, RegStutter DEF ContentOf
<1> QED
  BY <1>2, <1>3, <1>4 DEF Next

\* The system calls of Save and QuarantineRejected, with crashes between any two of them,
\* implement the contract of the credential file.
THEOREM KeepsContract == Spec => ImplementsRegister
BY RegInit, RegStep, Inductive, PTL DEF Spec, ImplementsRegister, Reg!Spec
===============================================================================
