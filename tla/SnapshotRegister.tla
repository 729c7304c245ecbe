--------------------------- MODULE SnapshotRegister ---------------------------
(* The contract of the credential file: what credentialStore.Save and          *)
(* credentialStore.QuarantineRejected promise to Auth, and what a reader of    *)
(* the fixed path or a power loss may observe.  `value` is the snapshot the    *)
(* path names now; `stable` is the set of snapshots a power loss may leave     *)
(* there, because a directory entry is only durable once the directory has     *)
(* been synced.  A missing file is the snapshot Missing.                       *)
CONSTANTS
    Snapshots,      \* the complete, well-formed snapshots
    Missing         \* the path names no file

VARIABLES
    value,          \* what a reader of the path finds
    stable          \* what the path may name after a power loss

regVars == <<value, stable>>

\* "ok": renamed and the directory synced.  "unsynced": renamed, then opening or
\* syncing the directory failed, so the call reports an error although the new
\* snapshot is visible.  "before": failed before the rename.
Results == {"ok", "unsynced", "before"}

\* The path is made to name snapshot c (Missing: the file is moved away).
Replace(c, result) ==
    \/ /\ result = "ok"
       /\ value' = c
       /\ stable' = {c}
    \/ /\ result = "unsynced"
       /\ value' = c
       /\ stable' = stable \cup {c}
    \/ /\ result = "before"
       /\ UNCHANGED regVars

\* Every process is gone and the directory is what had reached the disk.
PowerLoss ==
    \E c \in stable : value' = c /\ stable' = {c}

Init ==
    /\ value \in Snapshots \cup {Missing}
    /\ stable = {value}

Next ==
    \/ \E c \in Snapshots \cup {Missing}, result \in Results : Replace(c, result)
    \/ PowerLoss

Spec == Init /\ [][Next]_regVars
===============================================================================
