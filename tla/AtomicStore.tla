----------------------------- MODULE AtomicStore -----------------------------
(***************************************************************************)
(* What the gateway promises about the files an FTP user can see: every    *)
(* name is either free or holds one complete file, and each command        *)
(* changes the name space in one atomic step that the user's permissions   *)
(* allow.  There are no connections, temporary names or failures here; the *)
(* module Upload shows under which conditions the gateway implements this. *)
(***************************************************************************)
CONSTANTS
    Paths,          \* final names a user may address
    Contents,       \* complete files
    NoFile,         \* a name that holds no file
    Seeded,         \* the names that hold a file at the start
    Original,       \* the content of those files
    Overwrite,      \* permissions.allowOverwrite
    AllowUpload,    \* permissions.allowUpload
    AllowDelete,    \* permissions.allowDelete
    AllowRename     \* permissions.allowRename

VARIABLE store

Init == store = [p \in Paths |-> IF p \in Seeded THEN Original ELSE NoFile]

(* May a command put a file under the name p?                              *)
MayReplace(p) == Overwrite \/ store[p] = NoFile

(* STOR: a complete file appears under p, and nothing else changes.        *)
Publish(p) ==
    /\ AllowUpload
    /\ MayReplace(p)
    /\ \E c \in Contents : store' = [store EXCEPT ![p] = c]

(* DELE *)
Delete(p) ==
    /\ AllowDelete
    /\ store' = [store EXCEPT ![p] = NoFile]

(* RNFR/RNTO: the file moves, never vanishing or existing twice.           *)
Move(p, q) ==
    /\ AllowRename
    /\ store[p] # NoFile
    /\ MayReplace(q)
    /\ store' = [store EXCEPT ![p] = NoFile, ![q] = store[p]]

Next ==
    \E p \in Paths :
        \/ Publish(p)
        \/ Delete(p)
        \/ \E q \in Paths : Move(p, q)

Spec == Init /\ [][Next]_store
==============================================================================
