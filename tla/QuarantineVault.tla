--------------------------- MODULE QuarantineVault ---------------------------
(***************************************************************************)
(* The quarantine: quarantine_finding and restore_entry (quarantine.py)    *)
(* over the device root key (crypto_vault.py). Scans and watch sessions    *)
(* quarantine the same file from different processes while its owner       *)
(* writes it; entries are restored meanwhile; any process may be killed.   *)
(*                                                                         *)
(* One file is at stake. Contents and fingerprints (device, inode, size    *)
(* and modification time, see _same_snapshot) are numbered by the change   *)
(* that made them; 0 stands for a file that does not exist. A write may    *)
(* keep the fingerprint: same size, within one tick of the file system's   *)
(* clock, or with the time set back. Each process quarantines into an      *)
(* entry of its own, named by a fresh UUID, and both go by one name here.  *)
(***************************************************************************)
EXTENDS Integers

CONSTANTS
    Quarantines,        \* processes that quarantine the file, and their entries
    Restores,           \* processes that restore an entry
    Nothing,            \* no key
    MaxChanges          \* bound: writes, deletions and restorations of the file

ASSUME VaultAssumption ==
    /\ MaxChanges \in Nat
    /\ Nothing \notin Quarantines /\ "before" \notin Quarantines
    /\ Nothing # "before"

VARIABLES
    content, stamp,     \* the file: its content and its fingerprint
    clock,              \* number of changes made to it
    root,               \* the device root on disk, named by its creator
    pc, found, saw, key,\* of each quarantine: scan result, snapshot, its root
    entry,              \* what is published under each entry's name
    rpc, from, to, read,\* of each restore: entry, destination, metadata it read
    removed, late,      \* history: content removed; changed past the comparison
    roots               \* history: how many device roots there have been

file == <<content, stamp, clock>>
locals == <<found, saw, key>>
restoring == <<rpc, from, to, read>>
history == <<removed, late, roots>>
vars == <<file, root, pc, locals, entry, restoring, history>>

Keys == Quarantines \cup {"before"}
Changes == 0..MaxChanges
States == {"none", "copy_ready", "copy_only", "quarantined", "restored"}
Entries == [state : States, wrap : Keys \cup {Nothing}, mac : Keys \cup {Nothing}]
Absent == [state |-> "none", wrap |-> Nothing, mac |-> Nothing]

Steps == {"idle", "scanned", "root", "create", "load", "encrypt", "publish",
          "compare", "unlink", "removed", "copy_only", "over"}
Published == {"compare", "unlink", "removed", "copy_only"}
PastRoot == {"encrypt", "publish"} \cup Published

TypeOK ==
    /\ content \in Changes /\ stamp \in Changes /\ clock \in Changes
    /\ root \in Keys \cup {Nothing}
    /\ pc \in [Quarantines -> Steps]
    /\ found \in [Quarantines -> Changes] /\ saw \in [Quarantines -> Changes]
    /\ key \in [Quarantines -> Keys \cup {Nothing}]
    /\ \A q \in Quarantines : pc[q] \in PastRoot => key[q] \in Keys
    /\ entry \in [Quarantines -> Entries]
    /\ \A q \in Quarantines : pc[q] \in Published => entry[q].state # "none"
    /\ rpc \in [Restores -> {"idle", "decrypt", "link", "record", "over"}]
    /\ from \in [Restores -> Quarantines \cup {Nothing}]
    /\ to \in [Restores -> {"original", "elsewhere"}]
    /\ read \in [Restores -> Entries]
    /\ removed \in [Quarantines -> Changes] /\ late \in [Quarantines -> BOOLEAN]
    /\ roots \in Nat

Init ==
    /\ content = 0 /\ stamp = 0 /\ clock = 0
    /\ \/ root = "before" /\ roots = 1      \* created in an earlier session
       \/ root = Nothing /\ roots = 0
    /\ pc = [q \in Quarantines |-> "idle"]
    /\ found = [q \in Quarantines |-> 0] /\ saw = [q \in Quarantines |-> 0]
    /\ key = [q \in Quarantines |-> Nothing]
    /\ entry = [q \in Quarantines |-> Absent]
    /\ rpc = [r \in Restores |-> "idle"]
    /\ from = [r \in Restores |-> Nothing] /\ to = [r \in Restores |-> "original"]
    /\ read = [r \in Restores |-> Absent]
    /\ removed = [q \in Quarantines |-> 0] /\ late = [q \in Quarantines |-> FALSE]

-----------------------------------------------------------------------------
(* The owner of the file writes or deletes it, or a restoration puts it    *)
(* back. Past the last comparison a change cannot be noticed any more; a   *)
(* write that keeps the fingerprint cannot be noticed once the copy is     *)
(* made.                                                                   *)
Changed(content2, stamp2, unnoticed) ==
    /\ clock < MaxChanges /\ clock' = clock + 1
    /\ content' = content2 /\ stamp' = stamp2
    /\ late' = [q \in Quarantines |-> late[q] \/ pc[q] \in unnoticed]

Write ==
    /\ Changed(clock + 1, clock + 1, {"unlink"})
    /\ UNCHANGED <<root, pc, locals, entry, restoring, removed, roots>>

WriteUnseen ==
    /\ content # 0
    /\ Changed(clock + 1, stamp, {"publish", "compare", "unlink"})
    /\ UNCHANGED <<root, pc, locals, entry, restoring, removed, roots>>

Delete ==
    /\ content # 0
    /\ Changed(0, 0, {})
    /\ UNCHANGED <<root, pc, locals, entry, restoring, removed, roots>>

-----------------------------------------------------------------------------
At(q, here, there) == pc[q] = here /\ pc' = [pc EXCEPT ![q] = there]

(* The scanner has hashed the file and found a match. *)
Scan(q) ==
    /\ content # 0
    /\ At(q, "idle", "scanned")
    /\ found' = [found EXCEPT ![q] = content]
    /\ UNCHANGED <<file, root, saw, key, entry, restoring, history>>

(* _inspect_regular_source, before anything is created in the vault.       *)
Inspect(q) ==
    /\ At(q, "scanned", IF content = 0 THEN "over" ELSE "root")
    /\ saw' = [saw EXCEPT ![q] = stamp]
    /\ UNCHANGED <<file, root, found, key, entry, restoring, history>>

(* Mutant: a missing root is not created.                                  *)
LookForRootOnly(q) ==
    /\ At(q, "root", "load")
    /\ UNCHANGED <<file, root, locals, entry, restoring, history>>

(* load_device_root with create: a root that is missing is created.        *)
LookForRoot(q) ==
    /\ At(q, "root", IF root = Nothing THEN "create" ELSE "load")
    /\ UNCHANGED <<file, root, locals, entry, restoring, history>>

CreateRoot(q) ==
    /\ At(q, "create", "load")
    /\ root' = q /\ roots' = roots + 1
    /\ UNCHANGED <<file, locals, entry, restoring, removed, late>>

LoadRoot(q) ==
    /\ At(q, "load", "encrypt")
    /\ key' = [key EXCEPT ![q] = root]
    /\ UNCHANGED <<file, root, found, saw, entry, restoring, history>>

(* _encrypt_regular_source: the copy is made from one open handle, must    *)
(* have the fingerprint of the inspection and the digest of the finding.   *)
Encrypt(q) ==
    /\ At(q, "encrypt",
          IF content # 0 /\ stamp = saw[q] /\ content = found[q] THEN "publish" ELSE "over")
    /\ UNCHANGED <<file, root, locals, entry, restoring, history>>

(* An I/O error, or the process is killed, before the entry has a name:    *)
(* what was prepared is removed or stays under a temporary name.           *)
GiveUp(q) ==
    /\ pc[q] \in {"scanned", "root", "create", "load", "encrypt", "publish"}
    /\ pc' = [pc EXCEPT ![q] = "over"]
    /\ UNCHANGED <<file, root, locals, entry, restoring, history>>

(* The metadata in memory, with the state and the signature to be written. *)
Metadata(q, state, mac) == [state |-> state, wrap |-> key[q], mac |-> mac]

(* The directory is renamed: content and signed metadata appear at once.   *)
Publish(q) ==
    /\ At(q, "publish", "compare")
    /\ entry' = [entry EXCEPT ![q] = Metadata(q, "copy_ready", key[q])]
    /\ UNCHANGED <<file, root, locals, restoring, history>>

(* Mutant: the file is not compared again before it is removed.            *)
CompareExistence(q) ==
    /\ At(q, "compare", IF content # 0 THEN "unlink" ELSE "copy_only")
    /\ UNCHANGED <<file, root, locals, entry, restoring, history>>

Compare(q) ==
    /\ At(q, "compare", IF content # 0 /\ stamp = saw[q] THEN "unlink" ELSE "copy_only")
    /\ UNCHANGED <<file, root, locals, entry, restoring, history>>

Unlink(q) ==
    /\ content # 0
    /\ At(q, "unlink", "removed")
    /\ content' = 0 /\ stamp' = 0
    /\ removed' = [removed EXCEPT ![q] = content]
    /\ UNCHANGED <<clock, root, locals, entry, restoring, late, roots>>

(* The file is gone, or the system refuses to remove it. *)
UnlinkFails(q) ==
    /\ At(q, "unlink", "copy_only")
    /\ UNCHANGED <<file, root, locals, entry, restoring, history>>

(* Mutant: every outcome is recorded as a quarantine.                      *)
RecordSuccess(q) ==
    /\ pc[q] \in {"removed", "copy_only"} /\ pc' = [pc EXCEPT ![q] = "over"]
    /\ entry' = [entry EXCEPT ![q] = Metadata(q, "quarantined", root)]
    /\ UNCHANGED <<file, root, locals, restoring, history>>

(* _write_v2_metadata: what happened is recorded, over whatever metadata   *)
(* is there, signed under the root that is on disk now.                    *)
Record(q) ==
    /\ pc[q] \in {"removed", "copy_only"} /\ pc' = [pc EXCEPT ![q] = "over"]
    /\ entry' = [entry EXCEPT ![q] =
                    Metadata(q, IF pc[q] = "removed" THEN "quarantined" ELSE "copy_only", root)]
    /\ UNCHANGED <<file, root, locals, restoring, history>>

(* The process is killed, or cannot write the record, after publication.   *)
Crash(q) ==
    /\ pc[q] \in Published
    /\ pc' = [pc EXCEPT ![q] = "over"]
    /\ UNCHANGED <<file, root, locals, entry, restoring, history>>

-----------------------------------------------------------------------------
RAt(r, here, there) == rpc[r] = here /\ rpc' = [rpc EXCEPT ![r] = there]

(* The metadata is read and authenticated, and the destination is free. A  *)
(* restore that fails here has no effect and is not a step.                *)
ReadEntry(r, q, where) ==
    /\ entry[q].state # "none" /\ entry[q].mac = root
    /\ where = "original" => content = 0
    /\ RAt(r, "idle", "decrypt")
    /\ from' = [from EXCEPT ![r] = q]
    /\ to' = [to EXCEPT ![r] = where]
    /\ read' = [read EXCEPT ![r] = entry[q]]
    /\ UNCHANGED <<file, root, pc, locals, entry, history>>

(* The content is decrypted beside the destination, if the root is the one *)
(* its key was wrapped under.                                              *)
Decrypt(r) ==
    /\ RAt(r, "decrypt", IF read[r].wrap = root THEN "link" ELSE "over")
    /\ UNCHANGED <<file, root, pc, locals, entry, from, to, read, history>>

(* os.link: the restored file appears, unless there is one by now.         *)
Link(r) ==
    /\ to[r] = "original" /\ content = 0
    /\ RAt(r, "link", "record")
    /\ Changed(found[from[r]], clock + 1, {"unlink"})
    /\ UNCHANGED <<root, pc, locals, entry, from, to, read, removed, roots>>

LinkElsewhere(r) ==
    /\ to[r] = "elsewhere"
    /\ RAt(r, "link", "record")
    /\ UNCHANGED <<file, root, pc, locals, entry, from, to, read, history>>

(* The destination is taken, or the process fails or is killed. *)
RestoreEnds(r) ==
    /\ rpc[r] \in {"decrypt", "link", "record"} /\ rpc' = [rpc EXCEPT ![r] = "over"]
    /\ UNCHANGED <<file, root, pc, locals, entry, from, to, read, history>>

(* The metadata read at the beginning is written back as restored.         *)
RecordRestore(r) ==
    /\ RAt(r, "record", "over")
    /\ entry' = [entry EXCEPT ![from[r]] =
                    [state |-> "restored", wrap |-> read[r].wrap, mac |-> root]]
    /\ UNCHANGED <<file, root, pc, locals, from, to, read, history>>

-----------------------------------------------------------------------------
Quarantine(q) ==
    \/ Scan(q) \/ Inspect(q) \/ LookForRoot(q) \/ CreateRoot(q) \/ LoadRoot(q)
    \/ Encrypt(q) \/ GiveUp(q) \/ Publish(q) \/ Compare(q) \/ Unlink(q)
    \/ UnlinkFails(q) \/ Record(q) \/ Crash(q)

Restore(r) ==
    \/ \E q \in Quarantines, where \in {"original", "elsewhere"} : ReadEntry(r, q, where)
    \/ Decrypt(r) \/ Link(r) \/ LinkElsewhere(r) \/ RestoreEnds(r) \/ RecordRestore(r)

Next ==
    \/ Write \/ WriteUnseen \/ Delete
    \/ \E q \in Quarantines : Quarantine(q)
    \/ \E r \in Restores : Restore(r)

Spec == Init /\ [][Next]_vars

-----------------------------------------------------------------------------
CanBeDecrypted(e) == e.state # "none" /\ e.wrap = root /\ e.mac = root

(* "Recoverable encrypted quarantine": what was removed can be decrypted   *)
(* from its entry with the root that is on disk, at every later moment,    *)
(* wherever its quarantine was cut short, if no process has replaced a     *)
(* device root that existed.                                               *)
RemovedIsRecoverable ==
    roots <= 1 => \A q \in Quarantines : removed[q] # 0 => CanBeDecrypted(entry[q])

(* "The original is removed only if it still matches the scan result", but *)
(* for changes after the last comparison and changes that leave no trace   *)
(* in the fingerprint.                                                     *)
RemovedWasSaved ==
    \A q \in Quarantines : removed[q] # 0 => removed[q] = found[q] \/ late[q]

(* What the metadata says of the original: a quarantined one was removed;  *)
(* with copy_only nothing was, the command having said so.                 *)
StateIsHonest ==
    \A q \in Quarantines :
        /\ entry[q].state = "quarantined" => removed[q] # 0
        /\ entry[q].state = "copy_only" => removed[q] = 0

(* A removal loses nothing but what the code cannot see: what was removed  *)
(* is what was found, and it can be restored.                              *)
RemovalIsSafe == RemovedIsRecoverable /\ RemovedWasSaved
=============================================================================
