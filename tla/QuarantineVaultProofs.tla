------------------------ MODULE QuarantineVaultProofs ------------------------
(***************************************************************************)
(* Proofs about QuarantineVault, for any number of processes that          *)
(* quarantine and restore, and any number of changes to the file.          *)
(***************************************************************************)
EXTENDS QuarantineVault, TLAPS

USE VaultAssumption DEF VaultAssumption

(* A restoration that has begun holds the metadata of a published entry.   *)
RestoresHold ==
    \A r \in Restores : rpc[r] # "idle" =>
        /\ from[r] \in Quarantines /\ entry[from[r]].state # "none"
        /\ read[r].state # "none"

(* How far a quarantine has come tells what its entry says and whether it  *)
(* has removed the file.                                                   *)
ProgressTells ==
    \A q \in Quarantines :
        /\ pc[q] \notin Published \cup {"over"} => entry[q].state = "none"
        /\ pc[q] \in Published => entry[q].state \in {"copy_ready", "restored"}
        /\ pc[q] \notin {"removed", "over"} => removed[q] = 0
        /\ pc[q] \in {"copy_only"} => removed[q] = 0
        /\ pc[q] = "removed" => removed[q] # 0
        /\ removed[q] # 0 => entry[q].state # "none"

(* Before there is a root there is neither key nor entry; while there has  *)
(* been but one, every key and every entry is under it.                    *)
OneRoot ==
    /\ root = Nothing <=> roots = 0
    /\ \A q \in Quarantines : pc[q] = "load" => root # Nothing
    /\ root = Nothing =>
          /\ \A q \in Quarantines : key[q] = Nothing /\ entry[q].state = "none"
          /\ \A r \in Restores : read[r].state = "none"
    /\ roots <= 1 =>
          /\ \A q \in Quarantines :
                /\ key[q] \in {Nothing, root}
                /\ entry[q].state # "none" => entry[q].wrap = root /\ entry[q].mac = root
          /\ \A r \in Restores : read[r].state # "none" => read[r].wrap = root

(* Between the copy and the removal the file is the one that was found, as *)
(* far as its fingerprint can tell; afterwards, unless it changed late.    *)
CopyIsCurrent ==
    /\ stamp <= clock
    /\ \A q \in Quarantines :
          /\ saw[q] <= clock
          /\ pc[q] \in {"publish", "compare"} /\ content # 0 /\ stamp = saw[q]
                => content = found[q] \/ late[q]
          /\ pc[q] = "unlink" /\ content # 0 => content = found[q] \/ late[q]

VaultInv ==
    /\ TypeOK
    /\ RestoresHold
    /\ ProgressTells
    /\ OneRoot
    /\ CopyIsCurrent
    /\ RemovedWasSaved
    /\ StateIsHonest

LEMMA VaultInit == Init => VaultInv
  <1> SUFFICES ASSUME Init PROVE VaultInv
    OBVIOUS
  <1>1. TypeOK
    BY DEF Init, TypeOK, Changes, Keys, Entries, Absent, States, Steps, PastRoot, Published
  <1>2. RestoresHold /\ ProgressTells
    BY DEF Init, RestoresHold, ProgressTells, Published, Absent
  <1>3. OneRoot
    BY DEF Init, OneRoot, Absent
  <1>4. CopyIsCurrent
    BY DEF Init, CopyIsCurrent
  <1>5. RemovedWasSaved /\ StateIsHonest
    BY DEF Init, RemovedWasSaved, StateIsHonest, Absent
  <1> QED BY <1>1, <1>2, <1>3, <1>4, <1>5 DEF VaultInv

(* A change of the file keeps the types of what it changes.                *)
LEMMA ChangedType ==
    ASSUME TypeOK, NEW c \in Changes \cup {clock + 1}, NEW s \in {0, stamp, clock + 1}, NEW unnoticed,
           Changed(c, s, unnoticed)
    PROVE  /\ content' \in Changes /\ stamp' \in Changes /\ clock' \in Changes
           /\ late' \in [Quarantines -> BOOLEAN]
  <1>1. /\ content \in Changes /\ stamp \in Changes /\ clock \in Changes /\ clock < MaxChanges
        /\ clock' = clock + 1 /\ content' = c /\ stamp' = s
        /\ late' = [q \in Quarantines |-> late[q] \/ pc[q] \in unnoticed]
    BY DEF TypeOK, Changed
  <1>2. content' \in Changes /\ stamp' \in Changes /\ clock' \in Changes
    BY <1>1 DEF Changes
  <1>3. late' \in [Quarantines -> BOOLEAN]
    BY <1>1, Zenon
  <1> QED BY <1>2, <1>3

LEMMA TypeStep == VaultInv /\ [Next]_vars => TypeOK'
  <1> SUFFICES ASSUME VaultInv, [Next]_vars PROVE TypeOK'
    OBVIOUS
  <1>1. TypeOK /\ OneRoot /\ RestoresHold /\ ProgressTells
    BY DEF VaultInv
  <1> USE <1>1 DEF TypeOK, Changes, Keys, Entries, Absent, States, Steps, PastRoot, Published,
          file, locals, restoring, history, At, RAt, Changed
  <1>2. ASSUME Write \/ WriteUnseen \/ Delete PROVE TypeOK'
    <2>1. /\ content' \in Changes /\ stamp' \in Changes /\ clock' \in Changes
          /\ late' \in [Quarantines -> BOOLEAN]
      <3>1. CASE Write
        BY <3>1, ChangedType DEF Write
      <3>2. CASE WriteUnseen
        BY <3>2, ChangedType DEF WriteUnseen
      <3>3. CASE Delete
        BY <3>3, ChangedType DEF Delete
      <3> QED BY <1>2, <3>1, <3>2, <3>3
    <2>2. UNCHANGED <<root, pc, found, saw, key, entry, rpc, from, to, read, removed, roots>>
      BY <1>2 DEF Write, WriteUnseen, Delete
    <2> QED BY <2>1, <2>2
  <1>3. ASSUME NEW q \in Quarantines, Quarantine(q) PROVE TypeOK'
    <2>1. ASSUME Scan(q) PROVE TypeOK'
      BY <2>1 DEF Scan
    <2>2. ASSUME Inspect(q) PROVE TypeOK'
      BY <2>2 DEF Inspect
    <2>3. ASSUME LookForRoot(q) PROVE TypeOK'
      BY <2>3 DEF LookForRoot
    <2>4. ASSUME CreateRoot(q) PROVE TypeOK'
      BY <2>4 DEF CreateRoot
    <2>5. ASSUME LoadRoot(q) PROVE TypeOK'
      BY <2>5 DEF LoadRoot, OneRoot
    <2>6. ASSUME Encrypt(q) \/ GiveUp(q) PROVE TypeOK'
      BY <2>6 DEF Encrypt, GiveUp
    <2>7. ASSUME Publish(q) PROVE TypeOK'
      BY <2>7 DEF Publish, Metadata
    <2>8. ASSUME Compare(q) \/ UnlinkFails(q) \/ Crash(q) PROVE TypeOK'
      BY <2>8 DEF Compare, UnlinkFails, Crash
    <2>9. ASSUME Unlink(q) PROVE TypeOK'
      BY <2>9 DEF Unlink
    <2>10. ASSUME Record(q) PROVE TypeOK'
      <3>1. entry' \in [Quarantines -> Entries]
        <4>1. Metadata(q, IF pc[q] = "removed" THEN "quarantined" ELSE "copy_only", root) \in Entries
          BY <2>10 DEF Record, Metadata
        <4> QED BY <2>10, <4>1 DEF Record
      <3>2. pc' = [pc EXCEPT ![q] = "over"]
        BY <2>10 DEF Record
      <3>3. UNCHANGED <<file, root, locals, restoring, history>>
        BY <2>10 DEF Record
      <3>4. \A p \in Quarantines : entry[p].state # "none" => entry'[p].state # "none"
        BY <2>10 DEF Record, Metadata
      <3>5. \A p \in Quarantines : pc'[p] \in Published => pc[p] \in Published
        BY <3>2
      <3>6. \A p \in Quarantines : pc'[p] \in PastRoot => pc[p] \in PastRoot
        BY <3>2
      <3> QED BY <3>1, <3>2, <3>3, <3>4, <3>5, <3>6
    <2> QED BY <1>3, <2>1, <2>2, <2>3, <2>4, <2>5, <2>6, <2>7, <2>8, <2>9, <2>10 DEF Quarantine
  <1>4. ASSUME NEW r \in Restores, Restore(r) PROVE TypeOK'
    <2>1. ASSUME NEW q \in Quarantines, NEW where \in {"original", "elsewhere"},
                 ReadEntry(r, q, where)
          PROVE TypeOK'
      BY <2>1 DEF ReadEntry
    <2>2. ASSUME Decrypt(r) \/ LinkElsewhere(r) \/ RestoreEnds(r) PROVE TypeOK'
      BY <2>2 DEF Decrypt, LinkElsewhere, RestoreEnds
    <2>3. ASSUME Link(r) PROVE TypeOK'
      <3>1. found[from[r]] \in Changes
        BY <2>3 DEF Link, RestoresHold
      <3>2. Changed(found[from[r]], clock + 1, {"unlink"})
        BY <2>3 DEF Link
      <3>3. /\ content' \in Changes /\ stamp' \in Changes /\ clock' \in Changes
            /\ late' \in [Quarantines -> BOOLEAN]
        <4> HIDE DEF Changes, TypeOK, Changed
        <4> QED BY <3>1, <3>2, ChangedType
      <3>4. UNCHANGED <<root, pc, found, saw, key, entry, from, to, read, removed, roots>>
        BY <2>3 DEF Link
      <3>5. rpc' \in [Restores -> {"idle", "decrypt", "link", "record", "over"}]
        BY <2>3 DEF Link
      <3> QED BY <3>3, <3>4, <3>5
    <2>4. ASSUME RecordRestore(r) PROVE TypeOK'
      BY <2>4 DEF RecordRestore, RestoresHold
    <2> QED BY <1>4, <2>1, <2>2, <2>3, <2>4 DEF Restore
  <1>5. CASE UNCHANGED vars
    BY <1>5 DEF vars
  <1> QED BY <1>2, <1>3, <1>4, <1>5 DEF Next

LEMMA RestoresStep == VaultInv /\ [Next]_vars => RestoresHold'
  <1> SUFFICES ASSUME VaultInv, [Next]_vars PROVE RestoresHold'
    OBVIOUS
  <1> USE DEF VaultInv, RestoresHold
  <1>1. entry \in [Quarantines -> Entries] /\ rpc \in [Restores -> {"idle", "decrypt", "link", "record", "over"}]
        /\ from \in [Restores -> Quarantines \cup {Nothing}] /\ read \in [Restores -> Entries]
    BY DEF TypeOK
  <1>2. CASE UNCHANGED <<entry, restoring>>
    BY <1>2 DEF restoring
  <1>3. ASSUME NEW q \in Quarantines, Publish(q) \/ Record(q) PROVE RestoresHold'
    <2>1. UNCHANGED restoring
      BY <1>3 DEF Publish, Record
    <2>2. \A p \in Quarantines : entry[p].state # "none" => entry'[p].state # "none"
      BY <1>1, <1>3 DEF Publish, Record, Metadata
    <2> QED BY <2>1, <2>2 DEF restoring
  <1>4. ASSUME NEW r \in Restores, NEW q \in Quarantines, NEW where, ReadEntry(r, q, where)
        PROVE RestoresHold'
    BY <1>1, <1>4 DEF ReadEntry, RAt
  <1>5. ASSUME NEW r \in Restores, Decrypt(r) \/ Link(r) \/ LinkElsewhere(r) \/ RestoreEnds(r)
        PROVE RestoresHold'
    <2>1. UNCHANGED <<entry, from, read>> /\ rpc[r] # "idle"
      BY <1>5 DEF Decrypt, Link, LinkElsewhere, RestoreEnds, RAt
    <2>2. \A s \in Restores : rpc'[s] # "idle" => rpc[s] # "idle"
      BY <1>1, <1>5 DEF Decrypt, Link, LinkElsewhere, RestoreEnds, RAt
    <2> QED BY <2>1, <2>2
  <1>6. ASSUME NEW r \in Restores, RecordRestore(r) PROVE RestoresHold'
    <2>1. UNCHANGED <<from, read>> /\ rpc[r] # "idle"
      BY <1>6 DEF RecordRestore, RAt
    <2>2. \A s \in Restores : rpc'[s] # "idle" => rpc[s] # "idle"
      BY <1>1, <1>6 DEF RecordRestore, RAt
    <2>3. \A p \in Quarantines : entry[p].state # "none" => entry'[p].state # "none"
      BY <1>1, <1>6 DEF RecordRestore, Entries
    <2> QED BY <2>1, <2>2, <2>3
  <1> QED BY <1>2, <1>3, <1>4, <1>5, <1>6 DEF Next, Quarantine, Restore, Write, WriteUnseen,
             Delete, Scan, Inspect, LookForRoot, CreateRoot, LoadRoot, Encrypt, GiveUp,
             Compare, Unlink, UnlinkFails, Crash, vars

LEMMA ProgressStep == VaultInv /\ [Next]_vars => ProgressTells' /\ StateIsHonest'
  <1> SUFFICES ASSUME VaultInv, [Next]_vars PROVE ProgressTells' /\ StateIsHonest'
    OBVIOUS
  <1> USE DEF VaultInv, ProgressTells, StateIsHonest, Published
  <1>1. pc \in [Quarantines -> Steps] /\ entry \in [Quarantines -> Entries]
        /\ removed \in [Quarantines -> Changes]
    BY DEF TypeOK
  <1>2. CASE UNCHANGED <<pc, entry, removed>>
    BY <1>2
  <1>3. ASSUME NEW q \in Quarantines, Quarantine(q) PROVE ProgressTells' /\ StateIsHonest'
    <2>1. CASE Scan(q) \/ Inspect(q) \/ LookForRoot(q) \/ CreateRoot(q) \/ LoadRoot(q) \/ Encrypt(q)
               \/ GiveUp(q)
      BY <1>1, <2>1 DEF Scan, Inspect, LookForRoot, CreateRoot, LoadRoot, Encrypt, GiveUp, At, history
    <2>2. CASE Publish(q)
      BY <1>1, <2>2 DEF Publish, Metadata, At, history
    <2>3. CASE Compare(q) \/ UnlinkFails(q) \/ Crash(q)
      BY <1>1, <2>3 DEF Compare, UnlinkFails, Crash, At, history
    <2>4. CASE Unlink(q)
      BY <1>1, <2>4 DEF Unlink, At
    <2>5. CASE Record(q)
      BY <1>1, <2>5 DEF Record, Metadata, history
    <2> QED BY <1>3, <2>1, <2>2, <2>3, <2>4, <2>5 DEF Quarantine
  <1>4. ASSUME NEW r \in Restores, RecordRestore(r) PROVE ProgressTells' /\ StateIsHonest'
    <2>1. from[r] \in Quarantines /\ entry[from[r]].state # "none"
      BY <1>4 DEF RestoresHold, RecordRestore, RAt
    <2>2. entry'[from[r]].state = "restored"
      BY <1>1, <1>4, <2>1 DEF RecordRestore, TypeOK, Entries
    <2>3. \A q \in Quarantines : q # from[r] => entry'[q] = entry[q]
      BY <1>1, <1>4 DEF RecordRestore
    <2>4. UNCHANGED <<pc, removed>>
      BY <1>4 DEF RecordRestore, history
    <2> QED BY <2>1, <2>2, <2>3, <2>4
  <1> QED BY <1>2, <1>3, <1>4 DEF Next, Restore, Write, WriteUnseen, Delete, ReadEntry, Decrypt,
             Link, LinkElsewhere, RestoreEnds, history, vars
LEMMA RootStep == VaultInv /\ [Next]_vars => OneRoot'
  <1> SUFFICES ASSUME VaultInv, [Next]_vars PROVE OneRoot'
    OBVIOUS
  <1> USE DEF VaultInv, OneRoot
  <1>1. /\ pc \in [Quarantines -> Steps] /\ entry \in [Quarantines -> Entries]
        /\ key \in [Quarantines -> Keys \cup {Nothing}] /\ read \in [Restores -> Entries]
        /\ root \in Keys \cup {Nothing} /\ roots \in Nat
        /\ \A q \in Quarantines : pc[q] \in PastRoot => key[q] \in Keys
    BY DEF TypeOK
  <1>2. Nothing \notin Keys
    BY DEF Keys
  <1>3. CASE UNCHANGED <<root, pc, key, entry, read, roots>>
    BY <1>3
  <1>4. ASSUME NEW q \in Quarantines, Quarantine(q) PROVE OneRoot'
    <2>1. CASE Scan(q) \/ Inspect(q) \/ LookForRoot(q) \/ Encrypt(q) \/ GiveUp(q) \/ Compare(q)
               \/ Unlink(q) \/ UnlinkFails(q) \/ Crash(q)
      <3>1. UNCHANGED <<root, key, entry, read, roots>>
        BY <2>1 DEF Scan, Inspect, LookForRoot, Encrypt, GiveUp, Compare, Unlink, UnlinkFails,
           Crash, locals, restoring, history
      <3>2. \A p \in Quarantines : pc'[p] = "load" => pc[p] = "load" \/ root # Nothing
        BY <1>1, <2>1 DEF Scan, Inspect, LookForRoot, Encrypt, GiveUp, Compare, Unlink,
           UnlinkFails, Crash, At
      <3> QED BY <3>1, <3>2
    <2>2. CASE CreateRoot(q)
      <3>1. root' = q /\ roots' = roots + 1 /\ UNCHANGED <<key, entry, read>>
        BY <2>2 DEF CreateRoot, locals, restoring
      <3>2. root' # Nothing /\ roots' # 0
        BY <1>1, <1>2, <3>1 DEF Keys
      <3>3. ASSUME roots' <= 1 PROVE root = Nothing
        BY <1>1, <3>1, <3>3
      <3> QED BY <3>1, <3>2, <3>3
    <2>3. CASE LoadRoot(q)
      <3>1. UNCHANGED <<root, entry, read, roots>> /\ root # Nothing
        BY <2>3 DEF LoadRoot, At, restoring, history
      <3>2. \A p \in Quarantines : key'[p] \in {key[p], root}
        BY <1>1, <2>3 DEF LoadRoot
      <3> QED BY <3>1, <3>2
    <2>4. CASE Publish(q) \/ Record(q)
      <3>1. UNCHANGED <<root, key, read, roots>> /\ key[q] # Nothing /\ root # Nothing
        BY <1>1, <1>2, <2>4 DEF Publish, Record, At, locals, restoring, history, PastRoot, Published
      <3>2. \A p \in Quarantines : pc'[p] = "load" => pc[p] = "load"
        BY <1>1, <2>4 DEF Publish, Record, At
      <3>3. \A p \in Quarantines : p # q => entry'[p] = entry[p]
        BY <1>1, <2>4 DEF Publish, Record
      <3>4. entry'[q].wrap = key[q] /\ entry'[q].mac \in {key[q], root}
        BY <1>1, <2>4 DEF Publish, Record, Metadata
      <3> QED BY <3>1, <3>2, <3>3, <3>4
    <2> QED BY <1>4, <2>1, <2>2, <2>3, <2>4 DEF Quarantine
  <1>5. ASSUME NEW r \in Restores, NEW q \in Quarantines, NEW where, ReadEntry(r, q, where)
        PROVE OneRoot'
    <2>1. UNCHANGED <<root, pc, key, entry, roots>> /\ entry[q].state # "none"
      BY <1>5 DEF ReadEntry, locals, history
    <2>2. \A s \in Restores : read'[s] \in {read[s], entry[q]}
      BY <1>1, <1>5 DEF ReadEntry
    <2> QED BY <2>1, <2>2
  <1>6. ASSUME NEW r \in Restores, RecordRestore(r) PROVE OneRoot'
    <2>1. UNCHANGED <<root, pc, key, read, roots>> /\ read[r].state # "none"
      BY <1>6 DEF RecordRestore, RestoresHold, RAt, locals, history
    <2>2. \A q \in Quarantines :
              entry'[q] = entry[q] \/ (entry'[q].wrap = read[r].wrap /\ entry'[q].mac = root)
      BY <1>1, <1>6 DEF RecordRestore
    <2> QED BY <2>1, <2>2
  <1> QED BY <1>3, <1>4, <1>5, <1>6 DEF Next, Restore, Write, WriteUnseen, Delete, Decrypt,
             Link, LinkElsewhere, RestoreEnds, locals, restoring, history, vars

(* A change of the file is noticed by its fingerprint, or marked late.     *)
LEMMA CopyChanged ==
    ASSUME VaultInv, NEW c \in Nat, NEW s \in {0, stamp, clock + 1}, NEW unnoticed,
           Changed(c, s, unnoticed), UNCHANGED <<pc, found, saw>>,
           \/ c = 0
           \/ s = clock + 1 /\ "unlink" \in unnoticed
           \/ {"publish", "compare", "unlink"} \subseteq unnoticed
    PROVE  CopyIsCurrent'
  <1>1. /\ clock \in Nat /\ stamp \in Nat /\ saw \in [Quarantines -> Nat]
        /\ content' = c /\ stamp' = s /\ clock' = clock + 1
    BY DEF VaultInv, TypeOK, Changes, Changed
  <1>2. stamp' <= clock' /\ \A q \in Quarantines : saw'[q] <= clock'
    BY <1>1 DEF VaultInv, CopyIsCurrent
  <1>3. \A q \in Quarantines : pc[q] \in unnoticed => late'[q]
    BY Zenon DEF Changed
  <1>4. \A q \in Quarantines : s = clock + 1 => saw'[q] # stamp'
    BY <1>1 DEF VaultInv, CopyIsCurrent
  <1>5. ASSUME NEW q \in Quarantines
        PROVE  /\ pc'[q] \in {"publish", "compare"} /\ content' # 0 /\ stamp' = saw'[q]
                      => content' = found'[q] \/ late'[q]
               /\ pc'[q] = "unlink" /\ content' # 0 => content' = found'[q] \/ late'[q]
    <2>1. CASE c = 0
      BY <1>1, <2>1
    <2>2. CASE s = clock + 1 /\ "unlink" \in unnoticed
      BY <1>3, <1>4, <2>2
    <2>3. CASE {"publish", "compare", "unlink"} \subseteq unnoticed
      BY <1>3, <2>3
    <2> QED BY <2>1, <2>2, <2>3
  <1> QED BY <1>2, <1>5 DEF CopyIsCurrent

LEMMA CopyStep == VaultInv /\ [Next]_vars => CopyIsCurrent'
  <1> SUFFICES ASSUME VaultInv, [Next]_vars PROVE CopyIsCurrent'
    OBVIOUS
  <1>1. /\ pc \in [Quarantines -> Steps] /\ clock \in Nat /\ stamp \in Nat
        /\ found \in [Quarantines -> Nat] /\ saw \in [Quarantines -> Nat]
    BY DEF VaultInv, TypeOK, Changes
  <1>2. CopyIsCurrent /\ RestoresHold
    BY DEF VaultInv
  <1>3. CASE Write \/ WriteUnseen \/ Delete
    <2>1. UNCHANGED <<pc, found, saw>>
      BY <1>3 DEF Write, WriteUnseen, Delete, locals
    <2>2. CASE Write
      BY <1>1, <2>1, <2>2, CopyChanged DEF Write
    <2>3. CASE WriteUnseen
      BY <1>1, <2>1, <2>3, CopyChanged DEF WriteUnseen
    <2>4. CASE Delete
      BY <1>1, <2>1, <2>4, CopyChanged DEF Delete
    <2> QED BY <1>3, <2>2, <2>3, <2>4
  <1>4. ASSUME NEW q \in Quarantines, Quarantine(q) PROVE CopyIsCurrent'
    <2>1. CASE Scan(q)
      <3>1. UNCHANGED <<content, stamp, clock, saw, late>>
        BY <2>1 DEF Scan, file, history
      <3>2. \A p \in Quarantines : (found'[p] = found[p] /\ pc'[p] = pc[p]) \/ pc'[p] = "scanned"
        BY <1>1, <2>1 DEF Scan, At
      <3> QED BY <1>2, <3>1, <3>2 DEF CopyIsCurrent
    <2>2. CASE Inspect(q)
      <3>1. UNCHANGED <<content, stamp, clock, found, late>>
        BY <2>2 DEF Inspect, file, history
      <3>2. \A p \in Quarantines :
                \/ saw'[p] = saw[p] /\ pc'[p] = pc[p]
                \/ saw'[p] = stamp /\ pc'[p] \in {"over", "root"}
        BY <1>1, <2>2 DEF Inspect, At
      <3> QED BY <1>2, <3>1, <3>2 DEF CopyIsCurrent
    <2>3. CASE Unlink(q)
      BY <1>1, <1>2, <2>3 DEF Unlink, CopyIsCurrent, locals
    <2>4. CASE Encrypt(q)
      <3>1. UNCHANGED <<content, stamp, clock, found, saw, late>>
        BY <2>4 DEF Encrypt, file, locals, history
      <3>2. \A p \in Quarantines :
                \/ pc'[p] \in {pc[p], "over"}
                \/ pc'[p] = "publish" /\ content = found[p]
        BY <1>1, <2>4 DEF Encrypt, At
      <3> QED BY <1>2, <3>1, <3>2 DEF CopyIsCurrent
    <2>5. CASE Compare(q)
      <3>1. UNCHANGED <<content, stamp, clock, found, saw, late>>
        BY <2>5 DEF Compare, file, locals, history
      <3>2. \A p \in Quarantines :
                \/ pc'[p] \in {pc[p], "copy_only"}
                \/ pc'[p] = "unlink" /\ pc[p] = "compare" /\ stamp = saw[p]
        BY <1>1, <2>5 DEF Compare, At
      <3> QED BY <1>2, <3>1, <3>2 DEF CopyIsCurrent
    <2>6. CASE LookForRoot(q) \/ CreateRoot(q) \/ LoadRoot(q) \/ GiveUp(q) \/ Publish(q)
               \/ UnlinkFails(q) \/ Record(q) \/ Crash(q)
      <3>1. UNCHANGED <<content, stamp, clock, found, saw, late>>
        BY <2>6 DEF LookForRoot, CreateRoot, LoadRoot, GiveUp, Publish, UnlinkFails, Record,
           Crash, file, locals, history
      <3>2. \A p \in Quarantines :
                \/ pc'[p] = pc[p]
                \/ pc'[p] \notin {"publish", "compare", "unlink"}
                \/ pc'[p] = "compare" /\ pc[p] = "publish"
        BY <1>1, <2>6 DEF LookForRoot, CreateRoot, LoadRoot, GiveUp, Publish, UnlinkFails,
           Record, Crash, At
      <3> QED BY <1>2, <3>1, <3>2 DEF CopyIsCurrent
    <2> QED BY <1>4, <2>1, <2>2, <2>3, <2>4, <2>5, <2>6 DEF Quarantine
  <1>5. ASSUME NEW r \in Restores, Link(r) PROVE CopyIsCurrent'
    <2>1. UNCHANGED <<pc, found, saw>>
      BY <1>5 DEF Link, locals
    <2>2. found[from[r]] \in Nat
      BY <1>1, <1>2, <1>5 DEF Link, RAt, RestoresHold
    <2>3. Changed(found[from[r]], clock + 1, {"unlink"})
      BY <1>5 DEF Link
    <2> QED BY <2>1, <2>2, <2>3, CopyChanged
  <1>6. CASE UNCHANGED <<content, stamp, clock, pc, found, saw, late>>
    BY <1>2, <1>6 DEF CopyIsCurrent
  <1> QED BY <1>3, <1>4, <1>5, <1>6 DEF Next, Restore, ReadEntry, Decrypt, LinkElsewhere,
             RestoreEnds, RecordRestore, file, locals, history, vars

LEMMA SavedStep == VaultInv /\ [Next]_vars => RemovedWasSaved'
  <1> SUFFICES ASSUME VaultInv, [Next]_vars PROVE RemovedWasSaved'
    OBVIOUS
  <1>1. /\ pc \in [Quarantines -> Steps] /\ found \in [Quarantines -> Changes]
        /\ removed \in [Quarantines -> Changes]
    BY DEF VaultInv, TypeOK
  <1>2. CopyIsCurrent /\ RemovedWasSaved /\ ProgressTells
    BY DEF VaultInv
  <1>3. CASE UNCHANGED <<removed, found, late>>
    BY <1>2, <1>3 DEF RemovedWasSaved
  <1>4. CASE UNCHANGED <<removed, found>> /\ \A q \in Quarantines : late[q] => late'[q]
    BY <1>2, <1>4 DEF RemovedWasSaved
  <1>5. ASSUME NEW c, NEW s, NEW unnoticed, Changed(c, s, unnoticed)
        PROVE  \A q \in Quarantines : late[q] => late'[q]
    BY <1>5, Zenon DEF Changed
  <1>6. ASSUME NEW q \in Quarantines, Scan(q) PROVE RemovedWasSaved'
    <2>1. UNCHANGED <<removed, late>> /\ removed[q] = 0
      BY <1>2, <1>6 DEF Scan, At, history, ProgressTells
    <2>2. \A p \in Quarantines : p # q => found'[p] = found[p]
      BY <1>1, <1>6 DEF Scan
    <2> QED BY <1>2, <2>1, <2>2 DEF RemovedWasSaved
  <1>7. ASSUME NEW q \in Quarantines, Unlink(q) PROVE RemovedWasSaved'
    <2>1. UNCHANGED <<found, late>> /\ content # 0 /\ pc[q] = "unlink"
      BY <1>7 DEF Unlink, At, locals
    <2>2. \A p \in Quarantines : removed'[p] = removed[p] \/ (p = q /\ removed'[p] = content)
      BY <1>1, <1>7 DEF Unlink
    <2> QED BY <1>2, <2>1, <2>2 DEF RemovedWasSaved, CopyIsCurrent
  <1>8. ASSUME Write \/ WriteUnseen \/ Delete \/ \E r \in Restores : Link(r) PROVE RemovedWasSaved'
    <2>1. UNCHANGED <<removed, found>>
      BY <1>8 DEF Write, WriteUnseen, Delete, Link, locals
    <2>2. \A q \in Quarantines : late[q] => late'[q]
      BY <1>5, <1>8 DEF Write, WriteUnseen, Delete, Link
    <2> QED BY <1>4, <2>1, <2>2
  <1> QED BY <1>3, <1>6, <1>7, <1>8 DEF Next, Quarantine, Restore, Inspect, LookForRoot, CreateRoot,
             LoadRoot, Encrypt, GiveUp, Publish, Compare, UnlinkFails, Record, Crash, ReadEntry,
             Decrypt, LinkElsewhere, RestoreEnds, RecordRestore, locals, history, vars

THEOREM VaultInvariant == Spec => []VaultInv
  <1>1. VaultInv /\ [Next]_vars => VaultInv'
    BY TypeStep, RestoresStep, ProgressStep, RootStep, CopyStep, SavedStep DEF VaultInv
  <1> QED BY <1>1, VaultInit, PTL DEF Spec

(* quarantine_finding, load_device_root: what was removed can be decrypted *)
(* from its entry, whatever was cut short, as long as one root was made.   *)
THEOREM Recoverable == Spec => []RemovedIsRecoverable
  <1>1. VaultInv => RemovedIsRecoverable
    BY DEF VaultInv, ProgressTells, OneRoot, RemovedIsRecoverable, CanBeDecrypted
  <1> QED BY <1>1, VaultInvariant, PTL

(* quarantine_finding: only the content that was found is removed, but for *)
(* changes that its comparisons cannot see.                                *)
THEOREM OnlyTheFound == Spec => []RemovedWasSaved
  <1>1. VaultInv => RemovedWasSaved
    BY DEF VaultInv
  <1> QED BY <1>1, VaultInvariant, PTL

(* quarantine_finding, restore_entry: the recorded state never claims a    *)
(* removal that did not happen, nor denies one.                            *)
THEOREM HonestState == Spec => []StateIsHonest
  <1>1. VaultInv => StateIsHonest
    BY DEF VaultInv
  <1> QED BY <1>1, VaultInvariant, PTL

(* quarantine_finding: it removes only what was found and can be restored. *)
THEOREM SafeRemoval == Spec => []RemovalIsSafe
  BY Recoverable, OnlyTheFound, PTL DEF RemovalIsSafe

(* quarantine.py, crypto_vault.py: the values every step of a quarantine   *)
(* or a restoration leaves behind are of their kinds.                      *)
THEOREM VaultTypes == Spec => []TypeOK
  <1>1. VaultInv => TypeOK
    BY DEF VaultInv
  <1> QED BY <1>1, VaultInvariant, PTL

=============================================================================
