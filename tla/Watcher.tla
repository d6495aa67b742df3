------------------------------- MODULE Watcher -------------------------------
(***************************************************************************)
(* ForegroundProtectionWatcher of zsec_shield/watcher.py: one foreground   *)
(* protection session. The main loop inventories the protected folders,    *)
(* then scans the paths the event queue hands over and, from time to time, *)
(* walks every file again: a reconciliation hashes only files whose        *)
(* metadata fingerprint changed, a full rescan hashes all of them. While   *)
(* it walks it also drains the queue, so that a large walk does not        *)
(* postpone a new download. Files change at any moment, observers and the  *)
(* ingest thread may die, inspections may fail.                            *)
(*                                                                         *)
(* The event queue is used through the promise of PathObligations, which   *)
(* EventQueue implements: queued are the paths it owes, overflowed is its  *)
(* alarm, and what due returns is some subset of what it owes (timing is   *)
(* EventQueue's subject). Timers of the loop are nondeterministic choices. *)
(***************************************************************************)
EXTENDS Integers, FiniteSets

CONSTANTS
    Files,              \* regular files below the protected roots
    Restored,           \* may a write restore size and timestamps? SUBSET BOOLEAN
    MaxChanges,         \* bound: changes to the disk
    MaxFailures         \* bound: inspections that fail

ASSUME WatcherAssumption ==
    /\ Files # {} /\ IsFiniteSet(Files)
    /\ Restored \in SUBSET BOOLEAN
    /\ MaxChanges \in Nat /\ MaxFailures \in Nat

VARIABLES
    (* the disk *)
    present, content,   \* does each file exist, and which change wrote it last
    meta,               \* its metadata fingerprint
    changes,            \* how many changes so far
    (* observer and queue *)
    queued, overflowed, \* PathObligations: owed and alarm
    observerAlive, ingestFailed,
    (* the loop *)
    pc, batch,          \* where it is, and paths due returned, not yet scanned
    walk, todo,         \* the walk under way and the files it has yet to reach
    at, seen,           \* the file it is at and the fingerprint it read there
    gaps, moved,        \* what went wrong in this walk; did the generation move
    snapshot, current,  \* fingerprints of the last walk, and of this one
    operational, historical, persistent,   \* the three incomplete flags
    raised, summary,    \* what ended the loop early; what the session reported
    (* history, for the properties *)
    inspected,          \* the content of each file the session last hashed
    unresolved,         \* files whose last inspection failed
    drainFailed,        \* those that failed in a drain the walk had passed
    failures, lost, mark

disk == <<present, content, meta, changes>>
intake == <<queued, overflowed, observerAlive, ingestFailed>>
place == <<walk, todo, at, seen>>
cache == <<snapshot, current>>
flags == <<operational, historical, persistent>>
result == <<raised, summary>>
memory == <<inspected, unresolved, drainFailed, failures>>
history == <<memory, lost, mark>>
vars == <<disk, intake, pc, batch, place, gaps, moved, cache, flags, result, history>>

NoEntry == -1
NoFile == "none"
Walks == {"inventory", "reconcile", "full"}
Gaps == {"issue", "unresolved", "quarantine"}
Exceptions == {"KeyboardInterrupt", "error"}
Empty == [f \in Files |-> NoEntry]

(* Mutant: a failed inspection leaves the cached fingerprint in place.     *)
EvictNothing(map, f) == map

(* Forget the fingerprint of f. *)
Evict(map, f) == [map EXCEPT ![f] = NoEntry]

TypeOK ==
    /\ present \in [Files -> BOOLEAN]
    /\ content \in [Files -> 0..MaxChanges] /\ meta \in [Files -> 0..MaxChanges]
    /\ changes \in 0..MaxChanges
    /\ queued \subseteq Files /\ batch \subseteq Files /\ todo \subseteq Files
    /\ overflowed \in BOOLEAN /\ observerAlive \in BOOLEAN /\ ingestFailed \in BOOLEAN
    /\ pc \in {"check", "scan", "choose", "visit", "inspect", "drain", "stop", "done"}
    /\ walk \in Walks \cup {"none"}
    /\ at \in Files \cup {NoFile} /\ seen \in {NoEntry} \cup 0..MaxChanges
    /\ gaps \subseteq Gaps /\ moved \in BOOLEAN
    /\ snapshot \in [Files -> {NoEntry} \cup 0..MaxChanges]
    /\ current \in [Files -> {NoEntry} \cup 0..MaxChanges]
    /\ operational \in BOOLEAN /\ historical \in BOOLEAN /\ persistent \in BOOLEAN
    /\ raised \in {"nothing"} \cup Exceptions
    /\ summary \in {"running", "none", "interrupted", "incomplete", "complete"}
    /\ inspected \in [Files -> {NoEntry} \cup 0..MaxChanges]
    /\ unresolved \subseteq Files /\ drainFailed \subseteq unresolved
    /\ failures \in 0..MaxFailures /\ lost \in BOOLEAN /\ mark \in 0..MaxChanges

(* run has started the observer and the ingest thread and begins the       *)
(* initial metadata inventory of files it has never looked into.           *)
Init ==
    /\ present \in [Files -> BOOLEAN]
    /\ content = [f \in Files |-> 0] /\ meta = [f \in Files |-> 0] /\ changes = 0
    /\ queued = {} /\ overflowed = FALSE /\ observerAlive = TRUE /\ ingestFailed = FALSE
    /\ pc = "visit" /\ batch = {}
    /\ walk = "inventory" /\ todo = Files /\ at = NoFile /\ seen = NoEntry
    /\ gaps = {} /\ moved = FALSE
    /\ snapshot = Empty /\ current = Empty
    /\ operational = FALSE /\ historical = FALSE /\ persistent = FALSE
    /\ raised = "nothing" /\ summary = "running"
    /\ inspected = Empty /\ unresolved = {} /\ drainFailed = {}
    /\ failures = 0 /\ lost = FALSE /\ mark = 0

-----------------------------------------------------------------------------
(* The environment.                                                        *)

(* A living observer reports the change of f: the queue keeps the report,  *)
(* or, when it is full, loses it and raises the alarm.                     *)
Report(f) ==
    \/ observerAlive /\ queued' = queued \cup {f} /\ UNCHANGED <<overflowed, lost>>
    \/ observerAlive /\ queued # {} /\ overflowed' = TRUE /\ lost' = TRUE /\ UNCHANGED queued
    \/ ~observerAlive /\ UNCHANGED <<queued, overflowed, lost>>

Untouched == <<observerAlive, ingestFailed, pc, batch, place, gaps, moved, cache,
               flags, result, inspected, failures, mark>>

(* Somebody writes or creates f, perhaps keeping its old fingerprint.      *)
Write(f, restored) ==
    /\ pc # "done" /\ changes < MaxChanges
    /\ restored => present[f]
    /\ changes' = changes + 1
    /\ present' = [present EXCEPT ![f] = TRUE]
    /\ content' = [content EXCEPT ![f] = changes + 1]
    /\ meta' = IF restored THEN meta ELSE [meta EXCEPT ![f] = changes + 1]
    /\ Report(f)
    /\ UNCHANGED <<Untouched, unresolved, drainFailed>>

Delete(f) ==
    /\ pc # "done" /\ changes < MaxChanges /\ present[f]
    /\ changes' = changes + 1
    /\ present' = [present EXCEPT ![f] = FALSE]
    /\ unresolved' = unresolved \ {f} /\ drainFailed' = drainFailed \ {f}
    /\ Report(f)
    /\ UNCHANGED <<Untouched, content, meta>>

(* Once the loop has ended the observer is stopped anyway.                 *)
ObserverDies ==
    /\ pc \notin {"stop", "done"} /\ observerAlive
    /\ observerAlive' = FALSE
    /\ UNCHANGED <<disk, queued, overflowed, ingestFailed, pc, batch, place, gaps,
                   moved, cache, flags, result, history>>

IngestDies ==
    /\ pc # "done" /\ ~ingestFailed
    /\ ingestFailed' = TRUE
    /\ UNCHANGED <<disk, queued, overflowed, observerAlive, pc, batch, place, gaps,
                   moved, cache, flags, result, history>>

-----------------------------------------------------------------------------
(* Health bookkeeping. A recoverable issue, then one that stays.           *)
Incomplete == operational' = TRUE /\ historical' = TRUE /\ UNCHANGED persistent
Fatal == operational' = TRUE /\ historical' = TRUE /\ persistent' = TRUE

(* What an inspection of f leaves behind when it hashed f, when it could   *)
(* not, and when f was gone. A failure in a drain is one of drainFailed    *)
(* when the walk under way has put, or without opening f will put, its     *)
(* fingerprint into the new map, where the eviction does not reach it.     *)
DoneWith(f) == walk = "inventory" \/ (walk # "none" /\ f \notin todo)
Resolved(f) == unresolved' = unresolved \ {f} /\ drainFailed' = drainFailed \ {f}
Hashed(f) == /\ present[f]
             /\ inspected' = [inspected EXCEPT ![f] = content[f]]
             /\ Resolved(f)
Failed(f) == /\ present[f]
             /\ failures < MaxFailures
             /\ failures' = failures + 1
             /\ unresolved' = unresolved \cup {f}
             /\ drainFailed' = IF pc = "scan" /\ DoneWith(f)
                               THEN drainFailed \cup {f} ELSE drainFailed \ {f}
             /\ UNCHANGED inspected

-----------------------------------------------------------------------------
(* One path of a batch that due returned (_scan_pending, _scan_paths), in  *)
(* the main loop or in a drain: afterwards the loop resumes where it was.  *)
Scanned(f) ==
    /\ pc = "scan" /\ f \in batch
    /\ batch' = batch \ {f}
    /\ pc' = IF batch' # {} THEN "scan" ELSE IF walk = "none" THEN "choose" ELSE "visit"
    /\ UNCHANGED <<disk, intake, place, gaps, current, result, lost, mark>>

(* The file is gone: superseded, its cached fingerprint is evicted.        *)
ScanGone(f) ==
    /\ Scanned(f) /\ ~present[f]
    /\ snapshot' = Evict(snapshot, f)
    /\ Resolved(f)
    /\ UNCHANGED <<moved, flags, inspected, failures>>

ScanHashed(f) ==
    /\ Scanned(f) /\ Hashed(f)
    /\ UNCHANGED <<moved, flags, snapshot, failures>>

(* Unreadable, changed while read, over the size limit or special.         *)
ScanFailed(f) ==
    /\ Scanned(f) /\ Failed(f)
    /\ snapshot' = Evict(snapshot, f)
    /\ Incomplete /\ moved' = TRUE

(* The content matched a rule and quarantine failed or left a copy only.   *)
ScanUnquarantined(f) ==
    /\ Scanned(f) /\ Hashed(f)
    /\ failures < MaxFailures /\ failures' = failures + 1
    /\ Fatal
    /\ UNCHANGED <<moved, snapshot>>

-----------------------------------------------------------------------------
(* Walks (_reconcile). StartWalk: a new, empty map of fingerprints.        *)
StartWalk(kind) ==
    /\ pc = "choose"
    /\ pc' = "visit" /\ walk' = kind /\ todo' = Files
    /\ gaps' = {} /\ moved' = FALSE /\ current' = Empty
    /\ UNCHANGED <<disk, intake, batch, at, seen, snapshot, flags, result, history>>

(* The walk reaches f. *)
Reach(f) ==
    /\ pc = "visit" /\ f \in todo
    /\ todo' = todo \ {f}
    /\ UNCHANGED <<disk, intake, batch, walk, moved, flags, result, inspected, lost, mark>>

(* The directory entry is gone, and with it the path. *)
VisitAbsent(f) ==
    /\ Reach(f) /\ ~present[f]
    /\ UNCHANGED <<pc, at, seen, gaps, cache, unresolved, drainFailed, failures>>

(* lstat fails, or the filter fails before f has a fingerprint.            *)
VisitUnreadable(f) ==
    /\ Reach(f) /\ present[f]
    /\ failures < MaxFailures /\ failures' = failures + 1
    /\ gaps' = gaps \cup {"issue"}
    /\ unresolved' = unresolved \cup {f} /\ drainFailed' = drainFailed \ {f}
    /\ UNCHANGED <<pc, at, seen, cache>>

(* The inventory caches the fingerprint without opening the file.          *)
VisitInventory(f) ==
    /\ Reach(f) /\ present[f] /\ walk = "inventory"
    /\ snapshot' = Evict(snapshot, f)
    /\ current' = [current EXCEPT ![f] = meta[f]]
    /\ pc' = "drain" /\ at' = f
    /\ UNCHANGED <<seen, gaps, unresolved, drainFailed, failures>>

(* Mutants: any cached file counts as unchanged; a full rescan trusts the  *)
(* cache.                                                                  *)
ChangedIfUncached(f) == walk = "full" \/ snapshot[f] = NoEntry
ChangedByMetadata(f) == snapshot[f] # meta[f]

(* Must a reconciliation or a full rescan read the content of f?           *)
Changed(f) == walk = "full" \/ snapshot[f] # meta[f]

(* Its fingerprint is carried over; the heartbeat after it may fail.       *)
VisitUnchanged(f) ==
    /\ Reach(f) /\ present[f] /\ walk # "inventory" /\ ~Changed(f)
    /\ snapshot' = Evict(snapshot, f)
    /\ current' = [current EXCEPT ![f] = meta[f]]
    /\ \/ UNCHANGED <<gaps, failures>>
       \/ failures < MaxFailures /\ failures' = failures + 1 /\ gaps' = gaps \cup {"issue"}
    /\ UNCHANGED <<pc, at, seen, unresolved, drainFailed>>

VisitChanged(f) ==
    /\ Reach(f) /\ present[f] /\ walk # "inventory" /\ Changed(f)
    /\ snapshot' = Evict(snapshot, f)
    /\ pc' = "inspect" /\ at' = f /\ seen' = meta[f]
    /\ UNCHANGED <<gaps, current, unresolved, drainFailed, failures>>

(* The scanner opens the file the walk is at; only a successful hash puts  *)
(* the fingerprint, read before the file was opened, into the new map.     *)
Inspect ==
    /\ pc = "inspect"
    /\ pc' = "drain"
    /\ UNCHANGED <<disk, intake, batch, place, moved, snapshot, flags, result, lost, mark>>

InspectHashed ==
    /\ Inspect /\ Hashed(at)
    /\ current' = [current EXCEPT ![at] = seen]
    /\ UNCHANGED <<gaps, failures>>

InspectUnquarantined ==
    /\ Inspect /\ Hashed(at)
    /\ failures < MaxFailures /\ failures' = failures + 1
    /\ current' = [current EXCEPT ![at] = seen]
    /\ gaps' = gaps \cup {"quarantine"}

InspectFailed ==
    /\ Inspect /\ Failed(at)
    /\ gaps' = gaps \cup {"issue", "unresolved"}
    /\ UNCHANGED current

InspectGone ==
    /\ Inspect /\ ~present[at]
    /\ gaps' = gaps \cup {"unresolved"}
    /\ Resolved(at)
    /\ UNCHANGED <<current, inspected, failures>>

(* drain_priority_events: at most every 0.1 s, take a batch of due paths   *)
(* and scan all of it but the file the walk is at.                         *)
NoDrain ==
    /\ pc = "drain"
    /\ pc' = "visit"
    /\ UNCHANGED <<disk, intake, batch, place, gaps, moved, cache, flags, result, history>>

Drain ==
    /\ pc = "drain"
    /\ \E due \in SUBSET queued \ {{}} :
          /\ queued' = queued \ due
          /\ batch' = due \ {at}
    /\ pc' = IF batch' = {} THEN "visit" ELSE "scan"
    /\ UNCHANGED <<disk, overflowed, observerAlive, ingestFailed, place, gaps, moved,
                   cache, flags, result, history>>

(* An exception in the heartbeat or the drain of a walk, a full disk under *)
(* the evidence log say: the scanner calls both through file_filter and    *)
(* file_observer, makes an issue of any Exception and walks on. The file   *)
(* the filter was asked about is not opened, the rest of the drained batch *)
(* is lost.                                                                *)
CallbackFails ==
    /\ walk # "none" /\ pc \in {"inspect", "drain", "scan"}
    /\ failures < MaxFailures /\ failures' = failures + 1
    /\ pc' = "visit" /\ batch' = {}
    /\ gaps' = gaps \cup {"issue"}
    /\ UNCHANGED <<disk, intake, place, moved, cache, flags, result, inspected,
                   unresolved, drainFailed, lost, mark>>

(* A walk without any gap, during which nothing else went wrong, takes a   *)
(* recoverable incompleteness back.                                        *)
Recovers == /\ walk # "inventory" /\ gaps = {}
            /\ ~overflowed /\ ~ingestFailed /\ ~persistent
            /\ ~moved /\ operational

(* The walk is over: its issues reach the flags, and the new map replaces  *)
(* the old.                                                                *)
EndWalk ==
    /\ pc = "visit" /\ todo = {}
    /\ pc' = "check" /\ walk' = "none" /\ at' = NoFile /\ seen' = NoEntry
    /\ snapshot' = current /\ current' = Empty
    /\ LET issue == gaps \cap {"issue", "quarantine"} # {}
       IN /\ operational' = IF Recovers THEN FALSE ELSE (operational \/ issue)
          /\ historical' = (historical \/ issue)
          /\ persistent' = (persistent \/ "quarantine" \in gaps)
          /\ moved' = (moved \/ "issue" \in gaps)
    /\ mark' = IF walk = "inventory" THEN changes ELSE mark
    /\ gaps' = {}
    /\ UNCHANGED <<disk, intake, batch, todo, result, memory, lost>>

-----------------------------------------------------------------------------
(* The top of the main loop (run).                                         *)
PipelineBroken == ingestFailed \/ overflowed

(* _event_pipeline_is_healthy fails: the loop ends. *)
CheckPipeline ==
    /\ pc = "check" /\ PipelineBroken
    /\ pc' = "stop"
    /\ overflowed' = (overflowed /\ ingestFailed)
    /\ Fatal /\ moved' = TRUE
    /\ UNCHANGED <<disk, queued, observerAlive, ingestFailed, batch, place, gaps, cache,
                   result, history>>

(* The requested duration is over; this is looked at before the observer.  *)
CheckDuration ==
    /\ pc = "check" /\ ~PipelineBroken
    /\ pc' = "stop"
    /\ UNCHANGED <<disk, intake, batch, place, gaps, moved, cache, flags, result, history>>

(* The observer is dead, a root is no longer what it was, or the signed    *)
(* feed changed: the loop ends.                                            *)
CheckFails ==
    /\ pc = "check" /\ ~PipelineBroken
    /\ pc' = "stop"
    /\ Fatal /\ moved' = TRUE
    /\ UNCHANGED <<disk, intake, batch, place, gaps, cache, result, history>>

(* All is well: take what is due.                                          *)
TakeDue ==
    /\ pc = "check" /\ ~PipelineBroken /\ observerAlive
    /\ batch' \in SUBSET queued
    /\ queued' = queued \ batch'
    /\ pc' = IF batch' = {} THEN "choose" ELSE "scan"
    /\ UNCHANGED <<disk, overflowed, observerAlive, ingestFailed, place, gaps, moved,
                   cache, flags, result, history>>

(* No walk is due yet: sleep, and start over.                              *)
Sleep ==
    /\ pc = "choose"
    /\ pc' = "check"
    /\ UNCHANGED <<disk, intake, batch, place, gaps, moved, cache, flags, result, history>>

(* Ctrl+C anywhere before the finally block, or, where CallbackFails does  *)
(* not apply, an exception nothing catches: a full disk under the evidence *)
(* log between two walks, or as a walk that is through is recorded.        *)
Uncaught == walk = "none" \/ (pc = "visit" /\ todo = {})
Interrupt ==
    /\ pc \notin {"stop", "done"}
    /\ pc' = "stop"
    /\ raised' \in {"KeyboardInterrupt"} \cup {e \in {"error"} : Uncaught}
    /\ UNCHANGED <<disk, intake, batch, place, gaps, moved, cache, flags, summary, history>>

(* Mutant: at the end only drops are looked for. *)
BacklogOfDrops == overflowed

(* Paths raw or coalesced when the observer has stopped. *)
Backlog == queued # {}

(* The finally block: stop the producer, look at the pipeline once more,   *)
(* tell of a backlog, and summarise, unless an exception goes on from here.*)
Stop ==
    /\ pc = "stop"
    /\ pc' = "done"
    /\ IF PipelineBroken \/ Backlog THEN Fatal /\ moved' = TRUE ELSE UNCHANGED <<flags, moved>>
    /\ overflowed' = (overflowed /\ ingestFailed)
    /\ summary' = CASE raised = "error" -> "none"
                    [] raised = "KeyboardInterrupt" -> "interrupted"
                    [] OTHER -> IF operational' \/ historical' THEN "incomplete" ELSE "complete"
    /\ UNCHANGED <<disk, queued, observerAlive, ingestFailed, batch, place, gaps, cache,
                   raised, history>>

-----------------------------------------------------------------------------
Environment == \/ \E f \in Files : Delete(f) \/ \E r \in Restored : Write(f, r)
               \/ ObserverDies \/ IngestDies \/ Interrupt

Scan == \E f \in Files : ScanGone(f) \/ ScanHashed(f) \/ ScanFailed(f) \/ ScanUnquarantined(f)

Visit == \E f \in Files : \/ VisitAbsent(f) \/ VisitUnreadable(f) \/ VisitInventory(f)
                          \/ VisitUnchanged(f) \/ VisitChanged(f)

InspectFile == InspectHashed \/ InspectUnquarantined \/ InspectFailed \/ InspectGone

Loop == \/ Scan \/ Visit \/ InspectFile \/ NoDrain \/ Drain \/ CallbackFails \/ EndWalk
        \/ CheckPipeline \/ CheckDuration \/ CheckFails \/ TakeDue
        \/ Sleep \/ StartWalk("reconcile") \/ StartWalk("full") \/ Stop

Next == Environment \/ Loop

(* The loop keeps running, and the full-rescan timer expires again and     *)
(* again. Nothing else is assumed: events need never become due.           *)
Spec == Init /\ [][Next]_vars
FairSpec == Spec /\ WF_vars(Loop) /\ SF_vars(StartWalk("full"))

-----------------------------------------------------------------------------
(* Exit code 0, "no known operational gap": a session that ends complete   *)
(* lost no event, failed no inspection and no quarantine, and left nothing *)
(* queued or half scanned, whatever recovered in between. For that the     *)
(* flags nest: a fatal issue is never forgotten by a recovery, and what is *)
(* incomplete now is remembered for the summary.                           *)
FlagsNested == (persistent => operational) /\ (operational => historical)
SummaryHonest ==
    /\ FlagsNested
    /\ summary = "complete"
       => ~lost /\ failures = 0 /\ queued = {} /\ batch = {} /\ ~ingestFailed

(* Will the walk under way, or the next one, read f again?                 *)
WillReread(f) ==
    IF walk = "none" \/ f \in todo THEN snapshot[f] # meta[f]
    ELSE (pc = "inspect" /\ at = f) \/ current[f] # meta[f]

Covered(f) == inspected[f] = content[f] \/ WillReread(f)

(* No change is forgotten once the initial inventory is over, whatever     *)
(* becomes of its event: the session hashed the content, or the cached     *)
(* fingerprint differs, so that the next reconciliation reads the file.    *)
(* Observer, queue and drains may lose what they like, and inspections and *)
(* callbacks may fail at any point of any walk.                            *)
LateChangesCovered ==
    pc \notin {"stop", "done"} /\ walk # "inventory"
    => \A f \in Files : present[f] /\ content[f] > mark => Covered(f)

(* "Unreadable, unstable, or failed files remain unresolved, are retried,  *)
(* and keep health incomplete": between walks, for failures met by a walk, *)
(* by the main loop, or in a drain before the walk came to the file.       *)
FailuresKeepIncomplete ==
    walk = "none" /\ unresolved \ drainFailed # {} => operational

(* The full rescan bounds how long any content goes unread, even when no   *)
(* event came or the fingerprint was restored, unless the session ends.    *)
EventuallyInspected ==
    \A f \in Files : present[f] /\ inspected[f] # content[f]
                     ~> inspected[f] = content[f] \/ ~present[f] \/ pc = "done"
=============================================================================
