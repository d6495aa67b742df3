----------------------------- MODULE WatchEvidence -----------------------------
(***************************************************************************)
(* What a watch session leaves on disk while it runs                       *)
(* (src/zsec_shield/watch_evidence.py, driven by the records of            *)
(* watcher.py): an append-only event log that rotates through a bounded    *)
(* number of files, and a health file that is replaced as a whole. Every   *)
(* record goes to the log first, then to the health file. The process may  *)
(* be killed, or meet an I/O error, in the middle of either; the next      *)
(* session goes on from the files it finds (watch_lock lets one session    *)
(* run at a time).                                                         *)
(*                                                                         *)
(* Of the watcher, what decides the records is kept: whether the inventory *)
(* is complete, the incomplete flags, the issues it has told already,      *)
(* whether the queue has lost reports, and whether something went wrong    *)
(* during the walk under way. What a walk records from inside the scanner  *)
(* the scanner also answers for: an error there is an issue of the walk,   *)
(* and the session goes on. A log file is a sequence of record numbers;    *)
(* Torn is a part of a record.                                             *)
(***************************************************************************)
EXTENDS Integers, Sequences

CONSTANTS
    MaxBytes, Backups,      \* size of a log file in records, number of older files
    Attempts,               \* how often a health file in use is tried again
    Issues,                 \* the health issues a walk can recover from
    MaxRecords, MaxFaults   \* bounds: records, kills and I/O errors

ASSUME EvidenceAssumption ==
    /\ MaxBytes \in Nat \ {0} /\ Backups \in Nat \ {0}
    /\ Attempts \in Nat /\ "fatal" \notin Issues
    /\ MaxRecords \in Nat /\ MaxFaults \in Nat

VARIABLES
    phase,                  \* of the session
    inventoried, incomplete, persistent, moved,     \* the watcher's flags
    told,                   \* issues that have their record already
    broken,                 \* the queue overflowed, or its ingest thread stopped
    marred,                 \* the walk under way has an issue of a callback
    unwritten,                \* records still to be written
    sink,                   \* where record() is
    shift,                  \* the next file a rotation moves
    tries,                  \* failed replacements of the health file
    operational,            \* operational_state, as the sink has it
    log,                    \* index 0: the current file, i: backup i
    health,                 \* the health file: [number, state]
    acked,                  \* history: records the log has taken
    untold,                 \* history: became incomplete without a record of it
    faults

truth == <<inventoried, incomplete, persistent, moved, told, broken, marred>>
record == <<sink, shift, tries, operational>>
disk == <<log, health>>
evidence == <<phase, truth, unwritten, record, disk, acked, untold, faults>>

Torn == 0
NoFile == << >>
NoHealth == [number |-> 0, state |-> "none"]
Running == {"inventory", "loop", "walk", "ending"}

EvidenceInit ==
    /\ phase = "off"
    /\ inventoried = FALSE /\ incomplete = FALSE /\ persistent = FALSE /\ moved = FALSE
    /\ told = {} /\ broken = FALSE /\ marred = FALSE /\ unwritten = <<>>
    /\ sink = "ready" /\ shift = 0 /\ tries = 0 /\ operational = "starting"
    /\ log = [i \in 0..Backups |-> NoFile] /\ health = NoHealth
    /\ acked = 0 /\ untold = FALSE /\ faults = 0

-----------------------------------------------------------------------------
(* The watcher: what it tells, and of which outcome.                       *)
Record(event, outcome) == [event |-> event, outcome |-> outcome]
Records == [event : {"session_started", "backend_fallback", "scan_completed", "event_superseded",
                     "health_issue", "metadata_inventory_completed", "reconciliation_completed",
                     "health_heartbeat", "session_completed"},
            outcome : Issues \cup {"none", "clean", "incomplete", "whole", "fatal"}]

Heartbeat(flag, whole) == Record("health_heartbeat", IF flag THEN "incomplete"
                                                    ELSE IF whole THEN "whole" ELSE "clean")

Watches(phases) ==
    /\ phase \in phases /\ unwritten = <<>> /\ sink = "ready"
    /\ acked < MaxRecords - 4

(* _health_issue: the flags at once, a record for a new issue only.        *)
IssueRecord(issue) == Record("health_issue", issue)

(* What a process has in memory begins and ends with it.                   *)
Fresh ==
    /\ inventoried' = FALSE /\ incomplete' = FALSE /\ persistent' = FALSE /\ moved' = FALSE
    /\ told' = {} /\ broken' = FALSE /\ marred' = FALSE
    /\ operational' = "starting" /\ untold' = FALSE

StartSession ==
    /\ Watches({"off"})
    /\ phase' = "inventory" /\ Fresh
    /\ unwritten' \in {<<Record("session_started", "none")>>,
                     <<Record("backend_fallback", "none"), Record("session_started", "none")>>}
    /\ UNCHANGED <<sink, shift, tries, disk, acked, faults>>

(* One path, or what became of it: scanned, gone, with issues, not in      *)
(* scope.                                                                  *)
ScanClean ==
    /\ Watches({"inventory", "loop", "walk"})
    /\ unwritten' \in {<<Record("scan_completed", "clean")>>, <<Record("event_superseded", "none")>>}
    /\ UNCHANGED <<phase, truth, record, disk, acked, untold, faults>>

ScanIncomplete ==
    /\ Watches({"inventory", "loop", "walk"})
    /\ incomplete' = TRUE /\ moved' = TRUE
    /\ \E issue \in Issues \cup {"none"} :
           /\ told' = IF issue = "none" THEN told ELSE told \cup {issue}
           /\ unwritten' = IF issue \in told \cup {"none"}
                           THEN <<Record("scan_completed", "incomplete")>>
                           ELSE <<IssueRecord(issue), Record("scan_completed", "incomplete")>>
    /\ UNCHANGED <<phase, inventoried, persistent, broken, marred, record, disk, acked, untold,
                   faults>>

(* A path that cannot be inspected: an issue, and no scan.                 *)
PathUnreadable ==
    /\ Watches({"inventory", "loop", "walk"})
    /\ incomplete' = TRUE /\ moved' = TRUE
    /\ \E issue \in Issues :
           /\ told' = told \cup {issue}
           /\ unwritten' = IF issue \in told THEN <<>> ELSE <<IssueRecord(issue)>>
           /\ untold' = (untold \/ (~incomplete /\ issue \in told))
    /\ UNCHANGED <<phase, inventoried, persistent, broken, marred, record, disk, acked, faults>>

(* A match whose quarantine fails: the flags, and a record that reports    *)
(* the match.                                                              *)
QuarantineFails ==
    /\ Watches({"inventory", "loop", "walk"})
    /\ incomplete' = TRUE /\ persistent' = TRUE
    /\ untold' = (untold \/ ~incomplete)
    /\ unwritten' = <<Record("scan_completed", "clean")>>
    /\ UNCHANGED <<phase, inventoried, moved, told, broken, marred, record, disk, acked, faults>>

(* A walk in which a callback failed has that issue.                       *)
InventoryEnds(issue) ==
    /\ Watches({"inventory"}) /\ (marred => issue)
    /\ phase' = "loop" /\ inventoried' = TRUE /\ marred' = FALSE
    /\ incomplete' = (incomplete \/ issue) /\ moved' = (moved \/ issue)
    /\ unwritten' = <<Record("metadata_inventory_completed", IF issue THEN "incomplete" ELSE "clean")>>
    /\ UNCHANGED <<persistent, told, broken, record, disk, acked, untold, faults>>

WalkStarts ==
    /\ Watches({"loop"})
    /\ phase' = "walk" /\ moved' = FALSE
    /\ UNCHANGED <<inventoried, incomplete, persistent, told, broken, marred, unwritten, record,
                   disk, acked, untold, faults>>

(* A clean walk, during which nothing went wrong, restores coverage.       *)
Recovers(issue) == ~issue /\ ~persistent /\ ~moved /\ ~broken /\ incomplete

WalkEnds(issue) ==
    /\ Watches({"walk"}) /\ (marred => issue)
    /\ phase' = "loop" /\ marred' = FALSE
    /\ incomplete' = IF Recovers(issue) THEN FALSE ELSE incomplete \/ issue
    /\ moved' = (moved \/ issue)
    /\ LET done == Record("reconciliation_completed", IF issue THEN "incomplete" ELSE "clean")
       IN  unwritten' = IF Recovers(issue) THEN <<done, Heartbeat(FALSE, TRUE)>> ELSE <<done>>
    /\ UNCHANGED <<inventoried, persistent, told, broken, record, disk, acked, untold, faults>>

(* A heartbeat of the loop tells of the flag; one of a walk also of what   *)
(* has become of the queue meanwhile.                                      *)
Beat ==
    /\ Watches({"inventory", "loop", "walk"})
    /\ unwritten' = <<Heartbeat(incomplete \/ (broken /\ phase # "loop"), FALSE)>>
    /\ UNCHANGED <<phase, truth, record, disk, acked, untold, faults>>

(* The queue overflows, or its ingest thread stops, while anything else is *)
(* under way. The loop ends when it looks.                                 *)
PipelineBreaks ==
    /\ phase \in {"inventory", "loop", "walk"} /\ ~broken
    /\ broken' = TRUE
    /\ UNCHANGED <<phase, inventoried, incomplete, persistent, moved, told, marred, unwritten,
                   record, disk, acked, untold, faults>>

(* The loop ends: with a fatal issue, or because the time is over. A       *)
(* broken queue is one, found by the loop or after it.                     *)
LoopEnds(fatal) ==
    /\ Watches({"inventory", "loop", "walk"}) /\ (broken => fatal)
    /\ phase' = "ending"
    /\ incomplete' = (incomplete \/ fatal) /\ persistent' = (persistent \/ fatal)
    /\ moved' = (moved \/ fatal)
    /\ unwritten' = IF fatal THEN <<IssueRecord("fatal")>> ELSE <<>>
    /\ UNCHANGED <<inventoried, told, broken, marred, record, disk, acked, untold, faults>>

Completes ==
    /\ phase = "ending" /\ unwritten = <<>> /\ sink = "ready"
    /\ phase' = "over"
    /\ unwritten' = <<Record("session_completed", "none")>>
    /\ UNCHANGED <<truth, record, disk, acked, untold, faults>>

SessionOver ==
    /\ phase = "over" /\ unwritten = <<>> /\ sink = "ready"
    /\ phase' = "off" /\ Fresh
    /\ UNCHANGED <<unwritten, sink, shift, tries, disk, acked, faults>>

-----------------------------------------------------------------------------

(* RotatingNdjsonLog.append. A record that fits the limit but not the      *)
(* current file makes it rotate first.                                     *)
Rotates == Len(log[0]) > 0 /\ Len(log[0]) + 1 > MaxBytes

AppendBegins ==
    /\ sink = "ready" /\ unwritten # <<>>
    /\ sink' = IF Rotates THEN "unlink" ELSE "write"
    /\ UNCHANGED <<phase, truth, unwritten, shift, tries, operational, disk, acked, untold, faults>>

Unlink ==
    /\ sink = "unlink"
    /\ log' = [log EXCEPT ![Backups] = NoFile]
    /\ sink' = "rotate" /\ shift' = Backups - 1
    /\ UNCHANGED <<phase, truth, unwritten, tries, operational, health, acked, untold, faults>>

(* Mutant: the files are moved in the other direction.                     *)
RotateUpwards ==
    /\ sink = "rotate"
    /\ LET i == Backups - 1 - shift
       IN  IF log[i] = NoFile THEN UNCHANGED log
           ELSE log' = [log EXCEPT ![i + 1] = log[i], ![i] = NoFile]
    /\ IF shift = 0 THEN sink' = "write" /\ UNCHANGED shift
       ELSE shift' = shift - 1 /\ UNCHANGED sink
    /\ UNCHANGED <<phase, truth, unwritten, tries, operational, health, acked, untold, faults>>

(* Backup i, if there is one, becomes backup i + 1; last the current file. *)
Rotate ==
    /\ sink = "rotate"
    /\ IF log[shift] = NoFile THEN UNCHANGED log
       ELSE log' = [log EXCEPT ![shift + 1] = log[shift], ![shift] = NoFile]
    /\ IF shift = 0 THEN sink' = "write" /\ UNCHANGED shift
       ELSE shift' = shift - 1 /\ UNCHANGED sink
    /\ UNCHANGED <<phase, truth, unwritten, tries, operational, health, acked, untold, faults>>

Write ==
    /\ sink = "write"
    /\ log' = [log EXCEPT ![0] = Append(@, acked + 1)]
    /\ acked' = acked + 1
    /\ sink' = "health"
    /\ UNCHANGED <<phase, truth, unwritten, shift, tries, operational, health, untold, faults>>

-----------------------------------------------------------------------------
(* Mutants: the inventory erases what went wrong meanwhile; no heartbeat   *)
(* restores health.                                                        *)
StateAfterForgetful(state, r) ==
    CASE r.event = "session_started" -> "inventorying_metadata"
      [] r.event = "health_issue" \/ r.outcome = "incomplete" -> "degraded"
      [] r.event = "metadata_inventory_completed" -> "healthy"
      [] r.event = "health_heartbeat" /\ r.outcome = "whole" -> "healthy"
      [] r.event = "session_completed" -> "stopped"
      [] OTHER -> state

(* What a record makes of the operational_state.                           *)
StateAfter(state, r) ==
    CASE r.event = "session_started" -> "inventorying_metadata"
      [] r.event = "health_issue" -> "degraded"
      [] r.event \in {"scan_completed", "reconciliation_completed"} /\ r.outcome = "incomplete"
            -> "degraded"
      [] r.event = "metadata_inventory_completed" ->
            IF r.outcome = "incomplete" \/ state = "degraded" THEN "degraded" ELSE "healthy"
      [] r.event = "health_heartbeat" /\ r.outcome = "incomplete" -> "degraded"
      [] r.event = "health_heartbeat" /\ r.outcome = "whole" -> "healthy"
      [] r.event = "session_completed" -> "stopped"
      [] OTHER -> state

(* A superseded event is in the log only.                                  *)
HealthSkipped ==
    /\ sink = "health" /\ Head(unwritten).event = "event_superseded"
    /\ sink' = "ready" /\ unwritten' = Tail(unwritten)
    /\ UNCHANGED <<phase, truth, shift, tries, operational, disk, acked, untold, faults>>

HealthWritten ==
    /\ sink = "health" /\ Head(unwritten).event # "event_superseded"
    /\ operational' = StateAfter(operational, Head(unwritten))
    /\ health' = [number |-> acked, state |-> operational']
    /\ untold' = (untold /\ Head(unwritten).event # "health_heartbeat")
    /\ sink' = "ready" /\ tries' = 0 /\ unwritten' = Tail(unwritten)
    /\ UNCHANGED <<phase, truth, shift, log, acked, faults>>

(* A reader has the file open (Windows): try again, a bounded number of    *)
(* times. (Mutant: one time more.)                                         *)
HealthBusyForever ==
    /\ sink = "health" /\ Head(unwritten).event # "event_superseded" /\ tries <= Attempts
    /\ tries' = tries + 1
    /\ UNCHANGED <<phase, truth, unwritten, sink, shift, operational, disk, acked, untold, faults>>

HealthBusy ==
    /\ sink = "health" /\ Head(unwritten).event # "event_superseded" /\ tries < Attempts
    /\ tries' = tries + 1
    /\ UNCHANGED <<phase, truth, unwritten, sink, shift, operational, disk, acked, untold, faults>>

Dies == unwritten' = <<>> /\ sink' = "ready" /\ shift' = 0 /\ tries' = 0 /\ faults' = faults + 1

(* The process is killed at any step, perhaps with a record half written.  *)
Killed ==
    /\ phase # "off" /\ faults < MaxFaults
    /\ Dies /\ phase' = "off" /\ Fresh
    /\ log' \in {log} \cup (IF sink = "write" THEN {[log EXCEPT ![0] = Append(@, Torn)]} ELSE {})
    /\ UNCHANGED <<health, acked>>

(* An exception from record(): an I/O error, or an interrupt. An fsync     *)
(* that fails leaves a whole record, and the state as it was. What becomes *)
(* of the session depends on where record() was called:                    *)
(*  - a walk records from the scanner's callbacks, and the scanner turns   *)
(*    an error there into an issue and walks on, with the records of that  *)
(*    step unwritten and a health file that is not up to date;             *)
(*  - elsewhere an error ends the session without session_completed, after *)
(*    it has stopped the observer and perhaps told of a backlog; what fails*)
(*    in those last steps, or before the loop's try, ends it at once;      *)
(*  - an interrupt ends it in order, wherever the loop is.                 *)
Started == operational # "starting"

Swallowed ==
    /\ phase \in {"inventory", "walk"} /\ Started
    /\ marred' = TRUE /\ untold' = (untold \/ incomplete)
    /\ UNCHANGED <<phase, inventoried, incomplete, persistent, moved, told, broken>>
    /\ unwritten' = <<>>

EndsSession ==
    /\ phase' = "over" \/ (phase' = "ending" /\ phase \in Running \ {"ending"} /\ Started)
    /\ phase \in {"inventory", "walk"} /\ Started => phase' = "ending"
    /\ unwritten' \in {<<>>} \cup
           (IF phase \in Running /\ Started THEN {<<IssueRecord("fatal")>>} ELSE {})
    /\ incomplete' = (incomplete \/ unwritten' # <<>>)
    /\ persistent' = (persistent \/ unwritten' # <<>>)
    /\ UNCHANGED <<inventoried, moved, told, broken, marred, untold>>

WriteFails ==
    /\ sink # "ready" /\ faults < MaxFaults
    /\ sink' = "ready" /\ shift' = 0 /\ tries' = 0 /\ faults' = faults + 1
    /\ operational' \in {operational} \cup
           (IF sink = "health" THEN {StateAfter(operational, Head(unwritten))} ELSE {})
    /\ log' \in {log} \cup (IF sink = "write" THEN {[log EXCEPT ![0] = Append(@, Torn)]} ELSE {})
    /\ Swallowed \/ EndsSession
    /\ UNCHANGED <<health, acked>>

Watcher ==
    \/ StartSession \/ ScanClean \/ ScanIncomplete \/ PathUnreadable \/ QuarantineFails
    \/ \E issue \in BOOLEAN : InventoryEnds(issue) \/ WalkEnds(issue) \/ LoopEnds(issue)
    \/ WalkStarts \/ Beat \/ Completes \/ SessionOver

Sink ==
    \/ AppendBegins \/ Unlink \/ Rotate \/ Write
    \/ HealthSkipped \/ HealthWritten \/ HealthBusy

EvidenceNext == Watcher \/ PipelineBreaks \/ Sink \/ Killed \/ WriteFails

EvidenceSpec == EvidenceInit /\ [][EvidenceNext]_evidence

-----------------------------------------------------------------------------
States == {"starting", "inventorying_metadata", "healthy", "degraded", "stopped"}

EvidenceTypes ==
    /\ phase \in Running \cup {"over", "off"}
    /\ inventoried \in BOOLEAN /\ incomplete \in BOOLEAN /\ persistent \in BOOLEAN
    /\ moved \in BOOLEAN /\ untold \in BOOLEAN /\ broken \in BOOLEAN /\ marred \in BOOLEAN
    /\ told \subseteq Issues
    /\ unwritten \in Seq(Records)
    /\ sink \in {"ready", "unlink", "rotate", "write", "health"}
    /\ shift \in 0..(Backups - 1) /\ tries \in 0..Attempts
    /\ operational \in States /\ health.state \in States \cup {"none"}
    /\ health.number \in 0..acked /\ acked \in 0..MaxRecords /\ faults \in 0..MaxFaults
    /\ log \in [0..Backups -> Seq(0..acked)]

(* No file grows beyond the limit, whatever a dead session left at its end.*)
LogBounded == \A i \in 0..Backups : Len(log[i]) <= MaxBytes

(* All of record n is still in one of the files. (After a torn one it      *)
(* shares its line, and a reader has to part them.)                        *)
IsKept(n) == \E i \in 0..Backups : \E p \in 1..Len(log[i]) : log[i][p] = n

(* Of two records, the one in the older file, or earlier in the same file, *)
(* was written first.                                                      *)
InOrder ==
    \A i \in 0..Backups, j \in 0..Backups :
        \A p \in 1..Len(log[i]), q \in 1..Len(log[j]) :
            /\ i > j \/ (i = j /\ p < q)
            /\ log[i][p] # Torn /\ log[j][q] # Torn
            => log[i][p] < log[j][q]

(* However often a rotation or a write was cut short, only the oldest      *)
(* records are gone: what the log took after a record it still has, it     *)
(* still has.                                                              *)
OnlyOldestGone ==
    \A n \in 1..acked : (\E m \in 1..n : IsKept(m)) => IsKept(n)

(* The newest record is there, unless so many records were torn since that *)
(* they fill a file, and a rotation was cut short for every further        *)
(* backup: a torn record takes its place in a file.                        *)
NewestIsKept ==
    acked > 0 /\ faults < MaxBytes + Backups - 1 => IsKept(acked)

(* Without faults, records are removed only when the files are full.       *)
RetainsWhatFits ==
    faults = 0 /\ acked <= Backups * MaxBytes => \A n \in 1..acked : IsKept(n)

AtRest == phase \in {"inventory", "loop", "walk"} /\ unwritten = <<>> /\ sink = "ready"

(* The health file says healthy only after the inventory, and while the    *)
(* session is incomplete only if it became so without a record (a failed   *)
(* quarantine, an issue that was told before, a record the scanner's       *)
(* callback could not write) since the last heartbeat.                     *)
HealthyIsTold ==
    AtRest /\ health.state = "healthy" => inventoried /\ (incomplete => untold)

(* It says degraded only while the session is incomplete or its queue has  *)
(* lost reports: what a reconciliation has recovered is told at once.      *)
DegradedIsTrue == AtRest /\ health.state = "degraded" => incomplete \/ broken

(* The log survives any rotation that is cut short: bounded, in order, and *)
(* without a loss that its limit does not force.                           *)
LogIsSound ==
    LogBounded /\ InOrder /\ OnlyOldestGone /\ NewestIsKept /\ RetainsWhatFits

(* The health file says neither too much nor too little.                   *)
HealthIsTrue == HealthyIsTold /\ DegradedIsTrue
=============================================================================
