---------------------------- MODULE DesktopTasks ----------------------------
(***************************************************************************)
(* The background work of the desktop application (zsec_desktop/app.py).   *)
(* Everything slow is an operation on a pool of threads that runs one      *)
(* command of the engine, or one script of Windows, through the bridge;    *)
(* its result is posted to the Tk thread and handled there. Handlers may   *)
(* submit further operations. The answers are those of EngineDocuments and *)
(* CompanionDocuments. Monitoring sessions are in DesktopMonitor.          *)
(*                                                                         *)
(* One job stands for all whose handlers only fill a panel ("panel"): the  *)
(* readiness decision, the entries of the vault, the reports, one report,  *)
(* the recovery drill. Where they are read beside the status, the status   *)
(* stands for them. Labels are left out but for those that a property      *)
(* reads. Modal questions are steps of their own where something else can  *)
(* happen meanwhile (dialog).                                              *)
(***************************************************************************)
EXTENDS EngineDocuments, CompanionDocuments

CONSTANTS
    Workers,                        \* max_workers of the executor: 4 in the code
    Store,                          \* store_managed: the edition that maintains itself
    MaxScans, MaxActs, MaxFaults,   \* bounds: scans, what the user does, what goes wrong
    Crowd                           \* bound: how much else is under way when the user acts

ASSUME TasksAssumption ==
    Workers \in Nat \ {0} /\ Store \in BOOLEAN /\ {MaxScans, MaxActs, MaxFaults, Crowd} \subseteq Nat

VARIABLES
    closing, started,               \* closing; the first refresh is over
    queue, running, ready, busy,    \* the executor's queue and threads, the posted results,
                                    \* busy_operations
    scanEvent, cancelled, scans,    \* scan_cancel (0: None), the events set, events made
    dialog, panel,                  \* the question before a scan, scan_result_label
    lastScan,                       \* the summary file
    scanCard, windowsCard,
    statusResolved, companionResolved, deadline,
    latestStatus, latestCompanion,  \* there is a payload to export
    inflight,                       \* companion_refresh_inflight
    buttons,                        \* the Windows actions can be clicked
    maintaining, hour,              \* windows_maintenance_inflight, the last attempt
    lost,                           \* history: the last scan to begin met another
    old,                            \* history: the last reading of the status may be old
    acts, faults

executor == <<queue, running, ready, busy>>
scanning == <<scanEvent, cancelled, scans, dialog, panel, lost>>
statusView == <<scanCard, statusResolved, latestStatus>>
companionView == <<windowsCard, companionResolved, latestCompanion, buttons>>
upkeep == <<maintaining, hour>>
life == <<closing, started>>
counts == <<acts, faults>>
vars == <<executor, scanning, statusView, companionView, inflight, upkeep, life, deadline,
          lastScan, old, counts>>

Kinds == {"status", "companion", "scan", "action", "maintain", "intelligence", "feed",
          "restore", "panel"}
Job(kind) == [kind |-> kind, n |-> 0, phase |-> "waits"]
Posted(job, answer, due) ==
    [kind |-> job.kind, n |-> job.n, answer |-> answer, due |-> due]
Threads == 1..Workers
Idle == [kind |-> "none", n |-> 0, phase |-> "idle"]
Working == {t \in Threads : running[t] # Idle}

(* The operations of a kind that are under way: waiting, run, or posted.   *)
Count(jobs, kind) == Cardinality({i \in DOMAIN jobs : jobs[i].kind = kind})
Pending(kind) == Count(queue, kind) + Count(running, kind) + Count(ready, kind)
UnderWay == Len(queue) + Cardinality(Working) + Len(ready)

Init ==
    /\ closing = FALSE /\ started = FALSE
    /\ queue = <<>> /\ running = [t \in Threads |-> Idle] /\ ready = <<>> /\ busy = 0
    /\ scanEvent = 0 /\ cancelled = {} /\ scans = 0 /\ dialog = FALSE /\ panel = "idle"
    /\ lastScan = Nothing
    /\ scanCard = "checking" /\ windowsCard = "checking"
    /\ statusResolved = FALSE /\ companionResolved = FALSE /\ deadline = TRUE
    /\ latestStatus = FALSE /\ latestCompanion = FALSE
    /\ inflight = FALSE /\ buttons = TRUE
    /\ maintaining = FALSE /\ hour = "never"
    /\ lost = FALSE /\ old = FALSE
    /\ acts = 0 /\ faults = 0

-----------------------------------------------------------------------------
(* _run_async, for the operations that one handler submits.                *)
Enqueues(jobs, done) ==
    /\ queue' = queue \o jobs
    /\ busy' = busy + Len(jobs) - done
(* Of two readings under way the older may answer last. One that is begun  *)
(* with no other under way is not old.                                     *)
Submits(jobs, done) ==
    /\ Enqueues(jobs, done)
    /\ old' = IF \E i \in 1..Len(jobs) : jobs[i].kind = "status" THEN Pending("status") > 0 ELSE old

StatusJob == <<Job("status")>>
PanelJob == <<Job("panel")>>
(* refresh_companion: nothing while one is under way. As no two ever are,  *)
(* the generation that their answers carry is left out.                    *)
CompanionJob == IF inflight THEN <<>> ELSE <<Job("companion")>>
AsksCompanion == inflight' = TRUE

(* An idle thread takes the next job. A scan reads scan_cancel only now,   *)
(* and its assertion fails when another scan has cleared it.               *)
Resolve(job) == [job EXCEPT !.phase = "runs", !.n = IF job.kind = "scan" THEN scanEvent ELSE 0]
Start ==
    /\ queue # <<>> /\ queue' = Tail(queue)
    /\ \E t \in Threads :
          running[t] = Idle /\ running' = [running EXCEPT ![t] = Resolve(Head(queue))]
    /\ UNCHANGED <<ready, busy, scanning, statusView, companionView, inflight, upkeep, life,
                   deadline, lastScan, old, counts>>

(* The operation of thread t goes on, or ends: its result is posted unless *)
(* the window closes.                                                      *)
Changes(t, phase) ==
    /\ running' = [running EXCEPT ![t].phase = phase]
    /\ UNCHANGED <<queue, ready, busy, scanning, statusView, companionView, inflight, upkeep, life,
                   deadline, old, acts>>
Ends(t, answer, due) ==
    /\ running' = [running EXCEPT ![t] = Idle]
    /\ ready' = IF closing THEN ready ELSE Append(ready, Posted(running[t], answer, due))
    /\ UNCHANGED <<queue, busy, scanning, statusView, companionView, inflight, upkeep, life,
                   deadline, old, acts>>

Runs(kind) == {t \in Threads : running[t].kind = kind /\ running[t].phase = "runs"}

(* status reads the summary, and answers later.                            *)
StatusReads ==
    \E t \in Runs("status") :
        /\ LET a == StatusAnswer(lastScan, "valid", 0, 0, Nothing) IN
           Changes(t, IF AcceptsStatus(a) THEN StatusPresentation(a.doc) ELSE "failed")
        /\ UNCHANGED <<lastScan, faults>>

(* A scan saves its summary, and answers later.                            *)
Samples ==
    {s \in Scans : s.feed = "valid" /\ s.failed = 0 /\ s.observations + s.issues = 0
                   /\ s.findings <= 1}
ScanSaves ==
    \E t \in Runs("scan"), s \in Samples :
        /\ running[t].n # 0
        /\ lastScan' = LastScan(s)
        /\ LET a == CheckAnswer(s, TRUE) IN
           Changes(t, IF AcceptsReport(a) THEN ScanRunPresentation(a.doc) ELSE "failed")
        /\ UNCHANGED faults

AnswerEnds ==
    \E t \in Working :
        /\ running[t].phase \notin {"runs", "hangs"}
        /\ Ends(t, running[t].phase, FALSE)
        /\ UNCHANGED <<lastScan, faults>>

(* The scan cannot save the summary; or it is cancelled: the engine is     *)
(* terminated, before or after the summary.                                *)
ScanUnsaved ==
    \E t \in Runs("scan") :
        /\ running[t].n # 0 /\ faults < MaxFaults /\ faults' = faults + 1
        /\ Ends(t, "incomplete", FALSE)
        /\ UNCHANGED lastScan

ScanStops ==
    \E t \in Threads :
        /\ running[t].kind = "scan" /\ (running[t].n = 0 \/ running[t].n \in cancelled)
        /\ Ends(t, "failed", FALSE)
        /\ UNCHANGED <<lastScan, faults>>

(* What the companion's script may find at any time.                       *)
Supervision == [aggregate |-> "good", installed |-> "yes", supervisor |-> "run_value",
                hashes |-> TRUE, heartbeat |-> "read", schema |-> TRUE, fresh |-> TRUE,
                process |-> TRUE, session |-> "healthy"]
Old == DefenderEvidence([available |-> TRUE, features |-> Features, outdated |-> "yes",
            material |-> TRUE, breaks |-> FALSE, tamper |-> "enabled", reboot |-> "no",
            documented |-> TRUE])
Found ==
    {Companion(Supervision, Old), Companion([Supervision EXCEPT !.aggregate = "bad"], Good),
     Companion([Supervision EXCEPT !.supervisor = "task_running"], Good)}
CompanionEnds ==
    \E t \in Runs("companion"), p \in Found :
        /\ IF ValidCompanion(p)
           THEN Ends(t, WindowsCard(p), Maintainable(p))
           ELSE Ends(t, "failed", FALSE)
        /\ UNCHANGED <<lastScan, faults>>

OtherEnds ==
    \E kind \in {"action", "maintain", "intelligence", "feed", "restore", "panel"} :
    \E t \in Runs(kind) :
        /\ Ends(t, "done", FALSE)
        /\ UNCHANGED <<lastScan, faults>>

(* A command fails: it does not start, its answer is not accepted, or it   *)
(* hangs, and is killed when its time is over.                             *)
Fail ==
    \E t \in Working :
        /\ faults < MaxFaults /\ faults' = faults + 1
        /\ running[t].phase # "hangs"
        /\ Ends(t, "failed", FALSE)
        /\ UNCHANGED lastScan

Hang ==
    \E t \in Working :
        /\ faults < MaxFaults /\ faults' = faults + 1
        /\ running[t].phase = "runs"
        /\ Changes(t, "hangs")
        /\ UNCHANGED lastScan

TimesOutNever(t) == FALSE                \* (mutation: it waits for the process without a limit)
TimesOut(t) == running[t].phase = "hangs"
Expire ==
    \E t \in Threads :
        /\ TimesOut(t)
        /\ Ends(t, "failed", FALSE)
        /\ UNCHANGED <<lastScan, faults>>

-----------------------------------------------------------------------------
(* deliver, on the Tk thread: the next posted result, by its kind.         *)
Resolved == deadline' = (deadline /\ ~(statusResolved' /\ companionResolved'))

Exported(a) == a.answer # "failed"
StatusDelivered(a) ==
    /\ scanCard' = a.answer
    /\ latestStatus' = Exported(a) /\ statusResolved' = TRUE
    /\ UNCHANGED companionView
    /\ Resolved
    /\ Submits(<<>>, 1)
    /\ UNCHANGED <<scanning, inflight, upkeep>>

(* _finish_companion_refresh.                                              *)
FinishRefreshNever == UNCHANGED inflight \* (mutation: the flag stays up)
FinishRefresh == inflight' = FALSE

MayMaintain(a) == Store /\ a.due /\ ~maintaining /\ hour # "recent"
CompanionRendered(a) ==
    /\ FinishRefresh
    /\ a.answer # "failed"
    /\ windowsCard' = a.answer
    /\ latestCompanion' = TRUE /\ companionResolved' = TRUE /\ buttons' = TRUE
    /\ UNCHANGED statusView
    /\ Resolved
    /\ IF MayMaintain(a)
       THEN Submits(<<Job("maintain")>>, 1) /\ maintaining' = TRUE /\ hour' = "recent"
       ELSE Submits(<<>>, 1) /\ UNCHANGED <<maintaining, hour>>
    /\ UNCHANGED scanning

CompanionFailed(a) ==
    /\ a.answer = "failed"
    /\ FinishRefresh
    /\ windowsCard' = "unavailable"
    /\ latestCompanion' = FALSE /\ companionResolved' = TRUE /\ buttons' = FALSE
    /\ UNCHANGED statusView
    /\ Resolved
    /\ Submits(<<>>, 1)
    /\ UNCHANGED <<scanning, upkeep>>

ScanCompleteOnly(a) ==                  \* (mutation: the status is not read again)
    /\ a.answer # "failed"
    /\ scanEvent' = 0 /\ panel' = a.answer
    /\ Submits(<<>>, 1)
    /\ UNCHANGED <<cancelled, scans, dialog, lost, statusView, companionView, inflight, upkeep,
                   deadline>>
ScanComplete(a) ==
    /\ a.answer # "failed"
    /\ scanEvent' = 0 /\ panel' = a.answer
    /\ Submits(StatusJob, 1)
    /\ UNCHANGED <<cancelled, scans, dialog, lost, statusView, companionView, inflight, upkeep,
                   deadline>>

(* The scan may have saved its summary; the status is not read again.      *)
ScanFailed(a) ==
    /\ a.answer = "failed"
    /\ scanEvent' = 0 /\ panel' = "failed"
    /\ Enqueues(<<>>, 1) /\ old' = TRUE
    /\ UNCHANGED <<cancelled, scans, dialog, lost, statusView, companionView, inflight, upkeep,
                   deadline>>

ActionDelivered ==
    /\ Submits(CompanionJob, 1) /\ AsksCompanion
    /\ UNCHANGED <<scanning, statusView, companionView, upkeep, deadline>>

MaintenanceFinished(a) ==
    /\ maintaining' = FALSE
    /\ IF a.answer = "done" THEN Submits(CompanionJob, 1) /\ AsksCompanion
       ELSE Submits(<<>>, 1) /\ UNCHANGED inflight
    /\ UNCHANGED <<scanning, statusView, companionView, hour, deadline>>

IntelligenceFinished ==
    /\ Submits(StatusJob, 1)
    /\ UNCHANGED <<scanning, statusView, companionView, inflight, upkeep, deadline>>

(* A new feed is shown by status, a restored file by the vault's list.     *)
FileDelivered(a) ==
    /\ Submits(IF a.answer = "failed" THEN <<>>
               ELSE CASE a.kind = "feed" -> StatusJob [] a.kind = "restore" -> PanelJob
                      [] OTHER -> <<>>, 1)
    /\ UNCHANGED <<scanning, statusView, companionView, inflight, upkeep, deadline>>

Deliver ==
    /\ ~closing /\ ready # <<>>
    /\ ready' = Tail(ready)
    /\ LET a == Head(ready) IN
       \/ a.kind = "status" /\ StatusDelivered(a)
       \/ a.kind = "companion" /\ (CompanionRendered(a) \/ CompanionFailed(a))
       \/ a.kind = "scan" /\ (ScanComplete(a) \/ ScanFailed(a))
       \/ a.kind = "action" /\ ActionDelivered
       \/ a.kind = "maintain" /\ MaintenanceFinished(a)
       \/ a.kind = "intelligence" /\ IntelligenceFinished
       \/ a.kind \in {"feed", "restore", "panel"} /\ FileDelivered(a)
    /\ UNCHANGED <<running, life, lastScan, counts>>

-----------------------------------------------------------------------------
(* Timers and the user. A modal question leaves only the tray and timers.  *)
(* A bound: besides operations that take long and are running, at most     *)
(* Crowd others wait, run or are to be delivered when they come.           *)
Long == {"scan", "action", "maintain", "intelligence"}
Act ==
    /\ ~closing /\ acts < MaxActs /\ acts' = acts + 1
    /\ UnderWay <= Cardinality({t \in Working : running[t].kind \in Long}) + Crowd
Untouched == UNCHANGED <<running, ready, closing, lastScan, faults>>

(* refresh_all, shortly after the start and by its button.                 *)
RefreshesAll ==
    /\ Submits(StatusJob \o CompanionJob, 0)
    /\ AsksCompanion
    /\ UNCHANGED <<scanning, statusView, companionView, upkeep, deadline>>

FirstRefresh ==
    /\ ~closing /\ ~started /\ started' = TRUE
    /\ RefreshesAll
    /\ Untouched /\ UNCHANGED acts

ClickRefresh == started /\ ~dialog /\ Act /\ RefreshesAll /\ Untouched /\ UNCHANGED started

(* _startup_evidence_deadline, 10 seconds after the start.                 *)
Waiting(card, resolved) == IF resolved THEN card ELSE "slow"
Deadline ==
    /\ ~closing /\ started /\ deadline /\ deadline' = FALSE
    /\ scanCard' = Waiting(scanCard, statusResolved)
    /\ windowsCard' = Waiting(windowsCard, companionResolved)
    /\ UNCHANGED <<executor, scanning, statusResolved, latestStatus, companionResolved,
                   latestCompanion, buttons, inflight, upkeep, life, lastScan, old, counts>>

(* _periodic_companion_refresh, every 90 seconds after the start.          *)
Periodic ==
    /\ started /\ ~deadline /\ Act
    /\ Submits(CompanionJob, 0) /\ AsksCompanion
    /\ Untouched
    /\ UNCHANGED <<scanning, statusView, companionView, upkeep, deadline, started>>

(* _refresh_store_intelligence: its timer is set again when it is over.    *)
RefreshIntelligence ==
    /\ Store /\ started /\ Pending("intelligence") = 0 /\ Act
    /\ Submits(<<Job("intelligence")>>, 0)
    /\ Untouched
    /\ UNCHANGED <<scanning, statusView, companionView, inflight, upkeep, deadline, started>>

(* An hour after the last attempt of _maintain_windows_protection_if_due.  *)
HourPasses ==
    /\ hour = "recent" /\ hour' = "old" /\ Act
    /\ Untouched
    /\ UNCHANGED <<queue, busy, old, scanning, statusView, companionView, inflight, maintaining,
                   deadline, started>>

(* _begin_scan: it makes a new event, whatever scan_cancel holds.          *)
Begins ==
    /\ scans < MaxScans /\ scans' = scans + 1
    /\ scanEvent' = scans' /\ panel' = "active"
    /\ lost' = (Pending("scan") > 0)
    /\ Submits(<<Job("scan")>>, 0)
    /\ Untouched
    /\ UNCHANGED <<cancelled, statusView, companionView, inflight, upkeep, deadline, started>>

(* The start button is off while a scan is shown.                          *)
CanClick == started /\ ~dialog /\ panel \notin {"active", "cancelling"}
ClickScan == CanClick /\ Act /\ Begins /\ UNCHANGED dialog
ClickScanQuarantine ==
    /\ CanClick /\ Act /\ dialog' = TRUE
    /\ Untouched
    /\ UNCHANGED <<queue, busy, old, scanEvent, cancelled, scans, panel, lost, statusView,
                   companionView, inflight, upkeep, deadline, started>>
AnswerYes == dialog /\ dialog' = FALSE /\ Begins /\ UNCHANGED acts
AnswerNo ==
    /\ dialog /\ dialog' = FALSE
    /\ Untouched
    /\ UNCHANGED <<queue, busy, old, scanEvent, cancelled, scans, panel, lost, statusView,
                   companionView, inflight, upkeep, deadline, started, acts>>
TrayScan == started /\ scanEvent = 0 /\ Act /\ Begins /\ UNCHANGED dialog

CancelScan ==
    /\ scanEvent # 0 /\ ~dialog /\ Act
    /\ cancelled' = cancelled \cup {scanEvent} /\ panel' = "cancelling"
    /\ Untouched
    /\ UNCHANGED <<queue, busy, old, scanEvent, scans, dialog, lost, statusView, companionView,
                   inflight, upkeep, deadline, started>>

(* _run_windows_protection_action: an update or a scan of Defender.        *)
ClickAction ==
    /\ started /\ ~dialog /\ buttons /\ Act
    /\ buttons' = FALSE
    /\ Submits(<<Job("action")>>, 0)
    /\ Untouched
    /\ UNCHANGED <<scanning, statusView, windowsCard, companionResolved,
                   latestCompanion, inflight, upkeep, deadline, started>>

(* A signed feed, a restore, a report or the recovery drill.               *)
ClickFile ==
    /\ started /\ ~dialog /\ Act
    /\ \E kind \in {"feed", "restore", "panel"} : Submits(<<Job(kind)>>, 0)
    /\ Untouched
    /\ UNCHANGED <<scanning, statusView, companionView, inflight, upkeep, deadline, started>>

(* _exit_application: queued jobs are cancelled, running ones are not, but *)
(* a scan is told to stop. Nothing is delivered any more.                  *)
CancelsAny == cancelled' = cancelled \cup {scanEvent}      \* (mutation: None is not tested for)
CancelsScan == cancelled' = IF scanEvent = 0 THEN cancelled ELSE cancelled \cup {scanEvent}
Exit ==
    /\ ~closing /\ closing' = TRUE
    /\ CancelsScan
    /\ queue' = <<>> /\ ready' = <<>> /\ dialog' = FALSE /\ deadline' = FALSE
    /\ UNCHANGED <<running, busy, scanEvent, scans, panel, lost, statusView, companionView, inflight,
                   upkeep, started, lastScan, old, counts>>

Engine == \/ StatusReads \/ ScanSaves \/ AnswerEnds \/ ScanUnsaved \/ ScanStops \/ CompanionEnds
          \/ OtherEnds \/ Fail \/ Hang \/ Expire
User == \/ ClickRefresh \/ ClickScan \/ ClickScanQuarantine \/ AnswerYes \/ AnswerNo
        \/ TrayScan \/ CancelScan \/ ClickAction \/ ClickFile \/ Exit
Timers == FirstRefresh \/ Deadline \/ Periodic \/ RefreshIntelligence \/ HourPasses
Next == Start \/ Engine \/ Deliver \/ User \/ Timers

(* The pool, the commands, the clock of those that hang and the Tk loop go *)
(* on; nothing makes the user or the timers act.                           *)
Work == \/ Start \/ StatusReads \/ ScanSaves \/ AnswerEnds \/ ScanStops \/ CompanionEnds \/ OtherEnds
        \/ Expire \/ Deliver
Spec == Init /\ [][Next]_vars /\ WF_vars(Work)

-----------------------------------------------------------------------------
Shows == {"no_matches", "review", "matches", "incomplete", "not_run", "unavailable"}
Numbers == 0..MaxScans
Reads == {"status", "scan"}             \* the kinds whose answer is a presentation
Others == Kinds \ (Reads \cup {"companion"})
Waits == [kind : Kinds, n : {0}, phase : {"waits"}]
Begun ==
    [kind : Kinds, n : Numbers, phase : {"runs", "hangs"}] \cup [kind : Reads, n : Numbers, phase : Shows]
Answers ==
    [kind : Reads, n : Numbers, answer : Shows \cup {"failed"}, due : {FALSE}]
    \cup [kind : {"companion"}, n : Numbers, answer : {"green", "red", "failed"}, due : BOOLEAN]
    \cup [kind : Others, n : Numbers, answer : {"done", "failed"}, due : {FALSE}]

(* Types; a job in the queue has not begun, a thread has begun its own,    *)
(* and an answer is of a form that the handler of its kind can show.       *)
TypeOK ==
    /\ {closing, started, dialog, deadline} \subseteq BOOLEAN
    /\ {statusResolved, companionResolved, latestStatus, latestCompanion} \subseteq BOOLEAN
    /\ {inflight, buttons, maintaining, lost, old} \subseteq BOOLEAN
    /\ queue \in Seq(Waits) /\ running \in [Threads -> Begun \cup {Idle}] /\ ready \in Seq(Answers)
    /\ scanEvent \in 0..scans /\ cancelled \subseteq 1..scans /\ scans \in 0..MaxScans
    /\ panel \in {"idle", "active", "cancelling", "failed"} \cup Shows
    /\ scanCard \in {"checking", "slow", "failed"} \cup Shows
    /\ windowsCard \in {"checking", "slow", "green", "red", "unavailable"}
    /\ hour \in {"never", "recent", "old"} /\ busy \in Int
    /\ lastScan = Nothing \/ \E s \in Samples : lastScan = LastScan(s)

(* The application shows that it works exactly while something is under    *)
(* way: a failed operation, or one whose handler submits others, is        *)
(* counted once.                                                           *)
BusyIsCounted == ~closing => busy = UnderWay

(* The event the application holds is that of the one scan under way, so   *)
(* that the cancel button and the exit reach it; and it holds none when    *)
(* there is no scan, whatever came before, or the tray would refuse every  *)
(* later one. When a scan begins while another is under way (the question  *)
(* before it was answered late), the second replaces the event and the     *)
(* first to end clears it: the first half is then not said again until a   *)
(* scan begins with no other under way.                                    *)
ScanIsHeld ==
    ~closing =>
        /\ scanEvent # 0 => Pending("scan") > 0
        /\ ~lost =>
              /\ Pending("scan") = IF scanEvent = 0 THEN 0 ELSE 1
              /\ \A t \in Threads : running[t].kind = "scan" => running[t].n = scanEvent

(* After the exit no scan runs on that has not been told to stop, unless   *)
(* the last one to begin met another.                                      *)
ExitCancels ==
    closing /\ ~lost => \A t \in Threads : running[t].kind = "scan" => running[t].n \in cancelled

(* A refresh of the companion is under way exactly while its flag is up:   *)
(* no result is dropped, and no failure keeps every later refresh from     *)
(* starting.                                                               *)
RefreshIsHeld == ~closing => Pending("companion") = IF inflight THEN 1 ELSE 0

(* At most one refresh of Defender's signatures is under way, and the flag *)
(* says so.                                                                *)
OneMaintenance == ~closing => Pending("maintain") = IF maintaining THEN 1 ELSE 0

(* A card says that its evidence is awaited exactly until the first answer *)
(* or failure: the notice of the deadline never covers evidence. And what  *)
(* may be exported is what the cards show.                                 *)
WaitIsHonest ==
    /\ scanCard \in {"checking", "slow"} <=> ~statusResolved
    /\ windowsCard \in {"checking", "slow"} <=> ~companionResolved
ExportIsShown ==
    /\ latestStatus <=> scanCard \in Shows
    /\ latestCompanion <=> windowsCard \in {"green", "red"}

(* Once nothing is under way, the scan card says what the last scan has    *)
(* saved, or that this is unknown. That is not said after two readings     *)
(* were under way at once, or after a scan that saved its summary and      *)
(* failed; it is said again after the next reading that is begun alone.    *)
SettledCardAgrees ==
    UnderWay = 0 /\ started /\ ~closing /\ ~old =>
        scanCard \in {"failed", StatusPresentation(StatusAnswer(lastScan, "valid", 0, 0, Nothing).doc)}

(* The next five are about the documents alone, for every input; TLC need  *)
(* evaluate them only before the first refresh.                            *)
(* Every scan can be shown, and its card says what its panel has said.     *)
ScansAreShown == ~started => ShownScans
(* The answers of the engine's other commands are accepted.                *)
AnswersAreShown == ~started => ShownAnswers
(* A scan ends in success only when nothing was left out or found.         *)
SuccessIsWhole == ~started => WholeSuccess
(* What the desktop shows green is supported by the evidence it accepted.  *)
GreenIsEarned == ~started => EarnedGreen
(* The verdicts of the companion's script are shown as they are, but for   *)
(* the documents that ShownVerdicts names, which the desktop refuses.      *)
VerdictsAreShown == ~started => ShownVerdicts

(* The work in hand is held: counted, cancellable unless one scan has met  *)
(* another, and never doubled.                                             *)
WorkIsHeld == BusyIsCounted /\ ScanIsHeld /\ ExitCancels /\ RefreshIsHeld /\ OneMaintenance

(* The cards say what is known, and what can be exported is what they say. *)
CardsAreHonest == WaitIsHonest /\ ExportIsShown /\ SettledCardAgrees

(* The documents that cross between the processes are understood, with no  *)
(* refusals of the companion's but the known ones, and say nothing untrue. *)
DocumentsAgree ==
    ScansAreShown /\ AnswersAreShown /\ SuccessIsWhole /\ GreenIsEarned /\ VerdictsAreShown

(* Everything submitted is answered, with a result or a failure, unless    *)
(* the application is closed first: no command can hang it.                *)
WorkIsAnswered == busy > 0 ~> (busy = 0 \/ closing)
=============================================================================
