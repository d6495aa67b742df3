---------------------------- MODULE DesktopMonitor ----------------------------
(***************************************************************************)
(* The monitoring of the desktop application                               *)
(* (src/apps/windows-ui/zsec_desktop): the engine's watch command runs as  *)
(* a child process; bridge.WatchSession has a thread that starts it, reads *)
(* its records and posts them to the Tk thread; app.ZsecDesktop keeps at   *)
(* most one session, judges its heartbeats, and starts automatic sessions  *)
(* again after a delay. The user may pause monitoring, start a temporary   *)
(* session, or exit at any time.                                           *)
(*                                                                         *)
(* Records and completions reach the Tk thread through one queue; only the *)
(* order within a session matters to a handler, so each session has a      *)
(* channel. A heartbeat is fresh or late: 75 seconds are a step (Lapse).   *)
(* The growing delay of a retry is left out: it is at most 300 seconds.    *)
(* Of the findings that sessions report only wording depends: left out.    *)
(***************************************************************************)
EXTENDS Integers, Sequences, FiniteSets

CONSTANTS
    Sessions,               \* names of sessions, used again when one is over
    NoSession,
    Depth,                  \* bound: records on their way to the Tk thread
    MaxActs, MaxFaults      \* bounds: what the user does, what goes wrong

ASSUME MonitorAssumption ==
    /\ NoSession \notin Sessions
    /\ Depth \in Nat \ {0} /\ MaxActs \in Nat /\ MaxFaults \in Nat

VARIABLES
    store, prefer,                  \* packaged by the store; automatic_monitoring
    closing, gone,                  \* exit requested; the process has ended
    session, mode,                  \* watch_session, watch_mode
    stopping,                       \* the session whose stop() is half done
    retry, dogs, tracked,           \* timers: retry, watchdogs, one is recorded
    bound, beat,                    \* watch_session_id, the age of the last heartbeat
    inventory, coverage,            \* watch_inventory_complete, watch_coverage_complete
    card,                           \* the card says: active
    dialog,                         \* the question before a temporary session is open
    thread, child, told, channel,   \* of each session; told: _stopped_by_user
    engine,                         \* what the child knows of its coverage
    orphans,                        \* history: sessions the application has lost
    acts, faults

choice == <<store, prefer>>
exit == <<closing, gone>>
hold == <<session, mode, orphans>>
timers == <<retry, dogs, tracked>>
evidence == <<bound, beat, inventory, coverage>>
worker == <<thread, child, channel, engine>>
counts == <<acts, faults>>
vars == <<choice, exit, hold, stopping, timers, evidence, card, dialog, worker, told, counts>>

Fresh == [inventory |-> FALSE, incomplete |-> FALSE]

(* load_monitoring_enabled: only a valid file turns monitoring off.        *)
Loaded(file) == file # "off"

Init ==
    /\ store \in BOOLEAN
    /\ \E file \in {"on", "off", "missing", "invalid"} : prefer = Loaded(file)
    /\ closing = FALSE /\ gone = FALSE
    /\ session = NoSession /\ mode = "none" /\ stopping = NoSession /\ orphans = {}
    /\ retry = store /\ dogs = 0 /\ tracked = FALSE
    /\ bound = NoSession /\ beat = "none"
    /\ inventory = FALSE /\ coverage = FALSE
    /\ card = FALSE /\ dialog = FALSE
    /\ thread = [s \in Sessions |-> "none"] /\ child = [s \in Sessions |-> "none"]
    /\ told = [s \in Sessions |-> FALSE] /\ channel = [s \in Sessions |-> <<>>]
    /\ engine = [s \in Sessions |-> Fresh]
    /\ acts = 0 /\ faults = 0

-----------------------------------------------------------------------------
(* The engine, as its records show it (modules Watcher, WatchEvidence). A  *)
(* bound: once the application has lost a session, only that one speaks.   *)
Posts(s, e) == channel' = [channel EXCEPT ![s] = IF closing THEN @ ELSE Append(@, e)]

Emits(s, e, state) ==
    /\ child[s] = "alive" /\ thread[s] = "reading" /\ ~closing
    /\ Len(channel[s]) < Depth
    /\ orphans # {} => s \in orphans /\ e \in {"beat", "beat_incomplete"}
    /\ Posts(s, e) /\ engine' = [engine EXCEPT ![s] = state]
    /\ UNCHANGED <<choice, exit, hold, stopping, timers, evidence, card, dialog, thread, child,
                   told, acts>>

Inventory(s, whole) ==
    /\ ~engine[s].inventory
    /\ Emits(s, IF whole THEN "inventory" ELSE "inventory_incomplete",
             [engine[s] EXCEPT !.inventory = whole, !.incomplete = @ \/ ~whole])
    /\ UNCHANGED faults

Issue(s) ==
    /\ Emits(s, "issue", [engine[s] EXCEPT !.incomplete = TRUE])
    /\ UNCHANGED faults

Beats(s) ==
    /\ Emits(s, IF engine[s].incomplete THEN "beat_incomplete" ELSE "beat", engine[s])
    /\ UNCHANGED faults

(* A whole-root reconciliation restores coverage.                          *)
Recovers(s) ==
    /\ engine[s].incomplete
    /\ Emits(s, "beat_whole", [inventory |-> TRUE, incomplete |-> FALSE])
    /\ UNCHANGED faults

(* A record whose number is not new.                                       *)
Repeats(s) ==
    /\ faults < MaxFaults /\ faults' = faults + 1
    /\ Emits(s, "repeated", engine[s])

(* It ends by itself, or is killed.                                        *)
ChildEnds(s) ==
    /\ child[s] = "alive" /\ faults < MaxFaults
    /\ child' = [child EXCEPT ![s] = "dead"] /\ faults' = faults + 1
    /\ UNCHANGED <<choice, exit, hold, stopping, timers, evidence, card, dialog, thread, channel,
                   engine, told, acts>>

Dies(s) ==
    /\ child[s] = "terminated"
    /\ child' = [child EXCEPT ![s] = "dead"]
    /\ UNCHANGED <<choice, exit, hold, stopping, timers, evidence, card, dialog, thread, channel,
                   engine, told, counts>>

(* Nobody reads its output any more: the next record fails.                *)
PipeBreaks(s) ==
    /\ gone /\ child[s] = "alive"
    /\ child' = [child EXCEPT ![s] = "dead"]
    /\ UNCHANGED <<choice, exit, hold, stopping, timers, evidence, card, dialog, thread, channel,
                   engine, told, counts>>

-----------------------------------------------------------------------------
(* WatchSession._run, on a thread of the session.                          *)
OnThread(s, from, to) ==
    /\ ~gone /\ thread[s] = from
    /\ thread' = [thread EXCEPT ![s] = to]
    /\ UNCHANGED <<choice, exit, hold, stopping, timers, evidence, card, dialog, engine, told, acts>>

Spawns(s) ==
    /\ OnThread(s, "starting", "spawned")
    /\ child' = [child EXCEPT ![s] = "alive"]
    /\ UNCHANGED <<channel, faults>>

SpawnFails(s) ==
    /\ OnThread(s, "starting", "over")
    /\ faults < MaxFaults /\ faults' = faults + 1
    /\ Posts(s, "complete") /\ UNCHANGED child

(* Mutant: stop() alone is trusted to end the child. *)
ChecksNothing(s) ==
    /\ OnThread(s, "spawned", "reading")
    /\ UNCHANGED <<child, channel, faults>>

Terminated(s) == [child EXCEPT ![s] = IF @ = "alive" THEN "terminated" ELSE @]

ChecksStop(s) ==
    /\ OnThread(s, "spawned", "reading")
    /\ child' = IF told[s] THEN Terminated(s) ELSE child
    /\ UNCHANGED <<channel, faults>>

ReaderEnds(s) ==
    /\ OnThread(s, "reading", "over")
    /\ child[s] = "dead" /\ Posts(s, "complete")
    /\ UNCHANGED <<child, faults>>

(* A record that is not valid (validate_watch_event), or too long.         *)
ReaderRefuses(s) ==
    /\ OnThread(s, "reading", "over")
    /\ faults < MaxFaults /\ faults' = faults + 1
    /\ child' = [child EXCEPT ![s] = "dead"]
    /\ Posts(s, "complete")

-----------------------------------------------------------------------------
(* The Tk thread. stop() sets its mark and then looks for the process;     *)
(* other threads may run in between.                                       *)
OnTk == ~closing /\ stopping = NoSession

Stop(s) ==
    /\ stopping' = s
    /\ told' = IF s = NoSession THEN told ELSE [told EXCEPT ![s] = TRUE]

Visible(s) == thread[s] \in {"spawned", "reading", "over"}

StopTerminates ==
    /\ stopping # NoSession /\ ~gone
    /\ stopping' = NoSession
    /\ child' = IF Visible(stopping) THEN Terminated(stopping) ELSE child
    /\ UNCHANGED <<choice, exit, hold, timers, evidence, card, dialog, thread, channel, engine,
                   told, counts>>

(* _render_store_process_monitor, after the step.                          *)
Render ==
    card' = IF store THEN session' # NoSession /\ coverage' /\ beat' = "fresh" ELSE card

(* _schedule_monitoring_retry, given whether one is pending.               *)
ScheduleRetry(pending) ==
    retry' = (pending \/ (store /\ prefer' /\ session' = NoSession))

Free == {s \in Sessions : thread[s] = "none" /\ child[s] = "none"}

(* Mutant: the inventory of the last session counts for the next. *)
ResetKeepsInventory ==
    /\ bound' = NoSession /\ beat' = "none"
    /\ coverage' = FALSE /\ UNCHANGED inventory

ResetEvidence ==
    /\ bound' = NoSession /\ beat' = "none"
    /\ inventory' = FALSE /\ coverage' = FALSE

(* start_watch: a session and its thread.                                  *)
Begins(s, kind) ==
    /\ session' = s /\ mode' = kind
    /\ thread' = [thread EXCEPT ![s] = "starting"]
    /\ orphans' = orphans \cup ({session} \ {NoSession})
    /\ UNCHANGED <<child, told, engine, channel, faults>>

CannotBegin ==
    /\ faults < MaxFaults /\ faults' = faults + 1
    /\ UNCHANGED <<session, orphans, thread, child, told, engine, channel>>

MayStart == store /\ session = NoSession /\ prefer'

(* _start_store_monitoring; pending: whether a retry is scheduled. Without *)
(* folders, or when start_watch refuses one, it is tried again later.      *)
StartStore(pending) ==
    \/ /\ ~MayStart
       /\ retry' = pending
       /\ UNCHANGED <<hold, dogs, tracked, evidence, card, worker, told, faults>>
    \/ /\ MayStart
       /\ Free # {} /\ Begins(CHOOSE s \in Free : TRUE, "automatic")
       /\ ResetEvidence
       /\ dogs' = dogs + 1 /\ tracked' = TRUE /\ retry' = pending
       /\ card' = FALSE
    \/ /\ MayStart
       /\ CannotBegin /\ mode' = "none"
       /\ \/ UNCHANGED evidence \/ ResetEvidence
       /\ ScheduleRetry(pending)
       /\ card' = FALSE /\ UNCHANGED <<dogs, tracked>>

RetryFires ==
    /\ OnTk /\ retry
    /\ UNCHANGED <<choice, exit, stopping, dialog, acts>>
    /\ StartStore(FALSE)

(* _start_watch: the question is asked in a nested loop of events, after   *)
(* the application has seen that there is no session; the other events are *)
(* handled meanwhile, except clicks in the window.                         *)
User == OnTk /\ ~dialog /\ acts < MaxActs /\ acts' = acts + 1

StartTemporary ==
    /\ UNCHANGED <<choice, exit, stopping, card>>
    /\ ResetEvidence
    /\ dogs' = (IF tracked THEN dogs ELSE dogs + 1) /\ tracked' = TRUE
    /\ \/ /\ Free # {} /\ Begins(CHOOSE s \in Free : TRUE, "temporary")
          /\ UNCHANGED retry
       \/ /\ CannotBegin /\ mode' = "none" /\ ScheduleRetry(retry)

ClickStart ==
    /\ User /\ session = NoSession
    /\ StartTemporary /\ UNCHANGED dialog

ClickStartQuarantine ==
    /\ User /\ session = NoSession
    /\ dialog' = TRUE
    /\ UNCHANGED <<choice, exit, hold, stopping, timers, evidence, card, worker, told, faults>>

AnswerNo ==
    /\ OnTk /\ dialog /\ dialog' = FALSE
    /\ UNCHANGED <<choice, exit, hold, stopping, timers, evidence, card, worker, told, counts>>

AnswerYes ==
    /\ OnTk /\ dialog /\ dialog' = FALSE
    /\ StartTemporary /\ UNCHANGED acts

(* _change_automatic_monitoring, with the new value; a pending retry is    *)
(* given up.                                                               *)
Change(enabled) ==
    /\ prefer' = enabled
    /\ \/ /\ enabled
          /\ StartStore(FALSE) /\ UNCHANGED stopping
       \/ /\ ~enabled
          /\ retry' = FALSE
          /\ Stop(IF mode = "automatic" THEN session ELSE NoSession)
          /\ UNCHANGED <<hold, dogs, tracked, evidence, card, worker, faults>>
    /\ UNCHANGED <<store, exit, dialog>>

SaveFails ==
    /\ faults < MaxFaults /\ faults' = faults + 1
    /\ UNCHANGED <<choice, exit, hold, stopping, timers, evidence, card, dialog, worker, told>>

ClickToggle == User /\ (Change(~prefer) \/ SaveFails)

(* _stop_watch *)
ClickStop ==
    /\ User /\ session # NoSession
    /\ IF store /\ mode = "automatic" THEN Change(FALSE) \/ SaveFails
       ELSE /\ Stop(session)
            /\ UNCHANGED <<choice, exit, hold, timers, evidence, card, dialog, worker, faults>>

-----------------------------------------------------------------------------
(* _watch_event: the first record names the session; a record of another,  *)
(* or one that is not newer, ends the session the application holds.       *)
Rejects(s, e) ==
    /\ coverage' = FALSE
    /\ Stop(session)
    /\ UNCHANGED <<beat, inventory, card>>

Accepts(e) ==
    /\ inventory' = CASE e = "inventory" -> TRUE
                      [] e = "inventory_incomplete" -> FALSE
                      [] OTHER -> inventory \/ e = "beat_whole"
    /\ coverage' = CASE e = "issue" -> FALSE
                     [] e \in {"beat", "beat_whole"} -> inventory'
                     [] e = "beat_incomplete" -> FALSE
                     [] OTHER -> coverage
    /\ IF e \in {"beat", "beat_whole", "beat_incomplete"}
       THEN beat' = "fresh" /\ Render
       ELSE UNCHANGED <<beat, card>>
    /\ UNCHANGED <<stopping, told>>

Event(s) ==
    /\ OnTk /\ channel[s] # <<>> /\ Head(channel[s]) # "complete"
    /\ channel' = [channel EXCEPT ![s] = Tail(@)]
    /\ bound' = IF bound = NoSession THEN s ELSE bound
    /\ UNCHANGED <<choice, exit, hold, timers, dialog, thread, child, engine, counts>>
    /\ LET e == Head(channel[s])
       IN  IF bound' # s \/ e = "repeated" THEN Rejects(s, e) ELSE Accepts(e)

(* Mutant: an unknown timer is cancelled. *)
CancelAny == dogs' = dogs - 1 /\ tracked' = FALSE

CancelTracked == dogs' = (IF tracked THEN dogs - 1 ELSE dogs) /\ tracked' = FALSE

(* _watch_complete: of whichever session it is. Its name is free again.    *)
Completed(s) ==
    /\ OnTk /\ channel[s] # <<>> /\ Head(channel[s]) = "complete"
    /\ UNCHANGED <<choice, exit, stopping, bound, inventory, dialog, counts>>
    /\ channel' = [channel EXCEPT ![s] = Tail(@)]
    /\ session' = NoSession /\ mode' = "none"
    /\ orphans' = (orphans \cup ({session} \ {NoSession})) \ {s}
    /\ coverage' = FALSE /\ beat' = "none"
    /\ CancelTracked
    /\ card' = (IF store THEN FALSE ELSE card)
    /\ ScheduleRetry(retry)
    /\ thread' = [thread EXCEPT ![s] = "none"]
    /\ child' = [child EXCEPT ![s] = IF @ = "dead" THEN "none" ELSE @]
    /\ told' = [told EXCEPT ![s] = FALSE] /\ engine' = [engine EXCEPT ![s] = Fresh]

LooksAgain ==
    IF session = NoSession
    THEN dogs' = dogs - 1 /\ tracked' = FALSE /\ UNCHANGED coverage
    ELSE UNCHANGED dogs /\ tracked' = TRUE /\ coverage' = (coverage /\ beat # "late")

(* Mutant: it reports, and leaves the session to itself. *)
WatchdogReports ==
    /\ OnTk /\ dogs > 0
    /\ LooksAgain
    /\ UNCHANGED <<choice, exit, hold, retry, bound, beat, inventory, card, dialog, worker, counts,
                   stopping, told>>

(* _watch_heartbeat_watchdog: every five seconds, while there is a session.*)
Watchdog ==
    /\ OnTk /\ dogs > 0
    /\ LooksAgain
    /\ IF beat = "late" /\ mode = "automatic" THEN Stop(session) ELSE UNCHANGED <<stopping, told>>
    /\ UNCHANGED <<choice, exit, hold, retry, bound, beat, inventory, card, dialog, worker, counts>>

(* A companion status is shown (module DesktopTasks): the card with it.    *)
Refreshed ==
    /\ OnTk /\ UNCHANGED <<choice, exit, hold, stopping, timers, evidence, dialog, worker, told, counts>>
    /\ Render

(* Time passes without a heartbeat: 75 s, or 300 s since the start.        *)
Lapse ==
    /\ ~closing /\ session # NoSession /\ beat # "late"
    /\ beat' = "late"
    /\ UNCHANGED <<choice, exit, hold, stopping, timers, bound, inventory, coverage, card, dialog,
                   worker, told, counts>>

(* _exit_application, from the window or the notification area: with the   *)
(* window go its timers, what it shows and the queue.                      *)
Exit ==
    /\ OnTk
    /\ closing' = TRUE /\ retry' = FALSE
    /\ dogs' = 0 /\ tracked' = FALSE /\ dialog' = FALSE
    /\ ResetEvidence /\ card' = FALSE /\ channel' = [s \in Sessions |-> <<>>]
    /\ Stop(session)
    /\ UNCHANGED <<choice, gone, hold, thread, child, engine, counts>>

(* The interpreter ends: daemon threads stop where they are.               *)
ProcessEnds ==
    /\ closing /\ stopping = NoSession /\ ~gone
    /\ gone' = TRUE
    /\ UNCHANGED <<choice, closing, hold, stopping, timers, evidence, card, dialog, worker, told,
                   counts>>

Engine(s) ==
    \/ \E whole \in BOOLEAN : Inventory(s, whole)
    \/ Issue(s) \/ Beats(s) \/ Recovers(s) \/ Repeats(s)
    \/ ChildEnds(s) \/ Dies(s) \/ PipeBreaks(s)

Thread(s) ==
    \/ Spawns(s) \/ SpawnFails(s) \/ ChecksStop(s)
    \/ ReaderEnds(s) \/ ReaderRefuses(s)

Tk ==
    \/ StopTerminates \/ RetryFires \/ Watchdog \/ Refreshed \/ Lapse
    \/ ClickStart \/ ClickStartQuarantine \/ AnswerNo \/ AnswerYes \/ ClickToggle \/ ClickStop
    \/ Exit \/ ProcessEnds

Next ==
    \/ Tk
    \/ \E s \in Sessions : Engine(s) \/ Thread(s) \/ Event(s) \/ Completed(s)

(* Threads run, timers fire between what other callbacks do, time passes,  *)
(* a process that was terminated ends. The engine need not say anything,   *)
(* nor the user do anything.                                               *)
Fairness ==
    /\ WF_vars(StopTerminates) /\ WF_vars(Lapse) /\ SF_vars(RetryFires) /\ SF_vars(Watchdog)
    /\ \A s \in Sessions :
           WF_vars(Thread(s)) /\ WF_vars(Dies(s)) /\ SF_vars(Event(s) \/ Completed(s))

Spec == Init /\ [][Next]_vars /\ Fairness

-----------------------------------------------------------------------------
Live(s) == child[s] \in {"alive", "terminated"}
Records == {"inventory", "inventory_incomplete", "issue", "beat", "beat_incomplete", "beat_whole",
            "repeated", "complete"}

TypeOK ==
    /\ {store, prefer, closing, gone, retry, tracked, inventory, coverage, card, dialog} \subseteq BOOLEAN
    /\ mode \in {"none", "automatic", "temporary"}
    /\ {session, stopping, bound} \subseteq Sessions \cup {NoSession} /\ orphans \subseteq Sessions
    /\ dogs \in Nat /\ beat \in {"none", "fresh", "late"}
    /\ \A s \in Sessions :
           /\ thread[s] \in {"none", "starting", "spawned", "reading", "over"}
           /\ child[s] \in {"none", "alive", "terminated", "dead"}
           /\ told[s] \in BOOLEAN /\ Len(channel[s]) <= Depth + 1
           /\ \A i \in 1..Len(channel[s]) : channel[s][i] \in Records
    /\ acts \in 0..MaxActs /\ faults \in 0..MaxFaults

(* A child process that lives is the one of the session the application    *)
(* holds, as long as no question of _start_watch was answered after        *)
(* another session had begun.                                              *)
OneObserver == orphans = {} => \A s \in Sessions : Live(s) => s = session

(* Whenever stop() comes, before or after the process is started, the      *)
(* child is terminated by it or by the thread; and exit stops the session. *)
StopReachesChild ==
    /\ \A s \in Sessions : told[s] /\ thread[s] = "reading" /\ stopping # s => child[s] # "alive"
    /\ closing /\ session # NoSession => told[session]

(* When every record has arrived, coverage is called complete only if the  *)
(* engine has it.                                                          *)
CoverageAgrees ==
    coverage /\ session # NoSession /\ bound = session /\ channel[session] = <<>>
        => engine[session].inventory /\ ~engine[session].incomplete

(* Whatever says that monitoring is active, there is a session, and a      *)
(* watchdog looks after it.                                                *)
ActiveIsWatched ==
    ~closing => /\ card => session # NoSession
                /\ session # NoSession => dogs > 0 /\ tracked

(* No automatic session begins while monitoring is paused, whatever timer  *)
(* was pending when the pause was saved.                                   *)
PauseIsKept == [][session' # session /\ mode' = "automatic" => prefer']_vars

(* Automatic monitoring that is on has a session again and again.          *)
MonitoringReturns ==
    store /\ prefer ~> session # NoSession \/ ~prefer \/ closing \/ orphans # {}

(* An automatic session that falls silent is given up for another.         *)
SilenceIsEnded ==
    \A s \in Sessions :
        session = s /\ mode = "automatic" /\ beat = "late" ~>
            session # s \/ mode # "automatic" \/ beat = "fresh" \/ closing

(* Sessions and their processes stay under control.                        *)
SessionsAreHeld == OneObserver /\ StopReachesChild

(* Monitoring is shown active only on evidence that is still watched.      *)
ActiveIsProven == CoverageAgrees /\ ActiveIsWatched

(* Monitoring pauses when it is told to, and otherwise goes on.            *)
MonitoringGoesOn == PauseIsKept /\ MonitoringReturns /\ SilenceIsEnded
=============================================================================
