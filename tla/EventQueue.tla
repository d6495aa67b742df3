----------------------------- MODULE EventQueue -----------------------------
(***************************************************************************)
(* DebouncedPathQueue of zsec_shield/watcher.py: the bounded, debounced    *)
(* queue between the file-system observer and the protection loop.         *)
(*                                                                         *)
(* Three kinds of thread use it. Observer callbacks call submit; the       *)
(* ingest thread moves raw events into the coalescing table one at a time, *)
(* taking the lock for each; the main loop calls due, which first runs the *)
(* same ingest loop itself and then, in a second critical section, removes *)
(* the paths whose quiet period is over. One action below is one critical  *)
(* section. A path is a natural number: due sorts the keys, so their order *)
(* is part of the behaviour.                                               *)
(***************************************************************************)
EXTENDS Integers, Sequences, FiniteSets

CONSTANTS
    Paths,          \* path keys the observer may report
    Excluded,       \* those below an excluded directory (the state directory)
    MaxEvents,      \* max_events: raw plus coalesced entries held at once
    Debounce,       \* debounce_seconds, in ticks
    MinCoalesce,    \* the 2.0 seconds of _max_coalesce_seconds, in ticks
    DrainLimit,     \* maximum of a priority drain (32 in the code)
    MaxSubmits,     \* bound: observer callbacks explored
    MaxTime         \* bound: clock ticks explored

ASSUME QueueAssumption ==
    /\ Paths \subseteq Nat /\ IsFiniteSet(Paths)
    /\ Excluded \subseteq Paths
    /\ MaxEvents \in Nat \ {0} /\ DrainLimit \in Nat \ {0}
    /\ Debounce \in Nat /\ MinCoalesce \in Nat
    /\ MaxSubmits \in Nat /\ MaxTime \in Nat

VARIABLES
    now,                \* the monotonic clock
    raw,                \* _queue: reports not yet coalesced, oldest first
    pending,            \* the keys of _pending
    entry,              \* first_seen_at and due_at of each key of _pending
    overflowed,         \* the overflowed threading.Event
    events_received, events_excluded, events_debounced, events_dropped,
    pending_high_water,
    consumer,           \* where the main loop is inside due
    batch,              \* the paths its last call of due returned
    handed_out,         \* history: paths returned by due so far
    acknowledged        \* history: drops that clear_overflow has returned

counters == <<events_received, events_excluded, events_debounced,
              events_dropped, pending_high_water>>
history == <<handed_out, acknowledged>>
queue == <<raw, pending, entry, overflowed>>
vars == <<now, queue, counters, consumer, batch, history>>

MaxCoalesce == IF MinCoalesce >= Debounce THEN MinCoalesce ELSE Debounce

(* Event types in two classes: closed_after_write, moved_to, moved_from    *)
(* and deleted end a change and are urgent; created and modified are not.  *)
Urgency == {"urgent", "ordinary"}
RawEvent == [path : Paths, urgency : Urgency, at : Nat]

PendingPath == [first : Nat, due : Nat]
Blank == [first |-> 0, due |-> 0]

Unlimited == "unlimited"              \* due(), from the main loop
Limited == "limited"                  \* due(maximum=32), during a reconcile
Scanning == <<"scanning", Unlimited>>
ConsumerState == {"scanning", "ingesting", "popping"} \X {Unlimited, Limited}

Depth == Cardinality(pending) + Len(raw)
RawPaths == {raw[i].path : i \in 1..Len(raw)}

TypeOK ==
    /\ now \in Nat
    /\ raw \in Seq(RawEvent)
    /\ pending \subseteq Paths
    /\ entry \in [Paths -> PendingPath]
    /\ overflowed \in BOOLEAN
    /\ events_received \in Nat /\ events_excluded \in Nat
    /\ events_debounced \in Nat /\ events_dropped \in Nat
    /\ pending_high_water \in Nat
    /\ consumer \in ConsumerState
    /\ batch \subseteq Paths
    /\ handed_out \in Nat /\ acknowledged \in Nat

Init ==
    /\ now = 0
    /\ raw = <<>> /\ pending = {} /\ entry = [p \in Paths |-> Blank]
    /\ overflowed = FALSE
    /\ events_received = 0 /\ events_excluded = 0
    /\ events_debounced = 0 /\ events_dropped = 0
    /\ pending_high_water = 0
    /\ consumer = Scanning /\ batch = {}
    /\ handed_out = 0 /\ acknowledged = 0

-----------------------------------------------------------------------------
(* Mutants of DueAt: the cap on postponement is missing; the sign of the   *)
(* debounce is wrong.                                                      *)
DueAtUncapped(urgency, at, first) == IF urgency = "urgent" THEN at ELSE at + Debounce
DueAtEarly(urgency, at, first) == IF urgency = "urgent" THEN at ELSE at - Debounce

(* When a path sighted first at time first becomes due, after a report of  *)
(* the given urgency observed at time at.                                  *)
DueAt(urgency, at, first) ==
    IF urgency = "urgent" THEN at
    ELSE IF at + Debounce <= first + MaxCoalesce THEN at + Debounce
         ELSE first + MaxCoalesce

(* Room for one more entry, raw or coalesced.                              *)
HasRoom(held) == held < MaxEvents

(* Bounds of the exploration: callbacks are counted, and observers fall    *)
(* silent early enough for the clock to reach every due time.              *)
MaySubmit == /\ events_received + events_excluded < MaxSubmits
             /\ now + Debounce <= MaxTime

(* submit of a path below an excluded directory.                           *)
SubmitExcluded(p) ==
    /\ MaySubmit
    /\ p \in Excluded
    /\ events_excluded' = events_excluded + 1
    /\ UNCHANGED <<now, queue, events_received, events_debounced,
                   events_dropped, pending_high_water, consumer, batch, history>>

(* submit of a path that already waits: the report only moves its due time.*)
SubmitDebounced(p, urgency) ==
    /\ MaySubmit
    /\ p \notin Excluded /\ p \in pending
    /\ events_received' = events_received + 1
    /\ events_debounced' = events_debounced + 1
    /\ entry' = [entry EXCEPT ![p].due = DueAt(urgency, now, entry[p].first)]
    /\ UNCHANGED <<now, raw, pending, overflowed, events_excluded,
                   events_dropped, pending_high_water, consumer, batch, history>>

(* submit of any other path while there is room. *)
SubmitQueued(p, urgency) ==
    /\ MaySubmit
    /\ p \notin Excluded /\ p \notin pending
    /\ HasRoom(Depth)
    /\ events_received' = events_received + 1
    /\ raw' = Append(raw, [path |-> p, urgency |-> urgency, at |-> now])
    /\ UNCHANGED <<now, pending, entry, overflowed, events_excluded,
                   events_debounced, events_dropped, pending_high_water,
                   consumer, batch, history>>

(* submit of any other path when the queue is full. *)
SubmitDropped(p) ==
    /\ MaySubmit
    /\ p \notin Excluded /\ p \notin pending
    /\ ~HasRoom(Depth)
    /\ events_received' = events_received + 1
    /\ events_dropped' = events_dropped + 1
    /\ overflowed' = TRUE
    /\ UNCHANGED <<now, raw, pending, entry, events_excluded,
                   events_debounced, pending_high_water, consumer, batch, history>>

(* One turn of the loop in ingest, under the lock: the oldest raw event    *)
(* joins the entry of its path, opens one, or is dropped for want of room. *)
IngestOne ==
    /\ raw # <<>>
    /\ raw' = Tail(raw)
    /\ LET event == Head(raw)
           known == event.path \in pending
           opens == ~known /\ HasRoom(Depth - 1)
           first == IF known THEN entry[event.path].first ELSE event.at
           due   == DueAt(event.urgency, event.at, first)
       IN /\ pending' = IF opens THEN pending \cup {event.path} ELSE pending
          /\ entry' = IF known \/ opens
                      THEN [entry EXCEPT ![event.path] = [first |-> first, due |-> due]]
                      ELSE entry
          /\ events_debounced' = events_debounced + (IF known THEN 1 ELSE 0)
          /\ events_dropped' = events_dropped + (IF known \/ opens THEN 0 ELSE 1)
          /\ overflowed' = (overflowed \/ ~(known \/ opens))
    /\ pending_high_water' = IF Cardinality(pending') > pending_high_water
                             THEN Cardinality(pending') ELSE pending_high_water
    /\ UNCHANGED <<now, events_received, events_excluded, consumer, batch, history>>

(* Mutant: the loop calls due only when a raw event has just arrived.      *)
DueCallOnNews(limit) ==
    /\ consumer[1] = "scanning"
    /\ raw # <<>>
    /\ consumer' = <<"ingesting", limit>>
    /\ batch' = {}
    /\ UNCHANGED <<now, queue, counters, history>>

(* The main loop, done with its last batch, calls due: unlimited at the    *)
(* top of the loop, limited from drain_priority_events.                    *)
DueCall(limit) ==
    /\ consumer[1] = "scanning"
    /\ consumer' = <<"ingesting", limit>>
    /\ batch' = {}
    /\ UNCHANGED <<now, queue, counters, history>>

(* due runs ingest until it finds the raw queue empty ...                  *)
DueIngest == consumer[1] = "ingesting" /\ IngestOne

DueIngested ==
    /\ consumer[1] = "ingesting"
    /\ raw = <<>>
    /\ consumer' = <<"popping", consumer[2]>>
    /\ UNCHANGED <<now, queue, counters, batch, history>>

(* ... and takes the lock again to remove the due entries, in key order.   *)
DuePaths == {p \in pending : entry[p].due <= now}
Selected(limit) ==
    IF limit = Unlimited THEN DuePaths
    ELSE {p \in DuePaths : Cardinality({q \in DuePaths : q < p}) < DrainLimit}

(* Mutant: every due entry is removed, though only the selected ones are   *)
(* returned.                                                               *)
DuePopLossy ==
    /\ consumer[1] = "popping"
    /\ batch' = Selected(consumer[2])
    /\ pending' = pending \ DuePaths
    /\ entry' = [p \in Paths |-> IF p \in DuePaths THEN Blank ELSE entry[p]]
    /\ handed_out' = handed_out + Cardinality(batch')
    /\ consumer' = Scanning
    /\ UNCHANGED <<now, raw, overflowed, counters, acknowledged>>

DuePop ==
    /\ consumer[1] = "popping"
    /\ batch' = Selected(consumer[2])
    /\ pending' = pending \ batch'
    /\ entry' = [p \in Paths |-> IF p \in batch' THEN Blank ELSE entry[p]]
    /\ handed_out' = handed_out + Cardinality(batch')
    /\ consumer' = Scanning
    /\ UNCHANGED <<now, raw, overflowed, counters, acknowledged>>

(* Mutant: the flag is cleared and the count stays.                        *)
ClearOverflowFlagOnly ==
    /\ overflowed
    /\ overflowed' = FALSE
    /\ UNCHANGED <<now, raw, pending, entry, counters, consumer, batch, history>>

(* clear_overflow: the loop, having seen the flag, takes the drop count.   *)
ClearOverflow ==
    /\ overflowed
    /\ overflowed' = FALSE
    /\ acknowledged' = acknowledged + events_dropped
    /\ events_dropped' = 0
    /\ UNCHANGED <<now, raw, pending, entry, events_received, events_excluded,
                   events_debounced, pending_high_water, consumer, batch, handed_out>>

Tick == /\ now < MaxTime
        /\ now' = now + 1
        /\ UNCHANGED <<queue, counters, consumer, batch, history>>

Submit == \E p \in Paths :
            \/ SubmitExcluded(p)
            \/ \E u \in Urgency : SubmitDebounced(p, u) \/ SubmitQueued(p, u)
            \/ SubmitDropped(p)

CallDue == \E limit \in {Unlimited, Limited} : DueCall(limit)

Next == Submit \/ IngestOne \/ CallDue \/ DueIngest \/ DueIngested \/ DuePop
        \/ ClearOverflow \/ Tick

(* The main loop keeps calling due and due returns; time passes. Nothing   *)
(* is assumed of the ingest thread, which may die, nor of the observer.    *)
Fairness == /\ WF_vars(CallDue) /\ WF_vars(DueIngest) /\ WF_vars(DueIngested)
            /\ WF_vars(DuePop) /\ WF_vars(Tick)

Spec == Init /\ [][Next]_vars
FairSpec == Spec /\ Fairness

-----------------------------------------------------------------------------
(* max_events bounds raw and coalesced entries together, although submit   *)
(* and ingest move entries between the two in separate critical sections.  *)
CapacityBound == Depth <= MaxEvents

(* A report that submit accepted is never dropped later: the check in      *)
(* submit reserves the room ingest needs, so ingest only moves reports.    *)
AcceptedStaysAccepted ==
    [][Len(raw') < Len(raw) => events_dropped' = events_dropped]_vars

(* Every report is accounted for: coalesced, dropped and counted, still    *)
(* raw, still pending, or handed to the scanner. None just disappears.     *)
Accounting ==
    events_received = events_debounced + events_dropped + acknowledged
                      + Len(raw) + Cardinality(pending) + handed_out

(* The loop learns of every drop: the flag is up exactly while there are   *)
(* drops nobody has been told about.                                       *)
OverflowTold == overflowed <=> events_dropped > 0

(* Starvation bound: a path seen _max_coalesce_seconds ago is due, however *)
(* often it was reported since and in whatever order those reports were    *)
(* ingested.                                                               *)
AgedIsDue == \A p \in pending : entry[p].first + MaxCoalesce <= now
                                  => entry[p].due <= now

(* The queue keeps the promise of PathObligations.                         *)
Obligations == INSTANCE PathObligations
                   WITH owed <- pending \cup RawPaths, handed <- batch, alarm <- overflowed
KeepsObligations == Obligations!Spec

(* Every accepted path is eventually handed to the scanner, with no help   *)
(* from the ingest thread.                                                 *)
EventuallyScanned == \A p \in Paths : p \in pending \cup RawPaths ~> p \in batch

(* The bookkeeping of the queue: it stays within its capacity, accounts    *)
(* for every report, and has told of every drop.                           *)
Bookkeeping == CapacityBound /\ Accounting /\ OverflowTold
=============================================================================
