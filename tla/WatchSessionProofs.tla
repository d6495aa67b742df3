------------------------- MODULE WatchSessionProofs -------------------------
(***************************************************************************)
(* The two ends of a watch session. First what comes in: EventQueue, for   *)
(* every set of paths and every value of the limits - its types, its       *)
(* capacity, its bookkeeping, its starvation bound, and that it implements *)
(* PathObligations. Then what goes out: WatchEvidence, for every size and  *)
(* number of the log files - its types, what the log keeps whatever cuts a *)
(* rotation or a write short, and what the health file says.               *)
(***************************************************************************)
EXTENDS EventQueue, WatchEvidence, FiniteSetTheorems, SequenceTheorems, TLAPS

USE QueueAssumption

(* The due time of a report is a time, and is already past for an urgent   *)
(* report, or within the coalescing limit of the first sighting.           *)
LEMMA DueAtType ==
    ASSUME NEW u \in Urgency, NEW at \in Nat, NEW first \in Nat
    PROVE  /\ DueAt(u, at, first) \in Nat
           /\ DueAt(u, at, first) <= at \/ DueAt(u, at, first) <= first + MaxCoalesce
  BY DEF DueAt, MaxCoalesce, Urgency

(* Taking the oldest raw event leaves the others, each where it was plus   *)
(* one.                                                                    *)
LEMMA TakeRaw ==
    ASSUME raw \in Seq(RawEvent), raw # <<>>
    PROVE  /\ Head(raw) \in RawEvent
           /\ Tail(raw) \in Seq(RawEvent)
           /\ Len(Tail(raw)) = Len(raw) - 1
           /\ Len(raw) \in Nat \ {0}
           /\ Head(raw) = raw[1]
           /\ \A i \in 1..Len(Tail(raw)) : Tail(raw)[i] = raw[i + 1]
  BY HeadTailProperties, LenProperties

(* Each raw event is a report of a known path at some clock reading.       *)
LEMMA RawElement ==
    ASSUME raw \in Seq(RawEvent), NEW i \in 1..Len(raw)
    PROVE  raw[i] \in RawEvent /\ raw[i].path \in Paths /\ raw[i].at \in Nat
<1>1. raw[i] \in RawEvent
  BY ElementOfSeq
<1> QED BY <1>1 DEF RawEvent

(* Every set of pending paths is finite, so counting it makes sense.       *)
LEMMA PendingFinite ==
    ASSUME pending \subseteq Paths
    PROVE  IsFiniteSet(pending) /\ Cardinality(pending) \in Nat
  BY FS_Subset, FS_CardinalityType

(* The paths due returns are pending paths.                                *)
LEMMA SelectedPending ==
    ASSUME NEW limit
    PROVE  Selected(limit) \subseteq pending
  BY DEF Selected, DuePaths

-----------------------------------------------------------------------------
(* Every reachable state of the queue is well typed.                       *)
THEOREM TypeCorrect == Spec => []TypeOK
<1>1. Init => TypeOK
  <2> SUFFICES ASSUME Init PROVE TypeOK
    OBVIOUS
  <2>1. raw \in Seq(RawEvent)
    BY EmptySeq DEF Init
  <2>2. entry \in [Paths -> PendingPath]
    BY DEF Init, Blank, PendingPath
  <2>3. consumer \in ConsumerState
    BY DEF Init, ConsumerState, Scanning, Unlimited, Limited
  <2> QED BY <2>1, <2>2, <2>3 DEF Init, TypeOK
<1>2. TypeOK /\ [Next]_vars => TypeOK'
  <2> SUFFICES ASSUME TypeOK, [Next]_vars PROVE TypeOK'
    OBVIOUS
  <2>1. ASSUME NEW p \in Paths, SubmitExcluded(p) PROVE TypeOK'
    BY <2>1 DEF SubmitExcluded, TypeOK, queue, history
  <2>2. ASSUME NEW p \in Paths, NEW u \in Urgency, SubmitDebounced(p, u) PROVE TypeOK'
    <3>1. DueAt(u, now, entry[p].first) \in Nat
      BY DueAtType DEF TypeOK, PendingPath
    <3>2. entry' \in [Paths -> PendingPath]
      BY <2>2, <3>1 DEF SubmitDebounced, TypeOK, PendingPath
    <3>3. events_received' \in Nat /\ events_debounced' \in Nat
      <4>1. /\ events_received' = events_received + 1
            /\ events_debounced' = events_debounced + 1
        BY <2>2 DEF SubmitDebounced
      <4> QED BY <4>1 DEF TypeOK
    <3> QED BY <2>2, <3>2, <3>3 DEF SubmitDebounced, TypeOK, history
  <2>3. ASSUME NEW p \in Paths, NEW u \in Urgency, SubmitQueued(p, u) PROVE TypeOK'
    <3>1. raw' \in Seq(RawEvent)
      BY <2>3 DEF SubmitQueued, TypeOK, RawEvent
    <3> QED BY <2>3, <3>1 DEF SubmitQueued, TypeOK, history
  <2>4. ASSUME NEW p \in Paths, SubmitDropped(p) PROVE TypeOK'
    BY <2>4 DEF SubmitDropped, TypeOK, history
  <2>5. CASE IngestOne
    <3> DEFINE event == Head(raw)
               known == event.path \in pending
               first == IF known THEN entry[event.path].first ELSE event.at
    <3>1. event \in RawEvent /\ Tail(raw) \in Seq(RawEvent)
      BY <2>5, TakeRaw DEF IngestOne, TypeOK
    <3>2. event.path \in Paths /\ event.at \in Nat /\ event.urgency \in Urgency
      BY <3>1 DEF RawEvent
    <3>3. first \in Nat
      BY <3>2 DEF TypeOK, PendingPath
    <3>4. DueAt(event.urgency, event.at, first) \in Nat
      BY <3>2, <3>3, DueAtType
    <3>5. pending' \subseteq Paths
      BY <2>5, <3>2 DEF IngestOne, TypeOK
    <3>6. entry' \in [Paths -> PendingPath]
      BY <2>5, <3>2, <3>3, <3>4 DEF IngestOne, TypeOK, PendingPath
    <3>7. pending_high_water' \in Nat
      <4>1. Cardinality(pending') \in Nat
        BY <3>5, FS_Subset, FS_CardinalityType
      <4> QED BY <2>5, <4>1 DEF IngestOne, TypeOK
    <3>8. events_debounced' \in Nat /\ events_dropped' \in Nat
      <4>1. /\ events_debounced' = events_debounced + (IF known THEN 1 ELSE 0)
            /\ \/ events_dropped' = events_dropped + 0
               \/ events_dropped' = events_dropped + 1
        BY <2>5, Zenon DEF IngestOne
      <4> QED BY <4>1 DEF TypeOK
    <3>9. overflowed' \in BOOLEAN
      BY <2>5, Zenon DEF IngestOne
    <3> QED BY <2>5, <3>1, <3>5, <3>6, <3>7, <3>8, <3>9 DEF IngestOne, TypeOK, history
  <2>6. ASSUME NEW limit \in {Unlimited, Limited}, DueCall(limit) PROVE TypeOK'
    BY <2>6 DEF DueCall, TypeOK, queue, counters, history, ConsumerState
  <2>7. CASE DueIngested
    <3>1. consumer[2] \in {Unlimited, Limited}
      BY DEF TypeOK, ConsumerState
    <3> QED BY <2>7, <3>1 DEF DueIngested, TypeOK, queue, counters, history, ConsumerState
  <2>8. CASE DuePop
    <3>1. batch' \subseteq Paths /\ pending' \subseteq Paths
      BY <2>8, SelectedPending DEF DuePop, TypeOK
    <3>2. entry' \in [Paths -> PendingPath]
      BY <2>8 DEF DuePop, TypeOK, PendingPath, Blank
    <3>3. Cardinality(batch') \in Nat
      BY <3>1, FS_Subset, FS_CardinalityType
    <3> QED BY <2>8, <3>1, <3>2, <3>3
            DEF DuePop, TypeOK, counters, ConsumerState, Scanning, Unlimited
  <2>9. CASE ClearOverflow
    <3>1. events_dropped' \in Nat /\ acknowledged' \in Nat
      BY <2>9 DEF ClearOverflow, TypeOK
    <3> QED BY <2>9, <3>1 DEF ClearOverflow, TypeOK
  <2>10. CASE Tick
    BY <2>10 DEF Tick, TypeOK, queue, counters, history
  <2>11. CASE UNCHANGED vars
    BY <2>11 DEF vars, TypeOK, queue, counters, history
  <2> QED
    BY <2>1, <2>2, <2>3, <2>4, <2>5, <2>6, <2>7, <2>8, <2>9, <2>10, <2>11
    DEF Next, Submit, CallDue, DueIngest
<1> QED BY <1>1, <1>2, PTL DEF Spec

-----------------------------------------------------------------------------
(* Opening an entry for a path that has none adds one; removing a set of   *)
(* pending paths takes away as many as it holds.                           *)
LEMMA PendingCounts ==
    ASSUME pending \subseteq Paths
    PROVE  /\ \A p \in Paths \ pending :
                 Cardinality(pending \cup {p}) = Cardinality(pending) + 1
           /\ \A S \in SUBSET pending :
                 /\ Cardinality(S) \in Nat
                 /\ Cardinality(pending \ S) = Cardinality(pending) - Cardinality(S)
<1>1. IsFiniteSet(pending)
  BY PendingFinite
<1>2. ASSUME NEW p \in Paths \ pending
      PROVE  Cardinality(pending \cup {p}) = Cardinality(pending) + 1
  BY <1>1, FS_AddElement
<1>3. ASSUME NEW S \in SUBSET pending
      PROVE  /\ Cardinality(S) \in Nat
             /\ Cardinality(pending \ S) = Cardinality(pending) - Cardinality(S)
  <2>1. IsFiniteSet(S) /\ Cardinality(S) \in Nat
    BY <1>1, FS_Subset, FS_CardinalityType
  <2>2. pending \cap S = S
    OBVIOUS
  <2>3. Cardinality(pending \ S) = Cardinality(pending) - Cardinality(pending \cap S)
    BY <1>1, FS_Difference
  <2> QED BY <2>1, <2>2, <2>3
<1> QED BY <1>2, <1>3

(* What one turn of ingest does to the counts: the raw queue is one        *)
(* shorter, and with the capacity respected nothing is dropped; the event  *)
(* either joins an entry and is counted as debounced, or opens one.        *)
LEMMA IngestEffect ==
    ASSUME TypeOK, CapacityBound, IngestOne
    PROVE  /\ Len(raw) \in Nat /\ Len(raw') = Len(raw) - 1
           /\ events_dropped' = events_dropped /\ overflowed' = overflowed
           /\ \/ /\ Cardinality(pending') = Cardinality(pending)
                 /\ events_debounced' = events_debounced + 1
              \/ /\ Cardinality(pending') = Cardinality(pending) + 1
                 /\ events_debounced' = events_debounced
           /\ pending' = pending \cup {Head(raw).path}
<1> DEFINE event == Head(raw)
           known == event.path \in pending
           opens == ~known /\ HasRoom(Depth - 1)
<1>1. /\ event \in RawEvent /\ Len(raw) \in Nat \ {0}
      /\ Len(raw') = Len(raw) - 1 /\ event.path \in Paths
  BY TakeRaw DEF IngestOne, TypeOK, RawEvent
<1>2. Cardinality(pending) \in Nat
  BY PendingFinite DEF TypeOK
<1>3. HasRoom(Depth - 1)
  BY <1>1, <1>2 DEF HasRoom, CapacityBound, Depth
<1>4. known \/ opens
  BY <1>3
<1>5. /\ pending' = IF opens THEN pending \cup {event.path} ELSE pending
      /\ events_debounced' = events_debounced + (IF known THEN 1 ELSE 0)
      /\ events_dropped' = events_dropped + 0
  BY <1>4, Zenon DEF IngestOne
<1>6. events_dropped' = events_dropped
  BY <1>5 DEF TypeOK
<1>7. overflowed' = overflowed
  BY <1>4, Zenon DEF IngestOne, TypeOK
<1>8. CASE known
  BY <1>1, <1>5, <1>6, <1>7, <1>8
<1>9. CASE opens
  <2>1. Cardinality(pending \cup {event.path}) = Cardinality(pending) + 1
    BY <1>1, <1>9, PendingCounts DEF TypeOK
  <2>2. events_debounced' = events_debounced
    BY <1>5, <1>9 DEF TypeOK
  <2> QED BY <1>1, <1>5, <1>6, <1>7, <1>9, <2>1, <2>2
<1> QED BY <1>4, <1>8, <1>9

-----------------------------------------------------------------------------
(* Clock readings are never in the future: of raw events, and of first     *)
(* sightings.                                                              *)
ObservedPast == /\ \A i \in 1..Len(raw) : raw[i].at <= now
                /\ \A p \in pending : entry[p].first <= now

(* Every due time is past, or within the coalescing limit.                 *)
DueBounded == \A p \in pending :
                 entry[p].due <= now \/ entry[p].due <= entry[p].first + MaxCoalesce

(* The inductive invariant.                                                *)
QueueInv == TypeOK /\ CapacityBound /\ Accounting /\ OverflowTold
            /\ ObservedPast /\ DueBounded

LEMMA CapacityStep == QueueInv /\ [Next]_vars => CapacityBound'
<1> SUFFICES ASSUME QueueInv, [Next]_vars PROVE CapacityBound'
  OBVIOUS
<1> USE DEF CapacityBound, Depth, HasRoom
<1>0. Cardinality(pending) \in Nat /\ Len(raw) \in Nat
  BY PendingFinite, LenProperties DEF QueueInv, TypeOK
<1>1. ASSUME NEW p \in Paths, NEW u \in Urgency, SubmitQueued(p, u) PROVE CapacityBound'
  <2>1. Len(raw') = Len(raw) + 1 /\ pending' = pending
    BY <1>1, AppendProperties DEF SubmitQueued, QueueInv, TypeOK, RawEvent
  <2>2. Cardinality(pending) + Len(raw) < MaxEvents
    BY <1>1 DEF SubmitQueued
  <2> QED BY <1>0, <2>1, <2>2
<1>2. CASE IngestOne
  BY <1>0, <1>2, IngestEffect DEF QueueInv
<1>3. CASE DuePop
  <2>1. batch' \in SUBSET pending /\ pending' = pending \ batch' /\ raw' = raw
    BY <1>3, SelectedPending DEF DuePop
  <2>2. /\ Cardinality(batch') \in Nat
        /\ Cardinality(pending') = Cardinality(pending) - Cardinality(batch')
    BY <2>1, PendingCounts DEF QueueInv, TypeOK
  <2>3. Cardinality(pending) + Len(raw) <= MaxEvents
    BY DEF QueueInv
  <2> QED BY <1>0, <2>1, <2>2, <2>3
<1>4. CASE UNCHANGED <<pending, raw>>
  BY <1>4 DEF QueueInv
<1> QED
  BY <1>1, <1>2, <1>3, <1>4
  DEF Next, Submit, CallDue, DueIngest, vars, queue, SubmitExcluded, SubmitDebounced,
      SubmitDropped, DueCall, DueIngested, ClearOverflow, Tick

LEMMA AccountingStep == QueueInv /\ [Next]_vars => Accounting' /\ OverflowTold'
<1> SUFFICES ASSUME QueueInv, [Next]_vars PROVE Accounting' /\ OverflowTold'
  OBVIOUS
<1> USE DEF Accounting, OverflowTold
<1>0. /\ Cardinality(pending) \in Nat /\ Len(raw) \in Nat
      /\ events_received \in Nat /\ events_debounced \in Nat /\ events_dropped \in Nat
      /\ handed_out \in Nat /\ acknowledged \in Nat
  BY PendingFinite, LenProperties DEF QueueInv, TypeOK
<1>00. Accounting /\ OverflowTold
  BY DEF QueueInv
<1>1. ASSUME NEW p \in Paths, NEW u \in Urgency, SubmitDebounced(p, u)
      PROVE Accounting' /\ OverflowTold'
  <2>1. /\ events_received' = events_received + 1 /\ events_debounced' = events_debounced + 1
        /\ UNCHANGED <<raw, pending, overflowed, events_dropped, handed_out, acknowledged>>
    BY <1>1 DEF SubmitDebounced, history
  <2> QED BY <1>0, <1>00, <2>1
<1>2. ASSUME NEW p \in Paths, NEW u \in Urgency, SubmitQueued(p, u)
      PROVE Accounting' /\ OverflowTold'
  <2>1. Len(raw') = Len(raw) + 1
    BY <1>2, AppendProperties DEF SubmitQueued, QueueInv, TypeOK, RawEvent
  <2>2. /\ events_received' = events_received + 1
        /\ UNCHANGED <<pending, overflowed, events_debounced, events_dropped,
                       handed_out, acknowledged>>
    BY <1>2 DEF SubmitQueued, history
  <2> QED BY <1>0, <1>00, <2>1, <2>2
<1>3. ASSUME NEW p \in Paths, SubmitDropped(p) PROVE Accounting' /\ OverflowTold'
  <2>1. /\ events_received' = events_received + 1 /\ events_dropped' = events_dropped + 1
        /\ overflowed' = TRUE
        /\ UNCHANGED <<raw, pending, events_debounced, handed_out, acknowledged>>
    BY <1>3 DEF SubmitDropped, history
  <2>2. events_dropped' > 0
    BY <1>0, <2>1
  <2> QED BY <1>0, <1>00, <2>1, <2>2
<1>4. CASE IngestOne
  <2>1. UNCHANGED <<events_received, handed_out, acknowledged>>
    BY <1>4 DEF IngestOne, history
  <2>2. /\ Len(raw') = Len(raw) - 1
        /\ events_dropped' = events_dropped /\ overflowed' = overflowed
        /\ \/ /\ Cardinality(pending') = Cardinality(pending)
              /\ events_debounced' = events_debounced + 1
           \/ /\ Cardinality(pending') = Cardinality(pending) + 1
              /\ events_debounced' = events_debounced
    BY <1>4, IngestEffect DEF QueueInv
  <2>3. Accounting'
    BY <1>0, <1>00, <2>1, <2>2
  <2>4. OverflowTold'
    BY <1>00, <2>2
  <2> QED BY <2>3, <2>4
<1>5. CASE DuePop
  <2>1. /\ batch' \in SUBSET pending /\ pending' = pending \ batch'
        /\ handed_out' = handed_out + Cardinality(batch')
        /\ UNCHANGED <<raw, overflowed, events_received, events_debounced,
                       events_dropped, acknowledged>>
    BY <1>5, SelectedPending DEF DuePop, counters
  <2>2. /\ Cardinality(batch') \in Nat
        /\ Cardinality(pending') = Cardinality(pending) - Cardinality(batch')
    BY <2>1, PendingCounts DEF QueueInv, TypeOK
  <2> QED BY <1>0, <1>00, <2>1, <2>2
<1>6. CASE ClearOverflow
  <2>1. /\ overflowed' = FALSE /\ acknowledged' = acknowledged + events_dropped
        /\ events_dropped' = 0
        /\ UNCHANGED <<raw, pending, events_received, events_debounced, handed_out>>
    BY <1>6 DEF ClearOverflow
  <2> QED BY <1>0, <1>00, <2>1
<1>7. CASE UNCHANGED <<pending, raw, overflowed, events_received, events_debounced,
                       events_dropped, handed_out, acknowledged>>
  BY <1>7, <1>00
<1> QED
  BY <1>1, <1>2, <1>3, <1>4, <1>5, <1>6, <1>7
  DEF Next, Submit, CallDue, DueIngest, vars, queue, counters, history, SubmitExcluded,
      DueCall, DueIngested, Tick

LEMMA ObservedStep == QueueInv /\ [Next]_vars => ObservedPast' /\ DueBounded'
<1> SUFFICES ASSUME QueueInv, [Next]_vars PROVE ObservedPast' /\ DueBounded'
  OBVIOUS
<1> USE DEF ObservedPast, DueBounded
<1>0. /\ now \in Nat /\ MaxCoalesce \in Nat /\ pending \subseteq Paths
      /\ entry \in [Paths -> PendingPath]
      /\ \A p \in Paths : entry[p].first \in Nat /\ entry[p].due \in Nat
  BY DEF QueueInv, TypeOK, PendingPath, MaxCoalesce
<1>00. ObservedPast /\ DueBounded
  BY DEF QueueInv
<1>1. ASSUME NEW p \in Paths, NEW u \in Urgency, SubmitDebounced(p, u)
      PROVE ObservedPast' /\ DueBounded'
  <2> DEFINE due == DueAt(u, now, entry[p].first)
  <2>1. due \in Nat /\ (due <= now \/ due <= entry[p].first + MaxCoalesce)
    BY <1>0, DueAtType
  <2>2. UNCHANGED <<now, raw, pending>> /\ entry' = [entry EXCEPT ![p].due = due]
    BY <1>1 DEF SubmitDebounced
  <2> QED BY <1>0, <1>00, <2>1, <2>2 DEF PendingPath
<1>2. ASSUME NEW p \in Paths, NEW u \in Urgency, SubmitQueued(p, u)
      PROVE ObservedPast' /\ DueBounded'
  <2>1. UNCHANGED <<now, pending, entry>>
        /\ raw' = Append(raw, [path |-> p, urgency |-> u, at |-> now])
    BY <1>2 DEF SubmitQueued
  <2>2. raw \in Seq(RawEvent) /\ [path |-> p, urgency |-> u, at |-> now] \in RawEvent
    BY <1>0 DEF QueueInv, TypeOK, RawEvent
  <2>3. ASSUME NEW i \in 1..Len(raw') PROVE raw'[i].at <= now
    <3>1. i \in 1..(Len(raw) + 1)
      BY <2>1, <2>2, <2>3, AppendProperties
    <3>2. CASE i = Len(raw) + 1
      BY <1>0, <2>1, <2>2, <3>2, AppendProperties
    <3>3. CASE i \in 1..Len(raw)
      <4>1. raw'[i] = raw[i]
        BY <2>1, <2>2, <3>3, AppendProperties
      <4> QED BY <1>00, <3>3, <4>1
    <3> QED BY <2>2, <3>1, <3>2, <3>3, LenProperties
  <2> QED BY <1>00, <2>1, <2>3
<1>3. CASE IngestOne
  <2> DEFINE event == Head(raw)
             known == event.path \in pending
             opens == ~known /\ HasRoom(Depth - 1)
             first == IF known THEN entry[event.path].first ELSE event.at
             due   == DueAt(event.urgency, event.at, first)
  <2>1. /\ event \in RawEvent /\ Len(raw) \in Nat \ {0} /\ raw' = Tail(raw)
        /\ Len(raw') = Len(raw) - 1 /\ event = raw[1]
        /\ \A i \in 1..Len(raw') : raw'[i] = raw[i + 1]
    BY <1>3, TakeRaw DEF IngestOne, QueueInv, TypeOK
  <2>2. event.path \in Paths /\ event.at \in Nat /\ event.urgency \in Urgency
    BY <2>1 DEF RawEvent
  <2>3. event.at <= now
    BY <1>00, <2>1
  <2>4. first \in Nat /\ first <= now
    BY <1>0, <1>00, <2>2, <2>3
  <2>5. due \in Nat /\ (due <= now \/ due <= first + MaxCoalesce)
    <3>1. due \in Nat /\ (due <= event.at \/ due <= first + MaxCoalesce)
      BY <2>2, <2>4, DueAtType
    <3> QED BY <1>0, <2>2, <2>3, <3>1
  <2>6. pending' = pending \cup {event.path} /\ now' = now
    BY <1>3, IngestEffect DEF QueueInv, IngestOne
  <2>7. entry' = [entry EXCEPT ![event.path] = [first |-> first, due |-> due]]
    <3>1. event.path \in pending'
      BY <2>6
    <3>2. known \/ opens
      BY <1>3, <3>1, Zenon DEF IngestOne
    <3> QED BY <1>3, <3>2, Zenon DEF IngestOne
  <2>8. \A i \in 1..Len(raw') : raw'[i].at <= now'
    BY <1>00, <2>1, <2>6
  <2>9. ASSUME NEW q \in pending'
        PROVE  /\ entry'[q].first <= now'
               /\ entry'[q].due <= now' \/ entry'[q].due <= entry'[q].first + MaxCoalesce
    <3>1. CASE q = event.path
      <4>1. entry'[q] = [first |-> first, due |-> due]
        BY <1>0, <2>2, <2>7, <3>1
      <4> QED BY <2>4, <2>5, <2>6, <4>1
    <3>2. CASE q # event.path
      <4>1. q \in pending /\ entry'[q] = entry[q]
        BY <1>0, <2>6, <2>7, <2>9, <3>2
      <4> QED BY <1>00, <2>6, <4>1
    <3> QED BY <3>1, <3>2
  <2> QED BY <2>8, <2>9
<1>4. CASE DuePop
  <2>1. pending' = pending \ batch' /\ UNCHANGED <<now, raw>>
        /\ entry' = [p \in Paths |-> IF p \in batch' THEN Blank ELSE entry[p]]
    BY <1>4 DEF DuePop
  <2>2. \A p \in pending' : p \in pending /\ entry'[p] = entry[p]
    BY <1>0, <2>1
  <2> QED BY <1>00, <2>1, <2>2
<1>5. CASE Tick
  <2>1. now' = now + 1 /\ UNCHANGED <<raw, pending, entry>>
    BY <1>5 DEF Tick, queue
  <2>2. \A i \in 1..Len(raw) : raw[i].at \in Nat
    BY RawElement DEF QueueInv, TypeOK
  <2>3. ObservedPast'
    BY <1>0, <1>00, <2>1, <2>2
  <2>4. DueBounded'
    <3> SUFFICES ASSUME NEW p \in pending
                 PROVE  entry[p].due <= now + 1 \/ entry[p].due <= entry[p].first + MaxCoalesce
      BY <2>1
    <3>1. entry[p].due \in Nat
      BY <1>0
    <3> QED BY <1>0, <1>00, <3>1
  <2> QED BY <2>3, <2>4
<1>6. CASE UNCHANGED <<now, raw, pending, entry>>
  BY <1>6, <1>00
<1> QED
  BY <1>1, <1>2, <1>3, <1>4, <1>5, <1>6
  DEF Next, Submit, CallDue, DueIngest, vars, queue, SubmitExcluded, SubmitDropped,
      DueCall, DueIngested, ClearOverflow

-----------------------------------------------------------------------------
(* The strengthened invariant holds of every reachable state.              *)
THEOREM QueueInvariant == Spec => []QueueInv
<1>1. Init => CapacityBound /\ Accounting /\ OverflowTold /\ ObservedPast /\ DueBounded
  <2> SUFFICES ASSUME Init
               PROVE  CapacityBound /\ Accounting /\ OverflowTold /\ ObservedPast /\ DueBounded
    OBVIOUS
  <2>1. Cardinality(pending) = 0 /\ Len(raw) = 0
    BY FS_EmptySet, EmptySeq DEF Init
  <2>2. CapacityBound /\ Accounting
    BY <2>1 DEF Init, CapacityBound, Depth, Accounting
  <2>3. OverflowTold
    BY DEF Init, OverflowTold
  <2>4. ObservedPast /\ DueBounded
    BY <2>1 DEF Init, ObservedPast, DueBounded
  <2> QED BY <2>2, <2>3, <2>4
<1>2. TypeOK /\ CapacityBound /\ Accounting /\ OverflowTold /\ ObservedPast /\ DueBounded
      <=> QueueInv
  BY DEF QueueInv
<1>3. QueueInv /\ [Next]_vars
      => CapacityBound' /\ Accounting' /\ OverflowTold' /\ ObservedPast' /\ DueBounded'
  BY CapacityStep, AccountingStep, ObservedStep
<1> QED BY <1>1, <1>2, <1>3, TypeCorrect, PTL DEF Spec

(* For every limit and any number of threads: raw and coalesced entries    *)
(* together never exceed max_events.                                       *)
THEOREM Capacity == Spec => []CapacityBound
<1>1. QueueInv => CapacityBound
  BY DEF QueueInv
<1> QED BY <1>1, QueueInvariant, PTL

(* No report disappears without being counted.                             *)
THEOREM NothingDisappears == Spec => []Accounting
<1>1. QueueInv => Accounting
  BY DEF QueueInv
<1> QED BY <1>1, QueueInvariant, PTL

(* The flag the loop reads is up exactly while there are untold drops.     *)
THEOREM DropsAreTold == Spec => []OverflowTold
<1>1. QueueInv => OverflowTold
  BY DEF QueueInv
<1> QED BY <1>1, QueueInvariant, PTL

(* submit, ingest and due keep the books of the queue, whatever the order. *)
THEOREM BooksAreKept == Spec => []Bookkeeping
BY Capacity, NothingDisappears, DropsAreTold, PTL DEF Bookkeeping

(* A path can be postponed no longer than the coalescing limit.            *)
THEOREM NoStarvation == Spec => []AgedIsDue
<1>1. QueueInv => AgedIsDue
  <2> SUFFICES ASSUME QueueInv, NEW p \in pending, entry[p].first + MaxCoalesce <= now
               PROVE  entry[p].due <= now
    BY DEF AgedIsDue
  <2>1. now \in Nat /\ entry[p].first \in Nat /\ entry[p].due \in Nat /\ MaxCoalesce \in Nat
    BY DEF QueueInv, TypeOK, PendingPath, MaxCoalesce
  <2> QED BY <2>1 DEF QueueInv, DueBounded
<1> QED BY <1>1, QueueInvariant, PTL

(* Ingest never drops what submit accepted: the only step that shortens    *)
(* the raw queue leaves the drop count alone.                              *)
THEOREM AcceptedIsKept == Spec => AcceptedStaysAccepted
<1>1. QueueInv /\ [Next]_vars
      => [Len(raw') < Len(raw) => events_dropped' = events_dropped]_vars
  <2> SUFFICES ASSUME QueueInv, [Next]_vars, Len(raw') < Len(raw)
               PROVE  events_dropped' = events_dropped
    BY Zenon
  <2>1. Len(raw) \in Nat
    BY LenProperties DEF QueueInv, TypeOK
  <2>2. ASSUME NEW p \in Paths, NEW u \in Urgency, SubmitQueued(p, u)
        PROVE  events_dropped' = events_dropped
    BY <2>2 DEF SubmitQueued
  <2>3. CASE IngestOne
    BY <2>3, IngestEffect DEF QueueInv
  <2>4. CASE UNCHANGED raw
    BY <2>1, <2>4
  <2> QED
    BY <2>2, <2>3, <2>4
    DEF Next, Submit, CallDue, DueIngest, vars, queue, SubmitExcluded, SubmitDebounced,
        SubmitDropped, DueCall, DueIngested, DuePop, ClearOverflow, Tick
<1> QED BY <1>1, QueueInvariant, PTL DEF Spec, AcceptedStaysAccepted

-----------------------------------------------------------------------------
(* Taking the oldest raw event removes at most its own path from the raw   *)
(* paths, and adding one adds its path.                                    *)
LEMMA RawPathsAppend ==
    ASSUME raw \in Seq(RawEvent), NEW e \in RawEvent, raw' = Append(raw, e)
    PROVE  RawPaths' = RawPaths \cup {e.path}
<1>1. /\ Len(raw) \in Nat /\ Len(raw') = Len(raw) + 1
      /\ \A i \in 1..Len(raw) : raw'[i] = raw[i]
      /\ raw'[Len(raw) + 1] = e
  BY AppendProperties, LenProperties
<1>2. 1..Len(raw') = (1..Len(raw)) \cup {Len(raw) + 1}
  BY <1>1
<1> QED BY <1>1, <1>2 DEF RawPaths

LEMMA RawPathsTail ==
    ASSUME raw \in Seq(RawEvent), raw # <<>>, raw' = Tail(raw)
    PROVE  RawPaths = RawPaths' \cup {Head(raw).path}
<1>1. /\ Len(raw) \in Nat \ {0} /\ Len(raw') = Len(raw) - 1 /\ Head(raw) = raw[1]
      /\ \A i \in 1..Len(raw') : raw'[i] = raw[i + 1]
  BY TakeRaw
<1>2. ASSUME NEW i \in 1..Len(raw)
      PROVE  raw[i].path \in RawPaths' \cup {Head(raw).path}
  <2>1. CASE i = 1
    BY <1>1, <2>1
  <2>2. CASE i # 1
    <3>1. i - 1 \in 1..Len(raw') /\ raw'[i - 1] = raw[(i - 1) + 1]
      BY <1>1, <2>2
    <3>2. (i - 1) + 1 = i
      OBVIOUS
    <3> QED BY <3>1, <3>2 DEF RawPaths
  <2> QED BY <2>1, <2>2
<1>3. ASSUME NEW i \in 1..Len(raw')
      PROVE  raw'[i].path \in RawPaths
  <2>1. i + 1 \in 1..Len(raw)
    BY <1>1
  <2> QED BY <1>1, <2>1 DEF RawPaths
<1>4. Head(raw).path \in RawPaths
  BY <1>1 DEF RawPaths
<1> QED BY <1>2, <1>3, <1>4 DEF RawPaths

(* EventQueue implements PathObligations: what it owes are the paths in    *)
(* either half of the queue. Moving an event between the halves is a       *)
(* stutter, which needs the capacity invariant: ingest must not drop.      *)
THEOREM ImplementsObligations == Spec => KeepsObligations
<1> DEFINE owed == pending \cup RawPaths
<1>1. Init => Obligations!Init
  BY EmptySeq DEF Init, Obligations!Init, RawPaths
<1>2. QueueInv /\ [Next]_vars => [Obligations!Next]_Obligations!vars
  <2> SUFFICES ASSUME QueueInv, [Next]_vars
               PROVE  [Obligations!Next]_Obligations!vars
    OBVIOUS
  <2> USE DEF Obligations!Next, Obligations!vars
  <2>0. raw \in Seq(RawEvent) /\ pending \subseteq Paths /\ RawPaths \subseteq Paths
    BY RawElement DEF QueueInv, TypeOK, RawPaths
  <2>1. ASSUME NEW p \in Paths, NEW u \in Urgency, SubmitDebounced(p, u)
        PROVE  UNCHANGED Obligations!vars
    BY <2>1 DEF SubmitDebounced, RawPaths
  <2>2. ASSUME NEW p \in Paths, NEW u \in Urgency, SubmitQueued(p, u)
        PROVE  Obligations!Keep(p)
    <3>1. [path |-> p, urgency |-> u, at |-> now] \in RawEvent
      BY DEF QueueInv, TypeOK, RawEvent
    <3>2. RawPaths' = RawPaths \cup {p}
      BY <2>0, <2>2, <3>1, RawPathsAppend DEF SubmitQueued
    <3> QED BY <2>2, <3>2 DEF SubmitQueued, Obligations!Keep
  <2>3. ASSUME NEW p \in Paths, SubmitDropped(p) PROVE Obligations!Lose
    BY <2>3 DEF SubmitDropped, Obligations!Lose, RawPaths
  <2>4. CASE IngestOne
    <3>1. RawPaths = RawPaths' \cup {Head(raw).path}
      BY <2>0, <2>4, RawPathsTail DEF IngestOne
    <3>2. pending' = pending \cup {Head(raw).path} /\ overflowed' = overflowed
      BY <2>4, IngestEffect DEF QueueInv
    <3>3. owed' = owed
      BY <3>1, <3>2
    <3> QED BY <2>4, <3>2, <3>3 DEF IngestOne
  <2>5. ASSUME NEW limit \in {Unlimited, Limited}, DueCall(limit)
        PROVE  Obligations!Finish \/ UNCHANGED Obligations!vars
    BY <2>5 DEF DueCall, queue, Obligations!Finish, RawPaths
  <2>6. CASE DuePop
    <3>1. /\ batch' \subseteq pending /\ pending' = pending \ batch'
          /\ UNCHANGED <<raw, overflowed>>
      BY <2>6, SelectedPending DEF DuePop
    <3>2. RawPaths' = RawPaths
      BY <3>1 DEF RawPaths
    <3> HIDE DEF owed
    <3>3. batch' \subseteq owed /\ owed' \subseteq owed /\ owed \ batch' \subseteq owed'
      BY <3>1, <3>2 DEF owed
    <3>4. CASE batch' # {}
      BY <2>0, <3>1, <3>3, <3>4 DEF Obligations!HandOver, owed
    <3>5. CASE batch' = {}
      BY <3>1, <3>2, <3>5 DEF owed, Obligations!Finish
    <3> QED BY <3>4, <3>5
  <2>7. CASE ClearOverflow
    BY <2>7 DEF ClearOverflow, Obligations!Acknowledge, RawPaths
  <2>8. CASE UNCHANGED <<pending, raw, overflowed, batch>>
    BY <2>8 DEF RawPaths
  <2> QED
    BY <2>1, <2>2, <2>3, <2>4, <2>5, <2>6, <2>7, <2>8
    DEF Next, Submit, CallDue, DueIngest, vars, queue, SubmitExcluded, DueIngested, Tick
<1> QED BY <1>1, <1>2, QueueInvariant, PTL DEF Spec, KeepsObligations, Obligations!Spec

-----------------------------------------------------------------------------
(* Where record() is, and how much is still to be written. Every record    *)
(* of a handler goes through the sink before the next handler runs, so a   *)
(* session that may still begin a handler has room for what the handler,   *)
(* the end of the loop and the end of the session write.                   *)
Sinking ==
    /\ Len(unwritten) <= 2
    /\ sink # "ready" => unwritten # <<>>
    /\ phase = "off" => unwritten = <<>>

Taken == IF sink = "health" THEN 1 ELSE 0
Reserve == IF phase \in {"over", "off"} THEN 1 ELSE IF phase = "ending" THEN 2 ELSE 3

Counted ==
    \/ phase = "off" /\ acked = 0
    \/ acked + Len(unwritten) - Taken <= MaxRecords - Reserve

(* How far a rotation is: the current file is full until it has moved, and *)
(* the place a file moves to is free.                                      *)
Rotating ==
    /\ sink = "write" => Len(log[0]) < MaxBytes
    /\ sink \in {"unlink", "rotate"} => Len(log[0]) = MaxBytes
    /\ sink = "rotate" => log[shift + 1] = NoFile

(* The place of file i before the rotation under way.                      *)
Before(i) == IF sink = "rotate" /\ i > shift + 1 THEN i - 1 ELSE i

(* Where the newest record is, and what must have gone wrong for it to be  *)
(* in an older file.                                                       *)
Newest ==
    \/ acked = 0
    \/ faults >= MaxBytes + Backups - 1
    \/ \E i \in 0..Backups :
          /\ \E p \in 1..Len(log[i]) : log[i][p] = acked
          /\ i > 0 => faults >= Len(log[0]) + Before(i) - 1

(* Without faults a file is full when it becomes a backup.                 *)
Filled ==
    faults = 0 =>
        \A i \in 0..Backups : log[i] # <<>> => acked >= Before(i) * MaxBytes + Len(log[0])

LogInv ==
    /\ LogBounded /\ InOrder /\ OnlyOldestGone /\ RetainsWhatFits
    /\ Rotating /\ Newest /\ Filled

(* What becomes of a state when the records q are written, and whether     *)
(* there is no heartbeat among them.                                       *)
Result(state, q) ==
    CASE Len(q) = 0 -> state
      [] Len(q) = 1 -> StateAfter(state, q[1])
      [] Len(q) = 2 -> StateAfter(StateAfter(state, q[1]), q[2])

Quiet(q) == \A i \in 1..Len(q) : q[i].event # "health_heartbeat"

(* The state of the health file once the records still to be written are   *)
(* written, and whether incompleteness will still be without a record.     *)
Coming == Result(operational, unwritten)
ComingUntold == untold /\ Quiet(unwritten)

(* What a walk writes from the scanner's callbacks makes a state degraded  *)
(* or leaves it: no record of a walk may be lost that would have restored  *)
(* it.                                                                     *)
Plain(r) == \A state \in States : StateAfter(state, r) \in {state, "degraded"}

(* A record of a walk was lost between the sink's state and its file: the  *)
(* file still has the state before, and the next record brings it up to    *)
(* date, unless it is one of those that only the log has.                  *)
Behind ==
    /\ operational = "degraded" /\ health.state # "degraded"
    /\ health.state = "healthy" => inventoried
    /\ incomplete => \/ untold
                     \/ unwritten # <<>> /\ Head(unwritten).event # "event_superseded"

(* Until its first records are written, a session has no others.           *)
Opening ==
    \/ unwritten = <<Record("session_started", "none")>>
    \/ unwritten = <<Record("backend_fallback", "none"), Record("session_started", "none")>>

Told ==
    phase \in {"inventory", "loop", "walk"} =>
        /\ Coming # "degraded" => (incomplete => ComingUntold)
        /\ Coming = "healthy" => inventoried
        /\ Coming = "degraded" => incomplete \/ broken
        /\ phase # "inventory" => inventoried
        /\ operational = "healthy" => inventoried
        /\ phase \in {"inventory", "walk"} /\ Started =>
              \A i \in 1..Len(unwritten) : Plain(unwritten[i])
        /\ ~Started => Opening
        /\ Started => health.state = operational \/ Behind

EvidenceInv == EvidenceTypes /\ Sinking /\ Counted /\ LogInv /\ Told

-----------------------------------------------------------------------------
HIDE QueueAssumption
USE EvidenceAssumption

(* What a heartbeat and a health issue write are records.                  *)
LEMMA RecordTypes ==
    /\ \A flag \in BOOLEAN, whole \in BOOLEAN : Heartbeat(flag, whole) \in Records
    /\ \A issue \in Issues \cup {"fatal"} : IssueRecord(issue) \in Records
BY DEF Records, Record, Heartbeat, IssueRecord

(* The sequences of none, one and two records.                             *)
LEMMA ShortSequences ==
    /\ <<>> \in Seq(Records) /\ Len(<<>>) = 0
    /\ \A r \in Records : <<r>> \in Seq(Records) /\ Len(<<r>>) = 1 /\ <<r>> # <<>>
    /\ \A r \in Records : \A t \in Records :
          <<r, t>> \in Seq(Records) /\ Len(<<r, t>>) = 2 /\ <<r, t>> # <<>>
OBVIOUS

(* A handler of the watcher runs while nothing is being written, and       *)
(* leaves at most two records behind; it does not touch the files.         *)
LEMMA WatcherWrites ==
    ASSUME EvidenceTypes, Watcher
    PROVE  /\ unwritten = <<>> /\ sink = "ready"
           /\ unwritten' \in Seq(Records) /\ Len(unwritten') <= 2
           /\ phase' = "off" => unwritten' = <<>>
           /\ UNCHANGED <<sink, shift, tries, log, health, acked, faults>>
<1> USE DEF record, disk
<1>1. CASE StartSession
  <2>1. Record("session_started", "none") \in Records /\ Record("backend_fallback", "none") \in Records
    BY DEF Records, Record
  <2>2. unwritten' \in Seq(Records) /\ Len(unwritten') <= 2
    <3>1. CASE unwritten' = <<Record("session_started", "none")>>
      BY <2>1, <3>1, ShortSequences
    <3>2. CASE unwritten' = <<Record("backend_fallback", "none"), Record("session_started", "none")>>
      BY <2>1, <3>2, ShortSequences
    <3> QED BY <1>1, <3>1, <3>2, Zenon DEF StartSession
  <2> QED BY <1>1, <2>2 DEF StartSession, Watches
<1>2. CASE ScanClean
  <2>1. Record("scan_completed", "clean") \in Records /\ Record("event_superseded", "none") \in Records
    BY DEF Records, Record
  <2>2. unwritten' \in Seq(Records) /\ Len(unwritten') <= 2
    <3>1. CASE unwritten' = <<Record("scan_completed", "clean")>>
      BY <2>1, <3>1, ShortSequences
    <3>2. CASE unwritten' = <<Record("event_superseded", "none")>>
      BY <2>1, <3>2, ShortSequences
    <3> QED BY <1>2, <3>1, <3>2, Zenon DEF ScanClean
  <2> QED BY <1>2, <2>2 DEF ScanClean, Watches
<1>3. CASE ScanIncomplete
  <2>1. Record("scan_completed", "incomplete") \in Records
    BY DEF Records, Record
  <2> QED BY <1>3, <2>1, RecordTypes, ShortSequences DEF ScanIncomplete, Watches
<1>4. CASE PathUnreadable
  BY <1>4, RecordTypes, ShortSequences DEF PathUnreadable, Watches
<1>5. CASE QuarantineFails
  <2>1. Record("scan_completed", "clean") \in Records
    BY DEF Records, Record
  <2> QED BY <1>5, <2>1, ShortSequences DEF QuarantineFails, Watches
<1>6. ASSUME NEW issue \in BOOLEAN, InventoryEnds(issue)
      PROVE  /\ unwritten = <<>> /\ sink = "ready"
             /\ unwritten' \in Seq(Records) /\ Len(unwritten') <= 2
             /\ phase' = "off" => unwritten' = <<>>
             /\ UNCHANGED <<sink, shift, tries, log, health, acked, faults>>
  <2>1. \A o \in {"incomplete", "clean"} : Record("metadata_inventory_completed", o) \in Records
    BY DEF Records, Record
  <2> QED BY <1>6, <2>1, ShortSequences DEF InventoryEnds, Watches
<1>7. ASSUME NEW issue \in BOOLEAN, WalkEnds(issue)
      PROVE  /\ unwritten = <<>> /\ sink = "ready"
             /\ unwritten' \in Seq(Records) /\ Len(unwritten') <= 2
             /\ phase' = "off" => unwritten' = <<>>
             /\ UNCHANGED <<sink, shift, tries, log, health, acked, faults>>
  <2>1. \A o \in {"incomplete", "clean"} : Record("reconciliation_completed", o) \in Records
    BY DEF Records, Record
  <2> DEFINE done == Record("reconciliation_completed", IF issue THEN "incomplete" ELSE "clean")
             beat == Heartbeat(FALSE, TRUE)
  <2>3. done \in Records
    BY <2>1
  <2>2. beat \in Records
    BY RecordTypes, Zenon
  <2> HIDE DEF done, beat
  <2>4. unwritten' = <<done>> \/ unwritten' = <<done, beat>>
    BY <1>7, Zenon DEF WalkEnds, done, beat
  <2>5. unwritten' \in Seq(Records) /\ Len(unwritten') <= 2
    <3>1. /\ <<done>> \in Seq(Records) /\ Len(<<done>>) = 1
          /\ <<done, beat>> \in Seq(Records) /\ Len(<<done, beat>>) = 2
      BY <2>2, <2>3, ShortSequences, Zenon
    <3>2. /\ unwritten' \in Seq(Records)
          /\ Len(unwritten') \in {1, 2}
      BY <2>4, <3>1, Zenon
    <3>3. \A n \in {1, 2} : n <= 2
      OBVIOUS
    <3> QED BY <3>2, <3>3, Zenon
  <2> QED BY <1>7, <2>5 DEF WalkEnds, Watches
<1>8. ASSUME NEW issue \in BOOLEAN, LoopEnds(issue)
      PROVE  /\ unwritten = <<>> /\ sink = "ready"
             /\ unwritten' \in Seq(Records) /\ Len(unwritten') <= 2
             /\ phase' = "off" => unwritten' = <<>>
             /\ UNCHANGED <<sink, shift, tries, log, health, acked, faults>>
  BY <1>8, RecordTypes, ShortSequences DEF LoopEnds, Watches
<1>9. CASE WalkStarts
  BY <1>9, ShortSequences DEF WalkStarts, Watches
<1>10. CASE Beat
  <2> DEFINE flag == incomplete \/ (broken /\ phase # "loop")
             beat == Heartbeat(flag, FALSE)
  <2>0. flag \in BOOLEAN
    OBVIOUS
  <2>1. beat \in Records
    BY <2>0, RecordTypes, Zenon
  <2>2. unwritten' \in Seq(Records) /\ Len(unwritten') <= 2
    <3>1. unwritten' = <<beat>>
      BY <1>10, Zenon DEF Beat
    <3> HIDE DEF beat
    <3> QED BY <2>1, <3>1, ShortSequences
  <2> QED BY <1>10, <2>2 DEF Beat, Watches
<1>11. CASE Completes
  <2>1. Record("session_completed", "none") \in Records
    BY DEF Records, Record
  <2> QED BY <1>11, <2>1, ShortSequences DEF Completes
<1>12. CASE SessionOver
  BY <1>12, ShortSequences DEF SessionOver
<1> QED
  BY <1>1, <1>2, <1>3, <1>4, <1>5, <1>6, <1>7, <1>8, <1>9, <1>10, <1>11, <1>12 DEF Watcher

(* Taking the first of at most two records.                                *)
LEMMA TakeRecord ==
    ASSUME unwritten \in Seq(Records), unwritten # <<>>
    PROVE  /\ Head(unwritten) \in Records /\ Head(unwritten) = unwritten[1]
           /\ Tail(unwritten) \in Seq(Records)
           /\ Len(unwritten) \in Nat \ {0} /\ Len(Tail(unwritten)) = Len(unwritten) - 1
           /\ \A i \in 1..Len(Tail(unwritten)) : Tail(unwritten)[i] = unwritten[i + 1]
BY HeadTailProperties, LenProperties, EmptySeq

LEMMA StateAfterType ==
    ASSUME NEW state \in States, NEW r
    PROVE  StateAfter(state, r) \in States
BY DEF StateAfter, States

(* A file that takes one more record, or the torn part of one.             *)
LEMMA FileGrows ==
    ASSUME NEW n \in Nat, NEW file \in Seq(0..n), NEW x \in 0..(n + 1)
    PROVE  /\ Append(file, x) \in Seq(0..(n + 1))
           /\ Len(Append(file, x)) = Len(file) + 1 /\ Len(file) \in Nat
           /\ Append(file, x)[Len(file) + 1] = x
           /\ \A p \in 1..Len(file) : Append(file, x)[p] = file[p]
<1>1. file \in Seq(0..(n + 1))
  OBVIOUS
<1> QED BY <1>1, AppendProperties, LenProperties

-----------------------------------------------------------------------------
(* Every step keeps the types of the flags and of the sink, and leaves     *)
(* room for the records the session still has to write.                    *)
LEMMA WatcherTypes ==
    ASSUME EvidenceTypes, Sinking, Counted, Watcher
    PROVE  EvidenceTypes' /\ Sinking' /\ Counted'
<1>0. /\ unwritten = <<>> /\ sink = "ready" /\ Len(unwritten) = 0
      /\ unwritten' \in Seq(Records) /\ Len(unwritten') <= 2 /\ Len(unwritten') \in Nat
      /\ phase' = "off" => unwritten' = <<>>
      /\ UNCHANGED <<sink, shift, tries, log, health, acked, faults>>
  <2>1. \A q \in Seq(Records) : Len(q) \in Nat
    BY LenProperties
  <2> QED BY <2>1, WatcherWrites, ShortSequences
<1>1. Sinking'
  BY <1>0 DEF Sinking
<1>2. Counted'
  <2>1. phase = "off" => Len(unwritten) = 0
    BY <1>0
  <2>2. CASE Watches({"off", "inventory", "loop", "walk"})
    BY <1>0, <2>2 DEF Watches, Counted, Taken, Reserve, EvidenceTypes
  <2>3. CASE Completes
    <3>1. Len(unwritten') = 1 /\ phase' = "over" /\ phase = "ending"
      BY <2>3 DEF Completes
    <3> QED BY <1>0, <3>1 DEF Counted, Taken, Reserve, EvidenceTypes
  <2>4. CASE SessionOver
    <3>1. Len(unwritten') = 0 /\ phase' = "off" /\ phase = "over"
      BY <1>0, <2>4 DEF SessionOver
    <3> QED BY <1>0, <3>1 DEF Counted, Taken, Reserve, EvidenceTypes
  <2> QED
    BY <2>2, <2>3, <2>4, Zenon
    DEF Watcher, StartSession, ScanClean, ScanIncomplete, PathUnreadable, QuarantineFails,
        InventoryEnds, WalkStarts, WalkEnds, Beat, LoopEnds, Watches
<1>3. /\ phase' \in Running \cup {"over", "off"}
      /\ inventoried' \in BOOLEAN /\ incomplete' \in BOOLEAN /\ persistent' \in BOOLEAN
      /\ moved' \in BOOLEAN /\ untold' \in BOOLEAN
      /\ broken' \in BOOLEAN /\ marred' \in BOOLEAN
      /\ told' \subseteq Issues
      /\ operational' \in States
  <2> USE DEF EvidenceTypes, Running, record, truth
  <2>1. CASE StartSession
    BY <2>1 DEF StartSession, Fresh, States
  <2>2. CASE ScanClean
    BY <2>2, Zenon DEF ScanClean
  <2>3. CASE ScanIncomplete
    BY <2>3 DEF ScanIncomplete
  <2>4. CASE PathUnreadable
    BY <2>4 DEF PathUnreadable
  <2>5. CASE QuarantineFails
    BY <2>5 DEF QuarantineFails
  <2>6. ASSUME NEW issue \in BOOLEAN, InventoryEnds(issue) \/ WalkEnds(issue) \/ LoopEnds(issue)
        PROVE  /\ phase' \in {"loop", "ending"}
               /\ inventoried' \in BOOLEAN /\ incomplete' \in BOOLEAN /\ persistent' \in BOOLEAN
               /\ moved' \in BOOLEAN /\ untold' = untold /\ told' = told
               /\ broken' = broken /\ (marred' = marred \/ marred' = FALSE)
               /\ operational' = operational
    BY <2>6, Zenon DEF InventoryEnds, WalkEnds, LoopEnds
  <2>7. CASE WalkStarts
    BY <2>7 DEF WalkStarts
  <2>8. CASE Beat
    BY <2>8, Zenon DEF Beat
  <2>9. CASE Completes \/ SessionOver
    BY <2>9 DEF Completes, SessionOver, Fresh, States
  <2> QED BY <2>1, <2>2, <2>3, <2>4, <2>5, <2>6, <2>7, <2>8, <2>9 DEF Watcher
<1> QED BY <1>0, <1>1, <1>2, <1>3 DEF EvidenceTypes
(* What a torn write leaves: the file with a part of a record at its end.  *)
LEMMA TornWrite ==
    ASSUME log \in [0..Backups -> Seq(0..acked)], acked \in Nat,
           log' \in {log} \cup
                (IF sink = "write" THEN {[log EXCEPT ![0] = Append(@, Torn)]} ELSE {})
    PROVE  /\ log' \in [0..Backups -> Seq(0..acked)]
           /\ \/ log' = log
              \/ /\ sink = "write"
                 /\ log' = [log EXCEPT ![0] = Append(log[0], Torn)]
                 /\ Len(log'[0]) = Len(log[0]) + 1 /\ Len(log[0]) \in Nat
                 /\ log'[0][Len(log[0]) + 1] = Torn
                 /\ \A p \in 1..Len(log[0]) : log'[0][p] = log[0][p]
                 /\ \A i \in 1..Backups : log'[i] = log[i]
<1>1. CASE log' = log
  BY <1>1
<1>2. CASE sink = "write" /\ log' = [log EXCEPT ![0] = Append(log[0], Torn)]
  <2>1. log[0] \in Seq(0..acked) /\ Torn \in 0..acked
    BY DEF Torn
  <2>2. /\ Append(log[0], Torn) \in Seq(0..acked) /\ Len(log[0]) \in Nat
        /\ Len(Append(log[0], Torn)) = Len(log[0]) + 1
        /\ Append(log[0], Torn)[Len(log[0]) + 1] = Torn
        /\ \A p \in 1..Len(log[0]) : Append(log[0], Torn)[p] = log[0][p]
    BY <2>1, AppendProperties, LenProperties
  <2>3. log'[0] = Append(log[0], Torn) /\ \A i \in 1..Backups : log'[i] = log[i]
    BY <1>2
  <2>4. log' \in [0..Backups -> Seq(0..acked)]
    BY <1>2, <2>2
  <2> QED BY <1>2, <2>2, <2>3, <2>4
<1> QED BY <1>1, <1>2

LEMMA SinkTypes ==
    ASSUME EvidenceTypes, Sinking, Counted, Sink \/ Killed \/ WriteFails \/ PipelineBreaks
    PROVE  EvidenceTypes' /\ Sinking' /\ Counted'
<1> USE DEF EvidenceTypes, truth, disk
<1>0. /\ Len(unwritten) \in Nat /\ Len(unwritten) <= 2
      /\ sink # "ready" => Len(unwritten) \in 1..2
      /\ log[0] \in Seq(0..acked)
  <2>1. \A q \in Seq(Records) : Len(q) \in Nat /\ (q # <<>> => Len(q) # 0)
    BY LenProperties, EmptySeq
  <2>2. log[0] \in Seq(0..acked)
    OBVIOUS
  <2>3. Len(unwritten) \in Nat /\ (unwritten # <<>> => Len(unwritten) # 0)
    BY <2>1
  <2>4. Len(unwritten) <= 2 /\ (sink # "ready" => unwritten # <<>>)
    BY DEF Sinking
  <2>5. sink # "ready" => Len(unwritten) \in 1..2
    <3> HIDE DEF EvidenceTypes
    <3>1. \A n \in Nat : n # 0 /\ n <= 2 => n \in 1..2
      OBVIOUS
    <3> QED BY <2>3, <2>4, <3>1, Zenon
  <2> QED BY <2>2, <2>3, <2>4, <2>5
<1>1. CASE AppendBegins
  <2>1. unwritten' = unwritten /\ sink' \in {"unlink", "write"} /\ sink = "ready"
        /\ unwritten # <<>> /\ phase' = phase /\ acked' = acked
    BY <1>1 DEF AppendBegins
  <2>2. EvidenceTypes'
    BY <1>1, <2>1 DEF AppendBegins
  <2>3. Sinking' /\ Counted'
    BY <2>1, <1>0 DEF Sinking, Counted, Taken, Reserve
  <2> QED BY <2>2, <2>3
<1>2. CASE Unlink
  <2>1. log' \in [0..Backups -> Seq(0..acked)]
    BY <1>2, EmptySeq DEF Unlink, NoFile
  <2> QED BY <1>2, <2>1 DEF Unlink, Sinking, Counted, Taken, Reserve
<1>3. CASE Rotate
  <2>1. log' \in [0..Backups -> Seq(0..acked)]
    <3>1. CASE log' = log
      BY <3>1
    <3>2. CASE log' = [log EXCEPT ![shift + 1] = log[shift], ![shift] = NoFile]
      <4>1. NoFile \in Seq(0..acked) /\ log[shift] \in Seq(0..acked)
        BY EmptySeq DEF NoFile
      <4> QED BY <3>2, <4>1
    <3> QED BY <1>3, <3>1, <3>2 DEF Rotate
  <2>2. shift' \in 0..(Backups - 1) /\ sink' \in {"rotate", "write"}
    BY <1>3 DEF Rotate
  <2> QED BY <1>3, <2>1, <2>2 DEF Rotate, Sinking, Counted, Taken, Reserve
<1>4. CASE Write
  <2>1. acked' = acked + 1 /\ sink = "write" /\ sink' = "health" /\ unwritten' = unwritten
        /\ phase' = phase
    BY <1>4 DEF Write
  <2>2. Append(log[0], acked + 1) \in Seq(0..(acked + 1))
    BY <1>0, FileGrows
  <2>3. \A i \in 0..Backups : log[i] \in Seq(0..(acked + 1))
    OBVIOUS
  <2>4. log' \in [0..Backups -> Seq(0..acked')]
    BY <1>4, <2>1, <2>2, <2>3 DEF Write
  <2>5. Sinking'
    BY <2>1 DEF Sinking
  <2>6. phase # "off"
    BY <2>1 DEF Sinking
  <2>7. acked + Len(unwritten) <= MaxRecords - Reserve
    BY <1>0, <2>1, <2>6 DEF Counted, Taken, Reserve
  <2>8. Counted' /\ acked' <= MaxRecords
    BY <1>0, <2>1, <2>7 DEF Counted, Taken, Reserve
  <2> QED BY <1>4, <2>1, <2>4, <2>5, <2>8 DEF Write
<1>5. CASE HealthSkipped \/ HealthWritten
  <2>1. /\ unwritten' = Tail(unwritten) /\ sink = "health" /\ sink' = "ready"
        /\ UNCHANGED <<phase, truth, shift, log, acked, faults>>
    BY <1>5 DEF HealthSkipped, HealthWritten
  <2>2. Tail(unwritten) \in Seq(Records) /\ Len(Tail(unwritten)) = Len(unwritten) - 1
    BY <2>1, TakeRecord DEF Sinking
  <2>3. Sinking'
    BY <1>0, <2>1, <2>2 DEF Sinking
  <2>4. Counted'
    BY <1>0, <2>1, <2>2 DEF Sinking, Counted, Taken, Reserve
  <2>5. untold' \in BOOLEAN
    BY <1>5, Zenon DEF HealthSkipped, HealthWritten
  <2>6. operational' \in States /\ tries' \in 0..Attempts
        /\ health'.state \in States \cup {"none"} /\ health'.number \in 0..acked
    BY <1>5, StateAfterType DEF HealthSkipped, HealthWritten
  <2> QED BY <2>1, <2>2, <2>3, <2>4, <2>5, <2>6
<1>6. CASE HealthBusy
  BY <1>6 DEF HealthBusy, Sinking, Counted, Taken, Reserve
<1>7. CASE Killed
  <2>1. /\ unwritten' = <<>> /\ sink' = "ready" /\ shift' = 0 /\ tries' = 0
        /\ faults' = faults + 1 /\ phase' = "off" /\ phase # "off" /\ faults < MaxFaults
        /\ UNCHANGED <<health, acked>> /\ Fresh
    BY <1>7 DEF Killed, Dies
  <2>2. log' \in [0..Backups -> Seq(0..acked)]
    BY <1>7, TornWrite DEF Killed
  <2>3. Len(unwritten') = 0 /\ unwritten' \in Seq(Records)
    BY <2>1, ShortSequences
  <2>4. Sinking' /\ Counted'
    BY <1>0, <2>1, <2>3 DEF Sinking, Counted, Taken, Reserve
  <2>5. /\ inventoried' \in BOOLEAN /\ incomplete' \in BOOLEAN /\ persistent' \in BOOLEAN
        /\ moved' \in BOOLEAN /\ untold' \in BOOLEAN /\ broken' \in BOOLEAN
        /\ marred' \in BOOLEAN
    BY <2>1, Zenon DEF Fresh
  <2>6. told' \subseteq Issues /\ operational' \in States
    BY <2>1 DEF Fresh, States
  <2>7. /\ phase' \in Running \cup {"over", "off"}
        /\ sink' \in {"ready", "unlink", "rotate", "write", "health"}
        /\ shift' \in 0..(Backups - 1) /\ tries' \in 0..Attempts
        /\ health'.state \in States \cup {"none"}
        /\ health'.number \in 0..acked' /\ acked' \in 0..MaxRecords
        /\ faults' \in 0..MaxFaults /\ log' \in [0..Backups -> Seq(0..acked')]
    BY <2>1, <2>2
  <2> QED BY <2>3, <2>4, <2>5, <2>6, <2>7, Zenon
<1>8. CASE WriteFails
  <2>1. /\ sink # "ready" /\ sink' = "ready" /\ shift' = 0 /\ tries' = 0
        /\ faults' = faults + 1 /\ faults < MaxFaults
        /\ UNCHANGED <<health, acked>>
    BY <1>8 DEF WriteFails
  <2>2. log' \in [0..Backups -> Seq(0..acked)]
    BY <1>8, TornWrite DEF WriteFails
  <2>3. /\ unwritten' \in Seq(Records) /\ Len(unwritten') \in 0..1
        /\ phase' \in {phase, "ending", "over"}
        /\ phase' = "ending" => phase \in Running \ {"ending"}
        /\ Len(unwritten') # 0 => phase \in Running /\ phase' \in {"ending", "over"}
    <3>1. IssueRecord("fatal") \in Records
      BY RecordTypes
    <3>2. CASE Swallowed
      BY <3>2, ShortSequences DEF Swallowed
    <3>3. CASE EndsSession
      <4>1. unwritten' = <<>> \/ (phase \in Running /\ unwritten' = <<IssueRecord("fatal")>>)
        BY <3>3 DEF EndsSession
      <4>2. unwritten' \in Seq(Records) /\ Len(unwritten') \in 0..1
            /\ (Len(unwritten') # 0 => phase \in Running)
        <5>1. CASE unwritten' = <<>>
          BY <5>1, ShortSequences
        <5>2. CASE phase \in Running /\ unwritten' = <<IssueRecord("fatal")>>
          <6>1. <<IssueRecord("fatal")>> \in Seq(Records) /\ Len(<<IssueRecord("fatal")>>) = 1
            BY <3>1, ShortSequences, Zenon
          <6>2. unwritten' \in Seq(Records) /\ Len(unwritten') = 1
            BY <5>2, <6>1, Zenon
          <6> QED BY <5>2, <6>2
        <5> QED BY <4>1, <5>1, <5>2
      <4>3. phase' = "over" \/ (phase' = "ending" /\ phase \in Running \ {"ending"})
        BY <3>3 DEF EndsSession
      <4> QED BY <4>2, <4>3
    <3> QED BY <1>8, <3>2, <3>3 DEF WriteFails
  <2>4. Sinking'
    <3>1. phase # "off"
      BY <2>1 DEF Sinking
    <3>2. phase' # "off" /\ Len(unwritten') <= 2
      <4>1. \A n \in 0..1 : n <= 2
        OBVIOUS
      <4>2. phase' # "off"
        BY <2>3, <3>1
      <4> QED BY <2>3, <4>1, <4>2, Zenon
    <3> QED BY <2>1, <3>2 DEF Sinking
  <2>5. Counted'
    <3>1. phase # "off" /\ Len(unwritten) \in 1..2
      BY <1>0, <2>1 DEF Sinking
    <3>2. acked + Len(unwritten) - Taken <= MaxRecords - Reserve
      BY <3>1 DEF Counted
    <3>3. Taken \in 0..1 /\ Taken' = 0 /\ acked' = acked
      BY <2>1 DEF Taken
    <3>7. acked \in Nat
      OBVIOUS
    <3>4. acked <= MaxRecords - Reserve /\ Reserve \in 1..3
      <4> HIDE DEF EvidenceTypes
      <4>1. Reserve \in 1..3
        BY DEF Reserve
      <4> QED BY <3>1, <3>2, <3>3, <3>7, <4>1
    <3>5. Reserve' \in 1..3 /\ Reserve' + Len(unwritten') <= Reserve
      <4> HIDE DEF EvidenceTypes
      <4>1. CASE Len(unwritten') = 0
        BY <2>3, <3>1, <4>1 DEF Reserve, Running
      <4>2. CASE Len(unwritten') # 0
        <5>1. Len(unwritten') = 1
          BY <2>3, <4>2
        <5>2. phase' = "ending" => Reserve = 3
          BY <2>3 DEF Reserve, Running
        <5>3. phase' = "over" => Reserve \in {2, 3}
          BY <2>3, <4>2 DEF Reserve, Running
        <5>4. (phase' = "ending" => Reserve' = 2) /\ (phase' = "over" => Reserve' = 1)
          BY DEF Reserve
        <5>5. phase' = "ending" \/ phase' = "over"
          BY <2>3, <4>2
        <5> QED BY <5>1, <5>2, <5>3, <5>4, <5>5
      <4> QED BY <4>1, <4>2
    <3>6. acked + Len(unwritten') <= MaxRecords - Reserve'
      <4> HIDE DEF EvidenceTypes
      <4> QED BY <2>3, <3>4, <3>5, <3>7
    <3> QED BY <3>3, <3>6, <2>3 DEF Counted
  <2>6. /\ incomplete' \in BOOLEAN /\ persistent' \in BOOLEAN
        /\ inventoried' \in BOOLEAN /\ moved' \in BOOLEAN /\ untold' \in BOOLEAN
        /\ broken' \in BOOLEAN /\ marred' \in BOOLEAN /\ told' = told
    <3>1. CASE Swallowed
      BY <3>1, Zenon DEF Swallowed
    <3>2. CASE EndsSession
      BY <3>2, Zenon DEF EndsSession
    <3> QED BY <1>8, <3>1, <3>2 DEF WriteFails
  <2>7. operational' \in States
    <3>1. StateAfter(operational, Head(unwritten)) \in States
      BY StateAfterType
    <3> QED BY <1>8, <3>1, Zenon DEF WriteFails
  <2>8. phase' \in Running \cup {"over", "off"} /\ sink' \in {"ready", "unlink", "rotate", "write", "health"}
    BY <2>1, <2>3 DEF Running
  <2>9. /\ told' \subseteq Issues /\ health'.state \in States \cup {"none"}
        /\ health'.number \in 0..acked' /\ acked' \in 0..MaxRecords
        /\ faults' \in 0..MaxFaults /\ shift' \in 0..(Backups - 1) /\ tries' \in 0..Attempts
        /\ log' \in [0..Backups -> Seq(0..acked')]
    BY <2>1, <2>2, <2>6
  <2> QED BY <2>3, <2>4, <2>5, <2>6, <2>7, <2>8, <2>9, Zenon
<1>9. CASE PipelineBreaks
  <2>1. Sinking' /\ Counted'
    BY <1>9 DEF PipelineBreaks, record, Sinking, Counted, Taken, Reserve
  <2> QED BY <1>9, <2>1 DEF PipelineBreaks, record
<1> QED BY <1>1, <1>2, <1>3, <1>4, <1>5, <1>6, <1>7, <1>8, <1>9 DEF Sink
-----------------------------------------------------------------------------
(* The files hold records the log has taken, and torn ones.                *)
LEMMA FilesType ==
    ASSUME EvidenceTypes
    PROVE  /\ acked \in Nat /\ faults \in Nat /\ shift \in 0..(Backups - 1)
           /\ \A i \in 0..Backups :
                /\ Len(log[i]) \in Nat /\ (Len(log[i]) = 0 <=> log[i] = <<>>)
                /\ \A p \in 1..Len(log[i]) : log[i][p] \in 0..acked
<1>1. \A q \in Seq(0..acked) : /\ Len(q) \in Nat /\ (Len(q) = 0 <=> q = <<>>)
                               /\ \A p \in 1..Len(q) : q[p] \in 0..acked
  BY LenProperties, EmptySeq, ElementOfSeq
<1>2. acked \in Nat /\ faults \in Nat /\ shift \in 0..(Backups - 1)
  BY DEF EvidenceTypes
<1>3. \A i \in 0..Backups : log[i] \in Seq(0..acked)
  BY DEF EvidenceTypes
<1> QED BY <1>1, <1>2, <1>3

(* A step that leaves the files alone: only a fault ends a rotation early. *)
LEMMA LogStill ==
    ASSUME EvidenceTypes, LogInv, UNCHANGED <<log, acked>>, Rotating',
           sink' # "rotate",
           (faults' = faults /\ sink # "rotate") \/ faults' = faults + 1
    PROVE  LogInv'
<1>0. acked \in Nat /\ faults \in Nat /\ shift \in 0..(Backups - 1) /\ Len(log[0]) \in Nat
  BY FilesType
<1>1. LogBounded' /\ InOrder' /\ OnlyOldestGone'
  BY DEF LogInv, LogBounded, InOrder, OnlyOldestGone, IsKept
<1>2. RetainsWhatFits'
  <2>1. faults' = 0 => faults = 0
    BY <1>0
  <2>2. \A n : IsKept(n)' <=> IsKept(n)
    BY DEF IsKept
  <2>3. acked' = acked
    OBVIOUS
  <2>4. RetainsWhatFits
    BY DEF LogInv
  <2> QED BY <2>1, <2>2, <2>3, <2>4, Zenon DEF RetainsWhatFits
<1>3. Newest'
  <2>1. CASE acked = 0 \/ faults >= MaxBytes + Backups - 1
    BY <1>0, <2>1 DEF Newest
  <2>2. ASSUME NEW i \in 0..Backups, NEW p \in 1..Len(log[i]), log[i][p] = acked,
               i > 0 => faults >= Len(log[0]) + Before(i) - 1
        PROVE  Newest'
    <3>1. i > 0 => faults' >= Len(log[0]) + i - 1
      <4>1. CASE sink # "rotate"
        <5>1. Before(i) = i /\ faults' >= faults
          BY <1>0, <4>1 DEF Before
        <5> QED BY <1>0, <2>2, <5>1
      <4>2. CASE faults' = faults + 1
        <5>1. Before(i) >= i - 1 /\ Before(i) \in Int
          BY <1>0 DEF Before
        <5> QED BY <1>0, <2>2, <4>2, <5>1
      <4> QED BY <4>1, <4>2
    <3> QED BY <2>2, <3>1 DEF Newest, Before
  <2> QED BY <2>1, <2>2 DEF LogInv, Newest
<1>4. Filled'
  <2>1. CASE faults' = 0
    <3>1. faults = 0 /\ sink # "rotate"
      BY <1>0, <2>1
    <3> QED BY <3>1 DEF LogInv, Filled, Before
  <2> QED BY <2>1 DEF Filled
<1> QED BY <1>1, <1>2, <1>3, <1>4 DEF LogInv

(* The mark of a torn record at the end of the current file.               *)
LEMMA LogTorn ==
    ASSUME EvidenceTypes, LogInv, acked' = acked, faults' = faults + 1, sink = "write",
           sink' = "ready",
           Len(log'[0]) = Len(log[0]) + 1,
           log'[0][Len(log[0]) + 1] = Torn,
           \A p \in 1..Len(log[0]) : log'[0][p] = log[0][p],
           \A i \in 1..Backups : log'[i] = log[i]
    PROVE  LogInv'
<1>0. /\ acked \in Nat /\ faults \in Nat /\ Len(log[0]) \in Nat
      /\ \A i \in 0..Backups : Len(log[i]) \in Nat
  BY FilesType
<1>1. \A i \in 0..Backups : \A p \in 1..Len(log'[i]) :
         \/ i = 0 /\ log'[i][p] = Torn
         \/ p \in 1..Len(log[i]) /\ log'[i][p] = log[i][p]
  <2>1. ASSUME NEW p \in 1..Len(log'[0])
        PROVE  log'[0][p] = Torn \/ (p \in 1..Len(log[0]) /\ log'[0][p] = log[0][p])
    <3>1. p \in 1..Len(log[0]) \/ p = Len(log[0]) + 1
      BY <1>0
    <3> QED BY <3>1
  <2>2. ASSUME NEW i \in 1..Backups, NEW p \in 1..Len(log'[i])
        PROVE  p \in 1..Len(log[i]) /\ log'[i][p] = log[i][p]
    OBVIOUS
  <2>3. \A i \in 0..Backups : i = 0 \/ i \in 1..Backups
    OBVIOUS
  <2> QED BY <2>1, <2>2, <2>3, Zenon
<1>2. \A i \in 0..Backups : \A p \in 1..Len(log[i]) :
         p \in 1..Len(log'[i]) /\ log'[i][p] = log[i][p]
  BY <1>0
<1>3. LogBounded'
  BY <1>0 DEF LogInv, LogBounded, Rotating
<1>4. InOrder'
  <2> SUFFICES ASSUME NEW i \in 0..Backups, NEW j \in 0..Backups,
                      NEW p \in 1..Len(log'[i]), NEW q \in 1..Len(log'[j]),
                      i > j \/ (i = j /\ p < q), log'[i][p] # Torn, log'[j][q] # Torn
               PROVE  log'[i][p] < log'[j][q]
    BY DEF InOrder
  <2>1. /\ p \in 1..Len(log[i]) /\ log'[i][p] = log[i][p]
        /\ q \in 1..Len(log[j]) /\ log'[j][q] = log[j][q]
    BY <1>1
  <2> QED BY <2>1 DEF LogInv, InOrder
<1>5. ASSUME NEW n \in 1..acked PROVE IsKept(n)' <=> IsKept(n)
  <2>1. ASSUME IsKept(n)' PROVE IsKept(n)
    <3>1. PICK i \in 0..Backups : \E p \in 1..Len(log'[i]) : log'[i][p] = n
      BY <2>1 DEF IsKept
    <3>2. PICK p \in 1..Len(log'[i]) : log'[i][p] = n
      BY <3>1
    <3>3. p \in 1..Len(log[i]) /\ log[i][p] = n
      BY <1>0, <1>1, <3>2 DEF Torn
    <3> QED BY <3>3 DEF IsKept
  <2>2. ASSUME IsKept(n) PROVE IsKept(n)'
    <3>1. PICK i \in 0..Backups : \E p \in 1..Len(log[i]) : log[i][p] = n
      BY <2>2 DEF IsKept
    <3>2. PICK p \in 1..Len(log[i]) : log[i][p] = n
      BY <3>1
    <3> QED BY <1>2, <3>2 DEF IsKept
  <2> QED BY <2>1, <2>2
<1>6. OnlyOldestGone'
  <2> SUFFICES ASSUME NEW n \in 1..acked, NEW m \in 1..n, IsKept(m)' PROVE IsKept(n)'
    BY DEF OnlyOldestGone
  <2>1. m \in 1..acked
    BY <1>0
  <2> QED BY <1>5, <2>1 DEF LogInv, OnlyOldestGone
<1>7. RetainsWhatFits' /\ Filled'
  BY <1>0 DEF RetainsWhatFits, Filled
<1>8. Newest'
  <2>1. CASE acked = 0 \/ faults >= MaxBytes + Backups - 1
    BY <1>0, <2>1 DEF Newest
  <2>2. ASSUME NEW i \in 0..Backups, NEW p \in 1..Len(log[i]), log[i][p] = acked,
               i > 0 => faults >= Len(log[0]) + Before(i) - 1
        PROVE  Newest'
    <3>1. i > 0 => faults' >= Len(log'[0]) + i - 1
      BY <1>0, <2>2 DEF Before
    <3> QED BY <1>2, <2>2, <3>1 DEF Newest, Before
  <2> QED BY <2>1, <2>2 DEF LogInv, Newest
<1>9. Rotating'
  BY DEF Rotating
<1> QED BY <1>3, <1>4, <1>6, <1>7, <1>8, <1>9 DEF LogInv
(* The oldest file is removed. Nothing newer goes with it: its records are *)
(* older than every other one.                                             *)
LEMMA LogUnlink ==
    ASSUME EvidenceTypes, LogInv, Unlink
    PROVE  LogInv'
<1>0. /\ acked \in Nat /\ faults \in Nat /\ Len(log[0]) \in Nat /\ Backups \in Nat \ {0}
      /\ \A i \in 0..Backups : Len(log[i]) \in Nat
  BY FilesType
<1>1. /\ sink = "unlink" /\ sink' = "rotate" /\ shift' = Backups - 1
      /\ UNCHANGED <<acked, faults>>
      /\ log' = [log EXCEPT ![Backups] = NoFile]
  BY DEF Unlink
<1>2. /\ log'[Backups] = NoFile /\ Len(NoFile) = 0 /\ log'[0] = log[0]
      /\ \A i \in 0..(Backups - 1) : log'[i] = log[i]
  BY <1>0, <1>1 DEF EvidenceTypes, NoFile
<1>3. Len(log[0]) = MaxBytes
  BY <1>1 DEF LogInv, Rotating
<1>4. \A i \in 0..Backups : \A p \in 1..Len(log'[i]) :
         i \in 0..(Backups - 1) /\ p \in 1..Len(log[i]) /\ log'[i][p] = log[i][p]
  BY <1>2
<1>5. LogBounded'
  BY <1>0, <1>2 DEF LogInv, LogBounded
<1>6. InOrder'
  <2> SUFFICES ASSUME NEW i \in 0..Backups, NEW j \in 0..Backups,
                      NEW p \in 1..Len(log'[i]), NEW q \in 1..Len(log'[j]),
                      i > j \/ (i = j /\ p < q), log'[i][p] # Torn, log'[j][q] # Torn
               PROVE  log'[i][p] < log'[j][q]
    BY DEF InOrder
  <2>1. /\ p \in 1..Len(log[i]) /\ log'[i][p] = log[i][p]
        /\ q \in 1..Len(log[j]) /\ log'[j][q] = log[j][q]
    BY <1>4
  <2> QED BY <2>1 DEF LogInv, InOrder
<1>7. OnlyOldestGone'
  <2> SUFFICES ASSUME NEW n \in 1..acked, NEW m \in 1..n, IsKept(m)' PROVE IsKept(n)'
    BY <1>1 DEF OnlyOldestGone
  <2>1. PICK i \in 0..Backups : \E p \in 1..Len(log'[i]) : log'[i][p] = m
    BY DEF IsKept
  <2>2. PICK p \in 1..Len(log'[i]) : log'[i][p] = m
    BY <2>1
  <2>3. i \in 0..(Backups - 1) /\ p \in 1..Len(log[i]) /\ log[i][p] = m
    BY <1>4, <2>2
  <2>4. IsKept(n)
    BY <2>3 DEF IsKept, LogInv, OnlyOldestGone
  <2>5. PICK j \in 0..Backups : \E q \in 1..Len(log[j]) : log[j][q] = n
    BY <2>4 DEF IsKept
  <2>6. PICK q \in 1..Len(log[j]) : log[j][q] = n
    BY <2>5
  <2>7. j # Backups
    <3> SUFFICES ASSUME j = Backups PROVE FALSE
      OBVIOUS
    <3>1. log[j][q] < log[i][p]
      <4>1. j > i /\ i \in 0..Backups /\ log[i][p] # Torn /\ log[j][q] # Torn
        BY <1>0, <2>3, <2>6 DEF Torn
      <4>2. InOrder
        BY DEF LogInv
      <4> QED BY <2>3, <2>6, <4>1, <4>2 DEF InOrder
    <3> QED BY <1>0, <2>3, <2>6, <3>1
  <2>8. j \in 0..(Backups - 1) /\ q \in 1..Len(log'[j]) /\ log'[j][q] = n
    BY <1>0, <1>2, <2>6, <2>7
  <2> QED BY <2>8 DEF IsKept
<1>8. faults = 0 /\ acked <= Backups * MaxBytes => log[Backups] = NoFile
  <2> SUFFICES ASSUME faults = 0, log[Backups] # NoFile
               PROVE  ~(acked <= Backups * MaxBytes)
    OBVIOUS
  <2>1. acked >= Backups * MaxBytes + MaxBytes
    BY <1>0, <1>1, <1>3 DEF LogInv, Filled, Before, NoFile
  <2>2. Backups * MaxBytes \in Nat
    BY <1>0
  <2> QED BY <1>0, <2>1, <2>2
<1>9. RetainsWhatFits'
  <2> SUFFICES ASSUME faults = 0, acked <= Backups * MaxBytes PROVE RetainsWhatFits'
    BY <1>1 DEF RetainsWhatFits
  <2>1. log[Backups] = NoFile
    BY <1>8
  <2>2. log' = log
    BY <1>0, <1>1, <2>1 DEF EvidenceTypes
  <2> QED BY <1>1, <2>2 DEF LogInv, RetainsWhatFits, IsKept
<1>10. Newest'
  <2>1. CASE acked = 0 \/ faults >= MaxBytes + Backups - 1
    BY <1>1, <2>1 DEF Newest
  <2>2. ASSUME NEW i \in 0..Backups, NEW p \in 1..Len(log[i]), log[i][p] = acked,
               i > 0 => faults >= Len(log[0]) + Before(i) - 1
        PROVE  Newest'
    <3>1. CASE i = Backups
      <4>1. faults >= MaxBytes + Backups - 1
        BY <1>0, <1>1, <1>3, <2>2, <3>1 DEF Before
      <4> QED BY <1>1, <4>1 DEF Newest
    <3>2. CASE i # Backups
      <4>1. i \in 0..(Backups - 1) /\ log'[i] = log[i]
        BY <1>0, <1>2, <3>2
      <4>2. Before(i) = i /\ Before(i)' = i
        BY <1>0, <1>1, <4>1 DEF Before
      <4> QED BY <1>1, <1>2, <2>2, <4>1, <4>2 DEF Newest
    <3> QED BY <3>1, <3>2
  <2> QED BY <2>1, <2>2 DEF LogInv, Newest
<1>11. Filled'
  <2> SUFFICES ASSUME faults = 0, NEW i \in 0..Backups, log'[i] # <<>>
               PROVE  acked' >= Before(i)' * MaxBytes + Len(log'[0])
    BY <1>1 DEF Filled
  <2>1. i \in 0..(Backups - 1) /\ log'[i] = log[i]
    BY <1>0, <1>2 DEF NoFile
  <2>2. Before(i) = i /\ Before(i)' = i
    BY <1>0, <1>1, <2>1 DEF Before
  <2> QED BY <1>1, <1>2, <2>1, <2>2 DEF LogInv, Filled
<1>12. Rotating'
  BY <1>0, <1>1, <1>2, <1>3 DEF Rotating
<1> QED BY <1>5, <1>6, <1>7, <1>9, <1>10, <1>11, <1>12 DEF LogInv
(* One file of a rotation moves: what file i holds is then in file To(i).  *)
LEMMA LogRotate ==
    ASSUME EvidenceTypes, LogInv, Rotate
    PROVE  LogInv'
<1> DEFINE From(i) == IF i = shift + 1 THEN shift ELSE i
           To(i) == IF i = shift THEN shift + 1 ELSE i
<1>0. /\ acked \in Nat /\ faults \in Nat /\ Len(log[0]) \in Nat /\ Backups \in Nat \ {0}
      /\ shift \in 0..(Backups - 1)
      /\ \A i \in 0..Backups : Len(log[i]) \in Nat /\ (Len(log[i]) = 0 <=> log[i] = <<>>)
  BY FilesType
<1>1. /\ sink = "rotate" /\ UNCHANGED <<acked, faults>>
      /\ log[shift + 1] = NoFile /\ Len(log[0]) = MaxBytes
  BY DEF Rotate, LogInv, Rotating
<1>2. /\ log'[shift] = NoFile /\ log'[shift + 1] = log[shift]
      /\ \A i \in 0..Backups : i # shift /\ i # shift + 1 => log'[i] = log[i]
  <2>1. CASE log[shift] = NoFile /\ log' = log
    BY <1>1, <2>1
  <2>2. CASE log' = [log EXCEPT ![shift + 1] = log[shift], ![shift] = NoFile]
    BY <1>0, <2>2 DEF EvidenceTypes
  <2> QED BY <2>1, <2>2 DEF Rotate
<1>3. ASSUME NEW i \in 0..Backups, NEW p \in 1..Len(log'[i])
      PROVE  /\ i # shift /\ From(i) \in 0..Backups /\ From(i) # shift + 1
             /\ p \in 1..Len(log[From(i)]) /\ log'[i][p] = log[From(i)][p]
  <2>1. Len(NoFile) = 0
    BY EmptySeq DEF NoFile
  <2>2. i # shift
    BY <1>0, <1>2, <1>3, <2>1
  <2>3. From(i) \in 0..Backups /\ From(i) # shift + 1 /\ log'[i] = log[From(i)]
    BY <1>0, <1>2, <2>2
  <2> QED BY <1>3, <2>2, <2>3
<1>4. ASSUME NEW i \in 0..Backups, NEW p \in 1..Len(log[i])
      PROVE  /\ i # shift + 1 /\ To(i) \in 0..Backups
             /\ p \in 1..Len(log'[To(i)]) /\ log'[To(i)][p] = log[i][p]
  BY <1>0, <1>1, <1>2, <1>4 DEF NoFile
<1>5. /\ sink' = IF shift = 0 THEN "write" ELSE "rotate"
      /\ shift > 0 => shift' = shift - 1
  BY <1>0, <1>1 DEF Rotate
<1>6. LogBounded'
  BY <1>0, <1>2 DEF LogInv, LogBounded, NoFile
<1>7. InOrder'
  <2> SUFFICES ASSUME NEW i \in 0..Backups, NEW j \in 0..Backups,
                      NEW p \in 1..Len(log'[i]), NEW q \in 1..Len(log'[j]),
                      i > j \/ (i = j /\ p < q), log'[i][p] # Torn, log'[j][q] # Torn
               PROVE  log'[i][p] < log'[j][q]
    BY DEF InOrder
  <2>1. /\ i # shift /\ From(i) \in 0..Backups
        /\ p \in 1..Len(log[From(i)]) /\ log'[i][p] = log[From(i)][p]
        /\ j # shift /\ From(j) \in 0..Backups
        /\ q \in 1..Len(log[From(j)]) /\ log'[j][q] = log[From(j)][q]
    BY <1>3
  <2>2. From(i) > From(j) \/ (From(i) = From(j) /\ p < q)
    BY <1>0, <2>1
  <2> HIDE DEF From
  <2> QED BY <2>1, <2>2 DEF LogInv, InOrder
<1>8. ASSUME NEW n \in 1..acked PROVE IsKept(n)' <=> IsKept(n)
  <2>1. ASSUME IsKept(n)' PROVE IsKept(n)
    <3>1. PICK i \in 0..Backups : \E p \in 1..Len(log'[i]) : log'[i][p] = n
      BY <2>1 DEF IsKept
    <3>2. PICK p \in 1..Len(log'[i]) : log'[i][p] = n
      BY <3>1
    <3>3. From(i) \in 0..Backups /\ p \in 1..Len(log[From(i)]) /\ log[From(i)][p] = n
      BY <1>3, <3>2
    <3> HIDE DEF From
    <3> QED BY <3>3 DEF IsKept
  <2>2. ASSUME IsKept(n) PROVE IsKept(n)'
    <3>1. PICK i \in 0..Backups : \E p \in 1..Len(log[i]) : log[i][p] = n
      BY <2>2 DEF IsKept
    <3>2. PICK p \in 1..Len(log[i]) : log[i][p] = n
      BY <3>1
    <3>3. To(i) \in 0..Backups /\ p \in 1..Len(log'[To(i)]) /\ log'[To(i)][p] = n
      BY <1>4, <3>2
    <3> HIDE DEF To
    <3> QED BY <3>3 DEF IsKept
  <2> QED BY <2>1, <2>2
<1>9. OnlyOldestGone'
  <2> SUFFICES ASSUME NEW n \in 1..acked, NEW m \in 1..n, IsKept(m)' PROVE IsKept(n)'
    BY <1>1 DEF OnlyOldestGone
  <2>1. m \in 1..acked
    BY <1>0
  <2> QED BY <1>8, <2>1 DEF LogInv, OnlyOldestGone
<1>10. RetainsWhatFits'
  BY <1>1, <1>8 DEF LogInv, RetainsWhatFits
<1>11. ASSUME NEW i \in 0..Backups, i # shift + 1, NEW to \in 0..Backups, to = To(i)
       PROVE  /\ shift > 0 => Before(to)' = Before(i) /\ log'[0] = log[0]
              /\ shift = 0 => Before(to)' = to /\ Len(log'[0]) = 0
  <2>1. Len(NoFile) = 0
    BY EmptySeq DEF NoFile
  <2> QED BY <1>0, <1>1, <1>2, <1>5, <1>11, <2>1 DEF Before
<1>12. Newest'
  <2>1. CASE acked = 0 \/ faults >= MaxBytes + Backups - 1
    BY <1>1, <2>1 DEF Newest
  <2>2. ASSUME NEW i \in 0..Backups, NEW p \in 1..Len(log[i]), log[i][p] = acked,
               i > 0 => faults >= Len(log[0]) + Before(i) - 1
        PROVE  Newest'
    <3>1. /\ i # shift + 1 /\ To(i) \in 0..Backups
          /\ p \in 1..Len(log'[To(i)]) /\ log'[To(i)][p] = acked
      BY <1>4, <2>2
    <3>2. PICK to \in 0..Backups : to = To(i)
      BY <3>1
    <3>3. to > 0 => faults >= Len(log'[0]) + Before(to)' - 1
      <4>1. CASE shift > 0
        <5>1. Before(to)' = Before(i) /\ log'[0] = log[0]
          BY <1>11, <3>1, <3>2, <4>1
        <5>2. to > 0 => i > 0
          BY <1>0, <3>2, <4>1
        <5> QED BY <2>2, <5>1, <5>2
      <4>2. CASE shift = 0
        <5>1. Before(to)' = to /\ Len(log'[0]) = 0
          BY <1>11, <3>1, <3>2, <4>2
        <5> QED BY <1>0, <1>1, <2>2, <3>1, <3>2, <4>2, <5>1 DEF Before
      <4> QED BY <1>0, <4>1, <4>2
    <3>4. p \in 1..Len(log'[to]) /\ log'[to][p] = acked
      BY <3>1, <3>2
    <3> HIDE DEF To
    <3> QED BY <1>1, <3>3, <3>4 DEF Newest
  <2> QED BY <2>1, <2>2 DEF LogInv, Newest
<1>13. Filled'
  <2> SUFFICES ASSUME faults = 0, NEW i \in 0..Backups, log'[i] # <<>>
               PROVE  acked >= Before(i)' * MaxBytes + Len(log'[0])
    BY <1>1 DEF Filled
  <2>1. /\ i # shift /\ From(i) \in 0..Backups /\ log'[i] = log[From(i)]
        /\ To(From(i)) = i /\ From(i) # shift + 1
    BY <1>0, <1>2 DEF NoFile
  <2>2. acked >= Before(From(i)) * MaxBytes + Len(log[0])
    BY <2>1 DEF LogInv, Filled
  <2>3. CASE shift > 0
    <3>1. Before(i)' = Before(From(i)) /\ log'[0] = log[0]
      BY <1>0, <1>1, <1>2, <1>5, <2>1, <2>3 DEF Before
    <3> QED BY <2>2, <3>1
  <2>4. CASE shift = 0
    <3>1. Before(i)' = i /\ Len(log'[0]) = 0 /\ i >= 1 /\ Before(From(i)) = i - 1
      BY <1>0, <1>1, <1>2, <1>5, <2>1, <2>4 DEF Before, NoFile
    <3>2. (i - 1) * MaxBytes + MaxBytes = i * MaxBytes
      BY <1>0, <3>1
    <3> QED BY <1>0, <1>1, <2>2, <3>1, <3>2
  <2> QED BY <1>0, <2>3, <2>4
<1>14. Rotating'
  BY <1>0, <1>1, <1>2, <1>5 DEF Rotating, NoFile
<1> QED BY <1>6, <1>7, <1>9, <1>10, <1>12, <1>13, <1>14 DEF LogInv

(* A record is added to the current file.                                  *)
LEMMA LogWrite ==
    ASSUME EvidenceTypes, LogInv, Write
    PROVE  LogInv'
<1>0. /\ acked \in Nat /\ faults \in Nat /\ Len(log[0]) \in Nat /\ Backups \in Nat \ {0}
      /\ \A i \in 0..Backups : Len(log[i]) \in Nat
      /\ \A i \in 0..Backups : \A p \in 1..Len(log[i]) : log[i][p] \in 0..acked
  BY FilesType
<1>1. /\ sink = "write" /\ sink' = "health" /\ acked' = acked + 1 /\ faults' = faults
      /\ log' = [log EXCEPT ![0] = Append(log[0], acked + 1)]
  BY DEF Write
<1>2. /\ Len(log'[0]) = Len(log[0]) + 1 /\ log'[0][Len(log[0]) + 1] = acked + 1
      /\ \A p \in 1..Len(log[0]) : log'[0][p] = log[0][p]
      /\ \A i \in 1..Backups : log'[i] = log[i]
  <2>1. log[0] \in Seq(0..acked) /\ acked + 1 \in 0..(acked + 1)
    BY <1>0 DEF EvidenceTypes
  <2>2. log'[0] = Append(log[0], acked + 1) /\ \A i \in 1..Backups : log'[i] = log[i]
    BY <1>0, <1>1 DEF EvidenceTypes
  <2>3. /\ Len(Append(log[0], acked + 1)) = Len(log[0]) + 1
        /\ Append(log[0], acked + 1)[Len(log[0]) + 1] = acked + 1
        /\ \A p \in 1..Len(log[0]) : Append(log[0], acked + 1)[p] = log[0][p]
    BY <1>0, <2>1, FileGrows
  <2> QED BY <2>2, <2>3, Zenon
<1>3. ASSUME NEW i \in 0..Backups, NEW p \in 1..Len(log'[i])
      PROVE  \/ i = 0 /\ p = Len(log[0]) + 1 /\ log'[i][p] = acked + 1
             \/ p \in 1..Len(log[i]) /\ log'[i][p] = log[i][p] /\ log[i][p] \in 0..acked
  <2>1. CASE i = 0
    <3>1. p = Len(log[0]) + 1 \/ p \in 1..Len(log[0])
      BY <1>0, <1>2, <2>1
    <3> QED BY <1>0, <1>2, <2>1, <3>1
  <2>2. CASE i \in 1..Backups
    <3>1. log'[i] = log[i]
      BY <1>2, <2>2
    <3> QED BY <1>0, <3>1
  <2> QED BY <1>0, <2>1, <2>2
<1>4. \A i \in 0..Backups : \A p \in 1..Len(log[i]) :
         p \in 1..Len(log'[i]) /\ log'[i][p] = log[i][p]
  BY <1>0, <1>2
<1>5. LogBounded'
  BY <1>0, <1>1, <1>2 DEF LogInv, LogBounded, Rotating
<1>6. InOrder'
  <2> SUFFICES ASSUME NEW i \in 0..Backups, NEW j \in 0..Backups,
                      NEW p \in 1..Len(log'[i]), NEW q \in 1..Len(log'[j]),
                      i > j \/ (i = j /\ p < q), log'[i][p] # Torn, log'[j][q] # Torn
               PROVE  log'[i][p] < log'[j][q]
    BY DEF InOrder
  <2>1. p \in 1..Len(log[i]) /\ log'[i][p] = log[i][p] /\ log[i][p] \in 0..acked
    BY <1>0, <1>2, <1>3
  <2>2. CASE log'[j][q] = acked + 1
    BY <1>0, <2>1, <2>2
  <2>3. CASE q \in 1..Len(log[j]) /\ log'[j][q] = log[j][q]
    BY <2>1, <2>3 DEF LogInv, InOrder
  <2> QED BY <1>3, <2>2, <2>3
<1>7. ASSUME NEW n, n = acked + 1 PROVE IsKept(n)'
  <2>1. 0 \in 0..Backups /\ Len(log[0]) + 1 \in 1..Len(log'[0])
    BY <1>0, <1>2
  <2> QED BY <1>2, <1>7, <2>1 DEF IsKept
<1>8. ASSUME NEW n \in 1..acked PROVE IsKept(n)' <=> IsKept(n)
  <2>1. ASSUME IsKept(n)' PROVE IsKept(n)
    <3>1. PICK i \in 0..Backups : \E p \in 1..Len(log'[i]) : log'[i][p] = n
      BY <2>1 DEF IsKept
    <3>2. PICK p \in 1..Len(log'[i]) : log'[i][p] = n
      BY <3>1
    <3>3. p \in 1..Len(log[i]) /\ log[i][p] = n
      BY <1>0, <1>3, <3>2
    <3> QED BY <3>3 DEF IsKept
  <2>2. ASSUME IsKept(n) PROVE IsKept(n)'
    <3>1. PICK i \in 0..Backups : \E p \in 1..Len(log[i]) : log[i][p] = n
      BY <2>2 DEF IsKept
    <3>2. PICK p \in 1..Len(log[i]) : log[i][p] = n
      BY <3>1
    <3> QED BY <1>4, <3>2 DEF IsKept
  <2> QED BY <2>1, <2>2
<1>9. OnlyOldestGone'
  <2> SUFFICES ASSUME NEW n \in 1..(acked + 1), NEW m \in 1..n, IsKept(m)' PROVE IsKept(n)'
    BY <1>1 DEF OnlyOldestGone
  <2>1. CASE n = acked + 1
    BY <1>7, <2>1
  <2>2. CASE n # acked + 1
    <3>1. n \in 1..acked /\ m \in 1..acked
      BY <1>0, <2>2
    <3> QED BY <1>8, <3>1 DEF LogInv, OnlyOldestGone
  <2> QED BY <2>1, <2>2
<1>10. RetainsWhatFits'
  <2> SUFFICES ASSUME faults = 0, acked + 1 <= Backups * MaxBytes, NEW n \in 1..(acked + 1)
               PROVE  IsKept(n)'
    BY <1>1 DEF RetainsWhatFits
  <2>1. CASE n = acked + 1
    BY <1>7, <2>1
  <2>2. CASE n # acked + 1
    <3>1. n \in 1..acked
      BY <1>0, <2>2
    <3>2. Backups * MaxBytes \in Nat
      BY <1>0
    <3>3. acked <= Backups * MaxBytes
      BY <1>0, <3>2
    <3> QED BY <1>8, <3>1, <3>3 DEF LogInv, RetainsWhatFits
  <2> QED BY <2>1, <2>2
<1>11. Newest'
  <2>1. 0 \in 0..Backups /\ Len(log[0]) + 1 \in 1..Len(log'[0])
    BY <1>0, <1>2
  <2> QED BY <1>1, <1>2, <2>1 DEF Newest
<1>12. Filled'
  <2> SUFFICES ASSUME faults = 0, NEW i \in 0..Backups, log'[i] # <<>>
               PROVE  acked + 1 >= Before(i)' * MaxBytes + Len(log'[0])
    BY <1>1 DEF Filled
  <2>1. Before(i)' * MaxBytes = i * MaxBytes /\ i * MaxBytes \in Nat
    <3>1. Before(i)' = i
      BY <1>1 DEF Before
    <3> QED BY <1>0, <3>1
  <2>2. log[i] # <<>> => acked >= i * MaxBytes + Len(log[0])
    <3>1. Before(i) = i
      BY <1>1 DEF Before
    <3> QED BY <3>1 DEF LogInv, Filled
  <2>3. acked >= i * MaxBytes + Len(log[0])
    <3>1. CASE i = 0 /\ log[i] = <<>>
      <4>1. i * MaxBytes = 0 /\ Len(log[0]) = 0
        BY <3>1, EmptySeq
      <4> QED BY <1>0, <4>1
    <3>2. CASE log[i] # <<>>
      BY <2>2, <3>2
    <3>3. i # 0 => log'[i] = log[i]
      <4>1. i # 0 => i \in 1..Backups
        BY <1>0
      <4> QED BY <1>2, <4>1
    <3> QED BY <3>1, <3>2, <3>3, Zenon
  <2>4. \A x \in Nat : acked >= x + Len(log[0]) => acked + 1 >= x + Len(log'[0])
    BY <1>0, <1>2
  <2> QED BY <2>1, <2>3, <2>4
<1>13. Rotating'
  BY <1>1 DEF Rotating
<1> QED BY <1>5, <1>6, <1>9, <1>10, <1>11, <1>12, <1>13 DEF LogInv
-----------------------------------------------------------------------------
(* The result of no record, one record and two records.                    *)
LEMMA ResultOf ==
    ASSUME NEW state
    PROVE  /\ Result(state, <<>>) = state
           /\ \A r : Result(state, <<r>>) = StateAfter(state, r)
<1>1. Result(state, <<>>) = state
  <2>1. Len(<<>>) = 0
    BY EmptySeq
  <2> QED BY <2>1 DEF Result
<1>2. ASSUME NEW r PROVE Result(state, <<r>>) = StateAfter(state, r)
  <2>1. Len(<<r>>) = 1 /\ <<r>>[1] = r
    OBVIOUS
  <2> DEFINE q == <<r>>
  <2> HIDE DEF q
  <2>2. Result(state, q) = StateAfter(state, q[1])
    BY <2>1 DEF Result, q
  <2> QED BY <2>1, <2>2 DEF q
<1> QED BY <1>1, <1>2

LEMMA ResultOfTwo ==
    ASSUME NEW state, NEW r, NEW t
    PROVE  Result(state, <<r, t>>) = StateAfter(StateAfter(state, r), t)
<1>1. Len(<<r, t>>) = 2 /\ <<r, t>>[1] = r /\ <<r, t>>[2] = t
  OBVIOUS
<1> DEFINE q == <<r, t>>
<1> HIDE DEF q
<1>2. Result(state, q) = StateAfter(StateAfter(state, q[1]), q[2])
  BY <1>1 DEF Result, q
<1> QED BY <1>1, <1>2, Zenon DEF q

(* Writing the first record, then the others.                              *)
LEMMA ResultStep ==
    ASSUME NEW state, NEW q \in Seq(Records), q # <<>>, Len(q) <= 2
    PROVE  /\ Result(state, q) = Result(StateAfter(state, Head(q)), Tail(q))
           /\ Quiet(q) <=> Head(q).event # "health_heartbeat" /\ Quiet(Tail(q))
<1>1. /\ Len(q) \in 1..2 /\ Head(q) = q[1] /\ Len(Tail(q)) = Len(q) - 1
      /\ Tail(q) \in Seq(Records)
      /\ \A i \in 1..Len(Tail(q)) : Tail(q)[i] = q[i + 1]
  <2>1. /\ Head(q) = q[1] /\ Len(Tail(q)) = Len(q) - 1 /\ Tail(q) \in Seq(Records)
        /\ \A i \in 1..Len(Tail(q)) : Tail(q)[i] = q[i + 1]
    BY HeadTailProperties, LenProperties
  <2>2. Len(q) \in Nat /\ Len(q) # 0
    BY LenProperties, EmptySeq
  <2>3. Len(q) \in 1..2
    <3>1. \A n \in Nat : n # 0 /\ n <= 2 => n \in 1..2
      OBVIOUS
    <3> QED BY <2>2, <3>1, Zenon
  <2> QED BY <2>1, <2>3
<1>2. Result(state, q) = Result(StateAfter(state, Head(q)), Tail(q))
  <2> DEFINE rest == Tail(q)
  <2>1. CASE Len(q) = 1
    <3>1. Len(rest) = 0
      BY <1>1, <2>1
    <3>2. Result(state, q) = StateAfter(state, q[1])
      BY <2>1 DEF Result
    <3> HIDE DEF rest
    <3>3. \A s : Result(s, rest) = s
      BY <3>1 DEF Result
    <3> QED BY <1>1, <3>2, <3>3 DEF rest
  <2>2. CASE Len(q) = 2
    <3>1. Len(rest) = 1 /\ rest[1] = q[2]
      <4>1. 2 - 1 = 1 /\ 1 + 1 = 2 /\ 1 \in 1..1
        OBVIOUS
      <4> QED BY <1>1, <2>2, <4>1, Zenon
    <3>2. Result(state, q) = StateAfter(StateAfter(state, q[1]), q[2])
      BY <2>2 DEF Result
    <3> HIDE DEF rest
    <3>3. \A s : Result(s, rest) = StateAfter(s, q[2])
      BY <3>1 DEF Result
    <3> QED BY <1>1, <3>2, <3>3 DEF rest
  <2> QED BY <1>1, <2>1, <2>2
<1>3. Quiet(q) <=> (Head(q).event # "health_heartbeat" /\ Quiet(Tail(q)))
  <2>1. ASSUME Quiet(q) PROVE Head(q).event # "health_heartbeat" /\ Quiet(Tail(q))
    BY <1>1, <2>1 DEF Quiet
  <2>2. ASSUME Head(q).event # "health_heartbeat", Quiet(Tail(q)) PROVE Quiet(q)
    <3> SUFFICES ASSUME NEW i \in 1..Len(q) PROVE q[i].event # "health_heartbeat"
      BY DEF Quiet
    <3>1. CASE i = 1
      BY <1>1, <2>2, <3>1
    <3>2. CASE i = 2
      <4>1. 1 \in 1..Len(Tail(q)) /\ Tail(q)[1] = q[2]
        BY <1>1, <3>2
      <4> QED BY <2>2, <3>2, <4>1 DEF Quiet
    <3> QED BY <1>1, <3>1, <3>2
  <2> QED BY <2>1, <2>2
<1> QED BY <1>2, <1>3

(* Records without a heartbeat.                                            *)
LEMMA QuietRecords ==
    /\ Quiet(<<>>)
    /\ \A r : r.event # "health_heartbeat" => Quiet(<<r>>)
    /\ \A r : \A t : r.event # "health_heartbeat" /\ t.event # "health_heartbeat"
                        => Quiet(<<r, t>>)
BY EmptySeq DEF Quiet
(* What the records of the watcher make of a state.                        *)
LEMMA StateRules ==
    ASSUME NEW state \in States
    PROVE  /\ \A e \in {"event_superseded", "backend_fallback"} :
                 StateAfter(state, Record(e, "none")) = state
           /\ StateAfter(state, Record("session_started", "none")) = "inventorying_metadata"
           /\ \A e \in {"scan_completed", "reconciliation_completed"} :
                 /\ StateAfter(state, Record(e, "clean")) = state
                 /\ StateAfter(state, Record(e, "incomplete")) = "degraded"
           /\ \A issue : StateAfter(state, IssueRecord(issue)) = "degraded"
           /\ StateAfter(state, Record("metadata_inventory_completed", "incomplete")) = "degraded"
           /\ StateAfter(state, Record("metadata_inventory_completed", "clean"))
                 = IF state = "degraded" THEN "degraded" ELSE "healthy"
           /\ StateAfter(state, Heartbeat(FALSE, TRUE)) = "healthy"
           /\ StateAfter(state, Heartbeat(TRUE, FALSE)) = "degraded"
           /\ StateAfter(state, Heartbeat(FALSE, FALSE)) = state
BY DEF StateAfter, Record, IssueRecord, Heartbeat

(* A record of a walk degrades a state or leaves it.                       *)
LEMMA PlainRecords ==
    /\ \A o \in {"clean", "incomplete"} : Plain(Record("scan_completed", o))
    /\ Plain(Record("event_superseded", "none"))
    /\ \A issue : Plain(IssueRecord(issue))
    /\ \A flag \in BOOLEAN : Plain(Heartbeat(flag, FALSE))
<1>1. \A flag \in BOOLEAN : flag = TRUE \/ flag = FALSE
  OBVIOUS
<1>2. ASSUME NEW r, \A state \in States : StateAfter(state, r) \in {state, "degraded"}
      PROVE  Plain(r)
  BY <1>2, Zenon DEF Plain
<1>3. \A o \in {"clean", "incomplete"} : Plain(Record("scan_completed", o))
  <2>1. \A o \in {"clean", "incomplete"} : \A state \in States :
            StateAfter(state, Record("scan_completed", o)) \in {state, "degraded"}
    BY DEF StateAfter, Record
  <2> QED BY <2>1, Zenon DEF Plain
<1>4. Plain(Record("event_superseded", "none"))
  BY <1>2, StateRules
<1>5. ASSUME NEW issue PROVE Plain(IssueRecord(issue))
  <2>1. \A state \in States : StateAfter(state, IssueRecord(issue)) = "degraded"
    BY DEF StateAfter, IssueRecord, Record
  <2> QED BY <2>1 DEF Plain
<1>6. Plain(Heartbeat(TRUE, FALSE)) /\ Plain(Heartbeat(FALSE, FALSE))
  BY <1>2, StateRules
<1>7. ASSUME NEW flag \in BOOLEAN PROVE Plain(Heartbeat(flag, FALSE))
  <2>1. flag => Heartbeat(flag, FALSE) = Heartbeat(TRUE, FALSE)
    BY Zenon DEF Heartbeat
  <2>2. ~flag => Heartbeat(flag, FALSE) = Heartbeat(FALSE, FALSE)
    BY Zenon DEF Heartbeat
  <2> QED BY <1>6, <2>1, <2>2, Zenon
<1> QED BY <1>3, <1>4, <1>5, <1>7

(* All records of a sequence are such.                                     *)
AllPlain(q) == \A i \in 1..Len(q) : Plain(q[i])

LEMMA PlainSequences ==
    /\ AllPlain(<<>>)
    /\ \A r : Plain(r) => AllPlain(<<r>>)
    /\ \A r : \A t : Plain(r) /\ Plain(t) => AllPlain(<<r, t>>)
<1> HIDE DEF Plain
<1>1. AllPlain(<<>>)
  BY EmptySeq DEF AllPlain
<1>2. ASSUME NEW r, Plain(r) PROVE AllPlain(<<r>>)
  <2>1. Len(<<r>>) = 1 /\ <<r>>[1] = r
    OBVIOUS
  <2> QED BY <1>2, <2>1 DEF AllPlain
<1>3. ASSUME NEW r, NEW t, Plain(r), Plain(t) PROVE AllPlain(<<r, t>>)
  <2>1. Len(<<r, t>>) = 2 /\ <<r, t>>[1] = r /\ <<r, t>>[2] = t
    OBVIOUS
  <2>2. \A i \in 1..2 : i = 1 \/ i = 2
    OBVIOUS
  <2> QED BY <1>3, <2>1, <2>2 DEF AllPlain
<1> QED BY <1>1, <1>2, <1>3

(* The first of one or two records.                                        *)
LEMMA HeadOf ==
    /\ \A r : <<r>> # <<>> /\ Head(<<r>>) = r /\ Tail(<<r>>) = <<>>
    /\ \A r : \A t : <<r, t>> # <<>> /\ Head(<<r, t>>) = r /\ Tail(<<r, t>>) = <<t>>
OBVIOUS

(* A handler leaves the coming state true to the flags.                    *)
LEMMA ToldWatcher ==
    ASSUME EvidenceTypes, Told, Watcher
    PROVE  Told'
<1> DEFINE Walking == {"inventory", "loop", "walk"}
           (* a health file that is behind is brought up to date           *)
           Caught == \/ unwritten' # <<>> /\ Head(unwritten').event # "event_superseded"
                     \/ (incomplete => untold) => (incomplete' => untold')
           Fit == phase' \in {"inventory", "walk"} => AllPlain(unwritten')
<1>0. /\ unwritten = <<>> /\ health' = health /\ operational \in States
      /\ untold \in BOOLEAN /\ incomplete \in BOOLEAN /\ inventoried \in BOOLEAN
      /\ broken \in BOOLEAN
  BY WatcherWrites DEF EvidenceTypes
<1>1. Coming = operational /\ (ComingUntold <=> untold)
  BY <1>0, ResultOf, QuietRecords DEF Coming, ComingUntold
<1>a. ~Opening
  <2>1. \A r : \A t : <<r>> # <<>> /\ <<r, t>> # <<>>
    BY HeadOf, Zenon
  <2> QED BY <1>0, <2>1, Zenon DEF Opening
<1>2. ASSUME phase \in Walking
      PROVE  /\ operational # "degraded" => (incomplete => untold)
             /\ operational = "healthy" => inventoried
             /\ operational = "degraded" => incomplete \/ broken
             /\ phase # "inventory" => inventoried
             /\ Started
             /\ \/ health.state = operational
                \/ /\ operational = "degraded" /\ health.state # "degraded"
                   /\ health.state = "healthy" => inventoried
                   /\ incomplete => untold
  BY <1>0, <1>1, <1>a, <1>2, Zenon DEF Told, Behind
<1>b. ASSUME phase \in Walking, operational' = operational, inventoried => inventoried', Caught
      PROVE  /\ Started' /\ (operational' = "healthy" => inventoried')
             /\ health'.state = operational' \/ Behind'
  <2>1. Started'
    BY <1>2, <1>b DEF Started
  <2>2. CASE health.state = operational
    BY <1>0, <1>2, <1>b, <2>1, <2>2, Zenon
  <2>3. CASE /\ operational = "degraded" /\ health.state # "degraded"
             /\ health.state = "healthy" => inventoried
             /\ incomplete => untold
    <3>1. Behind'
      BY <1>0, <1>b, <2>3, Zenon DEF Behind
    <3>2. operational' = "healthy" => inventoried'
      BY <1>2, <1>b, Zenon
    <3> QED BY <2>1, <3>1, <3>2, Zenon
  <2> QED BY <1>2, <1>b, <2>2, <2>3, Zenon
<1>c. (\A i \in 1..Len(unwritten') : Plain(unwritten'[i])) <=> AllPlain(unwritten')
  BY Zenon DEF AllPlain
<1>3. CASE StartSession
  <2> DEFINE start == Record("session_started", "none")
             fall == Record("backend_fallback", "none")
  <2>1. /\ phase' = "inventory" /\ incomplete' = FALSE /\ operational' = "starting"
        /\ unwritten' = <<start>> \/ unwritten' = <<fall, start>>
    BY <1>3 DEF StartSession, Fresh
  <2>2. "starting" \in States
    BY DEF States
  <2>3. /\ StateAfter("starting", start) = "inventorying_metadata"
        /\ StateAfter("starting", fall) = "starting"
    BY <2>2, StateRules
  <2>4. Opening' /\ ~Started'
    BY <2>1, Zenon DEF Opening, Started
  <2> HIDE DEF start, fall
  <2>5. Coming' = "inventorying_metadata"
    BY <2>1, <2>3, ResultOf, ResultOfTwo DEF Coming
  <2> QED BY <2>1, <2>4, <2>5 DEF Told
<1>4. CASE Completes \/ SessionOver \/ \E issue \in BOOLEAN : LoopEnds(issue)
  <2>1. phase' \notin {"inventory", "loop", "walk"}
    BY <1>4 DEF Completes, SessionOver, LoopEnds
  <2> QED BY <2>1 DEF Told
<1>5. ASSUME phase \in Walking, operational' = operational, inventoried => inventoried',
             Coming' = "degraded", incomplete' \/ broken', phase' # "inventory" => inventoried',
             Caught, Fit
      PROVE  Told'
  <2>1. "degraded" # "healthy"
    OBVIOUS
  <2>2. /\ Started' /\ (operational' = "healthy" => inventoried')
        /\ health'.state = operational' \/ Behind'
    BY <1>5, <1>b, Zenon
  <2> QED BY <1>5, <1>c, <2>1, <2>2, Zenon DEF Told
<1>6. ASSUME phase \in Walking, operational' = operational,
             Coming' = operational, ComingUntold' <=> untold', broken' = broken,
             inventoried' = inventoried, phase' # "inventory" => inventoried',
             \/ incomplete' = incomplete /\ untold' = untold
             \/ incomplete' /\ (untold' <=> (untold \/ ~incomplete)),
             Fit
      PROVE  Told'
  <2>0. (incomplete => untold) => (incomplete' => untold')
    <3>1. CASE incomplete' = incomplete /\ untold' = untold
      BY <3>1, Zenon
    <3>2. CASE incomplete' /\ (untold' <=> (untold \/ ~incomplete))
      BY <3>2, Zenon
    <3> QED BY <1>6, <3>1, <3>2, Zenon
  <2>2. /\ Started' /\ (operational' = "healthy" => inventoried')
        /\ health'.state = operational' \/ Behind'
    BY <1>6, <1>b, <2>0, Zenon
  <2>3. Coming' # "degraded" => (incomplete' => ComingUntold')
    <3>1. operational # "degraded" => (incomplete => untold)
      BY <1>2, <1>6, Zenon
    <3> QED BY <1>6, <2>0, <3>1, Zenon
  <2>4. Coming' = "healthy" => inventoried'
    BY <1>2, <1>6, Zenon
  <2>5. Coming' = "degraded" => incomplete' \/ broken'
    <3>1. operational = "degraded" => incomplete \/ broken
      BY <1>2, <1>6, Zenon
    <3>2. incomplete => incomplete'
      <4>1. CASE incomplete' = incomplete
        BY <4>1, Zenon
      <4> QED BY <1>6, <4>1, Zenon
    <3> QED BY <1>6, <3>1, <3>2, Zenon
  <2> QED BY <1>6, <1>c, <2>2, <2>3, <2>4, <2>5, Zenon DEF Told
<1>7. CASE ScanClean
  <2>1. /\ phase \in Walking /\ phase' = phase
        /\ UNCHANGED <<operational, inventoried, incomplete, untold, broken>>
        /\ \/ unwritten' = <<Record("scan_completed", "clean")>>
           \/ unwritten' = <<Record("event_superseded", "none")>>
    BY <1>7 DEF ScanClean, Watches, truth, record
  <2>2. Coming' = operational /\ (ComingUntold' <=> untold') /\ AllPlain(unwritten')
    <3>1. ASSUME NEW r, unwritten' = <<r>>, r.event # "health_heartbeat",
                 StateAfter(operational, r) = operational, Plain(r)
          PROVE  Coming' = operational /\ (ComingUntold' <=> untold') /\ AllPlain(unwritten')
      BY <2>1, <3>1, ResultOf, QuietRecords, PlainSequences, Zenon DEF Coming, ComingUntold
    <3>2. /\ Record("scan_completed", "clean").event # "health_heartbeat"
          /\ Record("event_superseded", "none").event # "health_heartbeat"
      BY DEF Record
    <3> QED BY <1>0, <2>1, <3>1, <3>2, StateRules, PlainRecords
  <2> QED BY <1>2, <1>6, <2>1, <2>2, Zenon
<1>8. CASE ScanIncomplete
  <2> DEFINE scan == Record("scan_completed", "incomplete")
  <2>1. /\ phase \in Walking /\ phase' = phase /\ incomplete'
        /\ UNCHANGED <<operational, inventoried>>
        /\ unwritten' = <<scan>> \/ \E issue : unwritten' = <<IssueRecord(issue), scan>>
    BY <1>8 DEF ScanIncomplete, Watches, record
  <2>0. /\ Plain(scan) /\ scan.event # "event_superseded"
        /\ \A issue : Plain(IssueRecord(issue)) /\ IssueRecord(issue).event # "event_superseded"
    BY PlainRecords DEF Record, IssueRecord
  <2>2. Coming' = "degraded" /\ AllPlain(unwritten') /\ Caught
    <3>1. \A state \in States : StateAfter(state, scan) = "degraded"
      BY StateRules
    <3>2. \A r : StateAfter(operational, r) \in States
      BY <1>0, StateAfterType
    <3> HIDE DEF scan
    <3>3. \A r : /\ Result(operational, <<scan>>) = "degraded"
                 /\ Result(operational, <<r, scan>>) = "degraded"
      <4> TAKE r
      <4>1. Result(operational, <<scan>>) = StateAfter(operational, scan)
        BY ResultOf, Zenon
      <4>2. Result(operational, <<r, scan>>) = StateAfter(StateAfter(operational, r), scan)
        BY ResultOfTwo
      <4> QED BY <1>0, <3>1, <3>2, <4>1, <4>2
    <3>4. Coming' = "degraded"
      BY <2>1, <3>3, Zenon DEF Coming
    <3>5. AllPlain(unwritten') /\ unwritten' # <<>> /\ Head(unwritten').event # "event_superseded"
      <4>1. CASE unwritten' = <<scan>>
        BY <2>0, <4>1, PlainSequences, HeadOf, Zenon
      <4>2. ASSUME NEW issue, unwritten' = <<IssueRecord(issue), scan>>
            PROVE  AllPlain(unwritten') /\ unwritten' # <<>>
                   /\ Head(unwritten').event # "event_superseded"
        <5> DEFINE told_first == IssueRecord(issue)
        <5>1. Plain(told_first) /\ told_first.event # "event_superseded"
          BY <2>0
        <5>2. unwritten' = <<told_first, scan>>
          BY <4>2
        <5> HIDE DEF told_first
        <5> QED BY <2>0, <5>1, <5>2, PlainSequences, HeadOf, Zenon
      <4> QED BY <2>1, <4>1, <4>2, Zenon
    <3> QED BY <3>4, <3>5, Zenon
  <2> QED BY <1>2, <1>5, <2>1, <2>2, Zenon
<1>9. CASE PathUnreadable
  <2>1. /\ phase \in Walking /\ phase' = phase /\ incomplete'
        /\ UNCHANGED <<operational, inventoried, broken>>
    BY <1>9 DEF PathUnreadable, Watches, record
  <2>2. PICK issue \in Issues :
            /\ unwritten' = IF issue \in told THEN <<>> ELSE <<IssueRecord(issue)>>
            /\ untold' = (untold \/ (~incomplete /\ issue \in told))
    BY <1>9, Zenon DEF PathUnreadable
  <2>3. CASE issue \in told
    <3>1. unwritten' = <<>> /\ (untold' <=> (untold \/ ~incomplete))
      BY <1>0, <2>2, <2>3, Zenon
    <3>2. Coming' = operational /\ (ComingUntold' <=> untold') /\ AllPlain(unwritten')
      BY <2>1, <3>1, ResultOf, QuietRecords, PlainSequences, Zenon DEF Coming, ComingUntold
    <3> QED BY <1>2, <1>6, <2>1, <3>1, <3>2, Zenon
  <2>4. CASE issue \notin told
    <3>1. unwritten' = <<IssueRecord(issue)>>
      BY <2>2, <2>4, Zenon
    <3>2. /\ StateAfter(operational, IssueRecord(issue)) = "degraded"
          /\ IssueRecord(issue).event # "event_superseded"
      BY <1>0 DEF StateAfter, IssueRecord, Record
    <3>3. Coming' = "degraded"
      BY <2>1, <3>1, <3>2, ResultOf, Zenon DEF Coming
    <3>4. AllPlain(unwritten') /\ Caught
      BY <3>1, <3>2, PlainRecords, PlainSequences, HeadOf, Zenon
    <3> QED BY <1>2, <1>5, <2>1, <3>3, <3>4, Zenon
  <2> QED BY <2>3, <2>4
<1>10. CASE QuarantineFails
  <2>1. /\ phase \in Walking /\ phase' = phase
        /\ UNCHANGED <<operational, inventoried, broken>>
        /\ unwritten' = <<Record("scan_completed", "clean")>>
    BY <1>10 DEF QuarantineFails, Watches, record
  <2>2. incomplete' /\ (untold' <=> (untold \/ ~incomplete))
    BY <1>10, Zenon DEF QuarantineFails
  <2>3. /\ Record("scan_completed", "clean").event # "health_heartbeat"
        /\ StateAfter(operational, Record("scan_completed", "clean")) = operational
        /\ Plain(Record("scan_completed", "clean"))
    BY <1>0, StateRules, PlainRecords DEF Record
  <2>4. Coming' = operational /\ (ComingUntold' <=> untold') /\ AllPlain(unwritten')
    BY <2>1, <2>3, ResultOf, QuietRecords, PlainSequences, Zenon DEF Coming, ComingUntold
  <2> QED BY <1>2, <1>6, <2>1, <2>2, <2>4, Zenon
<1>11. ASSUME NEW issue \in BOOLEAN, InventoryEnds(issue) PROVE Told'
  <2> DEFINE done(outcome) == Record("metadata_inventory_completed", outcome)
  <2>1. /\ phase = "inventory" /\ phase' = "loop" /\ inventoried' /\ untold' = untold
        /\ operational' = operational /\ broken' = broken
    BY <1>11 DEF InventoryEnds, Watches, record
  <2>2. incomplete' <=> (incomplete \/ issue)
    BY <1>11, Zenon DEF InventoryEnds
  <2>3. /\ StateAfter(operational, done("incomplete")) = "degraded"
        /\ StateAfter(operational, done("clean"))
              = IF operational = "degraded" THEN "degraded" ELSE "healthy"
    BY <1>0, StateRules
  <2>4. \A o : done(o).event # "health_heartbeat" /\ done(o).event # "event_superseded"
    BY DEF Record
  <2>0. Fit /\ phase \in Walking
    BY <2>1
  <2>5. CASE issue
    <3>1. unwritten' = <<done("incomplete")>>
      BY <1>11, <2>5, Zenon DEF InventoryEnds
    <3>2. Coming' = "degraded" /\ Caught
      BY <2>1, <2>3, <2>4, <3>1, ResultOf, HeadOf, Zenon DEF Coming
    <3> QED BY <1>5, <2>0, <2>1, <2>2, <2>5, <3>2, Zenon
  <2>6. CASE ~issue
    <3>1. unwritten' = <<done("clean")>>
      BY <1>11, <2>6, Zenon DEF InventoryEnds
    <3>0. Caught
      BY <2>4, <3>1, HeadOf, Zenon
    <3>2. CASE operational = "degraded"
      <4>1. Coming' = "degraded"
        BY <2>1, <2>3, <3>1, <3>2, ResultOf, Zenon DEF Coming
      <4>2. incomplete' \/ broken'
        BY <1>2, <2>0, <2>1, <2>2, <3>2, Zenon
      <4> QED BY <1>5, <2>0, <2>1, <3>0, <4>1, <4>2, Zenon
    <3>3. CASE operational # "degraded"
      <4>1. Coming' = "healthy"
        BY <2>1, <2>3, <3>1, <3>3, ResultOf, Zenon DEF Coming
      <4>2. ComingUntold' <=> untold'
        BY <2>4, <3>1, QuietRecords, Zenon DEF ComingUntold
      <4>3. "healthy" # "degraded"
        OBVIOUS
      <4>4. /\ Started' /\ (operational' = "healthy" => inventoried')
            /\ health'.state = operational' \/ Behind'
        BY <1>b, <2>0, <2>1, <3>0, Zenon
      <4>5. incomplete' => untold'
        BY <1>2, <2>0, <2>1, <2>2, <2>6, <3>3, Zenon
      <4> QED BY <2>0, <2>1, <1>c, <4>1, <4>2, <4>3, <4>4, <4>5, Zenon DEF Told
    <3> QED BY <3>2, <3>3
  <2> QED BY <2>5, <2>6
<1>12. CASE WalkStarts
  <2>1. /\ phase = "loop" /\ phase' = "walk"
        /\ UNCHANGED <<operational, inventoried, incomplete, untold, broken, unwritten>>
    BY <1>12 DEF WalkStarts, Watches, record
  <2>2. Coming' = operational /\ (ComingUntold' <=> untold') /\ AllPlain(unwritten')
    BY <1>0, <2>1, ResultOf, QuietRecords, PlainSequences, Zenon DEF Coming, ComingUntold
  <2>3. phase \in Walking /\ inventoried
    BY <1>2, <2>1
  <2>4. inventoried' = inventoried /\ incomplete' = incomplete /\ untold' = untold
    BY <2>1
  <2>5. inventoried'
    BY <2>3, <2>4, Zenon
  <2> QED BY <1>6, <2>1, <2>2, <2>3, <2>4, <2>5, Zenon
<1>13. ASSUME NEW issue \in BOOLEAN, WalkEnds(issue) PROVE Told'
  <2> DEFINE done(outcome) == Record("reconciliation_completed", outcome)
             beat == Heartbeat(FALSE, TRUE)
  <2>1. /\ phase = "walk" /\ phase' = "loop"
        /\ UNCHANGED <<inventoried, untold, operational, broken>>
    BY <1>13 DEF WalkEnds, Watches, record
  <2>2. /\ inventoried /\ inventoried' /\ phase \in Walking /\ Fit
        /\ phase' # "inventory" => inventoried'
    BY <1>2, <2>1
  <2>3. /\ StateAfter(operational, done("incomplete")) = "degraded"
        /\ StateAfter(operational, done("clean")) = operational
        /\ StateAfter(operational, beat) = "healthy"
    BY <1>0, StateRules
  <2>4. \A o : done(o).event # "health_heartbeat" /\ done(o).event # "event_superseded"
    BY DEF Record
  <2>5. CASE issue
    <3>1. unwritten' = <<done("incomplete")>> /\ incomplete'
      BY <1>13, <2>5, Zenon DEF WalkEnds, Recovers
    <3>2. Coming' = "degraded" /\ Caught
      BY <2>1, <2>3, <2>4, <3>1, ResultOf, HeadOf, Zenon DEF Coming
    <3> QED BY <1>5, <2>1, <2>2, <3>1, <3>2, Zenon
  <2>6. CASE ~issue /\ Recovers(issue)
    <3>1. unwritten' = <<done("clean"), beat>> /\ ~incomplete'
      BY <1>13, <2>6, Zenon DEF WalkEnds
    <3>2. Coming' = "healthy"
      <4>1. Result(operational, <<done("clean"), beat>>)
               = StateAfter(StateAfter(operational, done("clean")), beat)
        <5> HIDE DEF done, beat
        <5> QED BY ResultOfTwo
      <4> QED BY <2>1, <2>3, <3>1, <4>1, Zenon DEF Coming
    <3>3. "healthy" # "degraded"
      OBVIOUS
    <3>4. Caught
      BY <2>4, <3>1, HeadOf, Zenon
    <3>5. /\ Started' /\ (operational' = "healthy" => inventoried')
          /\ health'.state = operational' \/ Behind'
      BY <1>b, <2>1, <2>2, <3>4, Zenon
    <3> QED BY <2>2, <1>c, <3>1, <3>2, <3>3, <3>5, Zenon DEF Told
  <2>7. CASE ~issue /\ ~Recovers(issue)
    <3>1. unwritten' = <<done("clean")>>
      BY <1>13, <2>7, Zenon DEF WalkEnds
    <3>2. incomplete' = (incomplete \/ issue)
      BY <1>13, <2>7, Zenon DEF WalkEnds
    <3>3. incomplete' = incomplete
      BY <1>0, <2>7, <3>2, Zenon
    <3>4. Coming' = operational /\ (ComingUntold' <=> untold')
      BY <2>1, <2>3, <2>4, <3>1, ResultOf, QuietRecords, Zenon DEF Coming, ComingUntold
    <3>5. /\ inventoried' = inventoried /\ untold' = untold /\ operational' = operational
          /\ broken' = broken
      BY <2>1
    <3> QED BY <1>6, <2>2, <3>3, <3>4, <3>5, Zenon
  <2> QED BY <2>5, <2>6, <2>7, Zenon
<1>14. CASE Beat
  <2> DEFINE flag == incomplete \/ (broken /\ phase # "loop")
  <2>1. /\ phase \in Walking /\ phase' = phase
        /\ UNCHANGED <<operational, inventoried, incomplete, untold, broken>>
    BY <1>14 DEF Beat, Watches, truth, record
  <2>2. unwritten' = <<Heartbeat(flag, FALSE)>>
    BY <1>14, Zenon DEF Beat
  <2>0. flag \in BOOLEAN
    OBVIOUS
  <2> HIDE DEF flag
  <2>5. AllPlain(unwritten')
    BY <2>0, <2>2, PlainRecords, PlainSequences, Zenon
  <2>6. Caught
    <3>1. Heartbeat(flag, FALSE).event # "event_superseded"
      BY DEF Heartbeat, Record
    <3> QED BY <2>2, <3>1, HeadOf, Zenon
  <2>3. CASE flag
    <3>1. Heartbeat(flag, FALSE) = Heartbeat(TRUE, FALSE)
      BY <2>3, Zenon DEF Heartbeat
    <3>2. StateAfter(operational, Heartbeat(TRUE, FALSE)) = "degraded"
      BY <1>0, StateRules
    <3>3. Coming' = "degraded"
      <4>1. unwritten' = <<Heartbeat(TRUE, FALSE)>>
        BY <2>2, <3>1, Zenon
      <4> QED BY <2>1, <3>2, <4>1, ResultOf, Zenon DEF Coming
    <3>4. incomplete' \/ broken'
      BY <2>1, <2>3, Zenon DEF flag
    <3> QED BY <1>2, <1>5, <2>1, <2>5, <2>6, <3>3, <3>4, Zenon
  <2>4. CASE ~flag
    <3>1. Heartbeat(flag, FALSE) = Heartbeat(FALSE, FALSE)
      BY <2>4, Zenon DEF Heartbeat
    <3>2. StateAfter(operational, Heartbeat(FALSE, FALSE)) = operational
      BY <1>0, StateRules
    <3>3. Coming' = operational
      BY <2>1, <2>2, <3>1, <3>2, ResultOf, Zenon DEF Coming
    <3>4. ~incomplete' /\ inventoried' = inventoried /\ broken' = broken
      BY <2>1, <2>4, Zenon DEF flag
    <3>5. /\ Started' /\ (operational' = "healthy" => inventoried')
          /\ health'.state = operational' \/ Behind'
      BY <1>b, <2>1, <2>6, Zenon
    <3>6. /\ operational = "healthy" => inventoried
          /\ operational = "degraded" => incomplete \/ broken
          /\ phase # "inventory" => inventoried
      BY <1>2, <2>1, Zenon
    <3>7. /\ Coming' = "healthy" => inventoried'
          /\ Coming' = "degraded" => incomplete' \/ broken'
          /\ phase' # "inventory" => inventoried'
      BY <2>1, <3>3, <3>6, Zenon
    <3> QED BY <1>c, <2>5, <3>4, <3>5, <3>7, Zenon DEF Told
  <2> QED BY <2>3, <2>4
<1> QED
  BY <1>3, <1>4, <1>7, <1>8, <1>9, <1>10, <1>11, <1>12, <1>13, <1>14 DEF Watcher

(* Records of a walk leave a degraded state degraded.                      *)
LEMMA StaysDegraded ==
    ASSUME NEW q \in Seq(Records), Len(q) <= 2, AllPlain(q)
    PROVE  Result("degraded", q) = "degraded"
<1>1. "degraded" \in States
  BY DEF States
<1>2. \A r : Plain(r) => StateAfter("degraded", r) = "degraded"
  BY <1>1 DEF Plain
<1>3. Len(q) \in 0..2
  <2>1. Len(q) \in Nat
    BY LenProperties
  <2>2. \A n \in Nat : n <= 2 => n \in 0..2
    OBVIOUS
  <2> QED BY <2>1, <2>2, Zenon
<1>4. CASE Len(q) = 0
  BY <1>4 DEF Result
<1>5. CASE Len(q) = 1
  <2>1. Plain(q[1])
    BY <1>5 DEF AllPlain
  <2> HIDE DEF Plain
  <2> QED BY <1>2, <1>5, <2>1 DEF Result
<1>6. CASE Len(q) = 2
  <2>1. Plain(q[1]) /\ Plain(q[2])
    BY <1>6 DEF AllPlain
  <2> HIDE DEF Plain
  <2> QED BY <1>2, <1>6, <2>1 DEF Result
<1> QED BY <1>3, <1>4, <1>5, <1>6

(* An error in a walk loses its records, and leaves what was told before.  *)
LEMMA ToldSwallowed ==
    ASSUME EvidenceTypes, Sinking, Told, WriteFails, Swallowed
    PROVE  Told'
<1> DEFINE head == Head(unwritten)
<1>0. /\ unwritten \in Seq(Records) /\ unwritten # <<>> /\ Len(unwritten) <= 2
      /\ operational \in States
  BY DEF WriteFails, EvidenceTypes, Sinking
<1>1. /\ phase \in {"inventory", "walk"} /\ Started /\ unwritten' = <<>>
      /\ UNCHANGED <<phase, inventoried, incomplete, broken>>
  BY DEF Swallowed
<1>2. untold' <=> (untold \/ incomplete)
  BY Zenon DEF Swallowed
<1>3. health' = health
  BY DEF WriteFails
<1>4. /\ AllPlain(unwritten)
      /\ operational = "healthy" => inventoried
      /\ phase # "inventory" => inventoried
      /\ health.state = operational \/ Behind
      /\ Coming = "degraded" => incomplete \/ broken
  BY <1>1, Zenon DEF Told, AllPlain
<1>5. Plain(head) /\ AllPlain(Tail(unwritten)) /\ Tail(unwritten) \in Seq(Records)
      /\ Len(Tail(unwritten)) <= 2
  <2>1. /\ head = unwritten[1] /\ Len(unwritten) \in Nat \ {0}
        /\ Len(Tail(unwritten)) = Len(unwritten) - 1 /\ Tail(unwritten) \in Seq(Records)
        /\ \A i \in 1..Len(Tail(unwritten)) : Tail(unwritten)[i] = unwritten[i + 1]
    BY <1>0, TakeRecord
  <2> HIDE DEF head, Plain
  <2> QED BY <1>0, <1>4, <2>1 DEF AllPlain
<1>6. operational' = operational \/ (operational # "degraded" /\ operational' = "degraded"
                                     /\ StateAfter(operational, head) = "degraded")
  <2>1. StateAfter(operational, head) \in {operational, "degraded"}
    BY <1>0, <1>5 DEF Plain
  <2>2. operational' \in {operational, StateAfter(operational, head)}
    BY DEF WriteFails
  <2> HIDE DEF head
  <2> QED BY <2>1, <2>2
<1>7. Coming' = operational' /\ (ComingUntold' <=> untold') /\ AllPlain(unwritten')
  BY <1>1, ResultOf, QuietRecords, PlainSequences, Zenon DEF Coming, ComingUntold
<1>8. operational' = "degraded" => Coming = "degraded"
  <2>1. CASE operational = "degraded"
    BY <1>0, <1>4, <2>1, StaysDegraded DEF Coming
  <2>2. CASE StateAfter(operational, head) = "degraded"
    <3>1. Coming = Result(StateAfter(operational, head), Tail(unwritten))
      BY <1>0, ResultStep DEF Coming
    <3> QED BY <1>5, <2>2, <3>1, StaysDegraded
  <2> QED BY <1>6, <2>1, <2>2
<1>9. Started' /\ (operational' = "healthy" => inventoried')
  <2>1. "degraded" # "healthy" /\ "degraded" # "starting"
    OBVIOUS
  <2> QED BY <1>1, <1>4, <1>6, <2>1, Zenon DEF Started
<1>10. health'.state = operational' \/ Behind'
  <2>1. CASE operational' = operational
    <3>1. CASE health.state = operational
      BY <1>3, <2>1, <3>1
    <3>2. CASE Behind
      BY <1>1, <1>2, <1>3, <2>1, <3>2, Zenon DEF Behind
    <3> QED BY <1>4, <3>1, <3>2
  <2>2. CASE operational # "degraded" /\ operational' = "degraded"
    <3>1. health.state = operational
      BY <1>4, <2>2, Zenon DEF Behind
    <3>2. health'.state # "degraded" /\ (health'.state = "healthy" => inventoried')
      BY <1>1, <1>3, <1>4, <2>2, <3>1, Zenon
    <3> QED BY <1>1, <1>2, <2>2, <3>2, Zenon DEF Behind
  <2> QED BY <1>6, <2>1, <2>2
<1>11. (\A i \in 1..Len(unwritten') : Plain(unwritten'[i])) <=> AllPlain(unwritten')
  BY Zenon DEF AllPlain
<1>12. /\ Coming' = "degraded" => incomplete' \/ broken'
       /\ phase' # "inventory" => inventoried'
       /\ incomplete' => untold'
  BY <1>1, <1>2, <1>4, <1>7, <1>8, Zenon
<1> QED BY <1>7, <1>9, <1>10, <1>11, <1>12, Zenon DEF Told

(* The sink writes what was coming.                                        *)
LEMMA ToldSink ==
    ASSUME EvidenceTypes, Sinking, Told, Sink \/ Killed \/ WriteFails \/ PipelineBreaks
    PROVE  Told'
<1>1. CASE HealthSkipped \/ HealthWritten
  <2> DEFINE head == Head(unwritten)
  <2>1. /\ sink = "health" /\ unwritten' = Tail(unwritten)
        /\ UNCHANGED <<phase, inventoried, incomplete, broken>>
    BY <1>1 DEF HealthSkipped, HealthWritten, truth
  <2>2. /\ unwritten \in Seq(Records) /\ unwritten # <<>> /\ Len(unwritten) <= 2
        /\ operational \in States
    BY <2>1 DEF EvidenceTypes, Sinking
  <2>3. operational' = StateAfter(operational, head)
    <3>1. CASE HealthSkipped
      <4>1. head.event = "event_superseded" /\ operational' = operational
        BY <3>1 DEF HealthSkipped
      <4> HIDE DEF head
      <4> QED BY <4>1 DEF StateAfter
    <3> QED BY <1>1, <3>1 DEF HealthWritten
  <2>4. untold' <=> (untold /\ head.event # "health_heartbeat")
    <3>1. CASE HealthSkipped
      <4>1. head.event = "event_superseded" /\ untold' = untold
        BY <3>1 DEF HealthSkipped
      <4>2. head.event # "health_heartbeat"
        BY <4>1
      <4> QED BY <4>1, <4>2, Zenon
    <3> QED BY <1>1, <3>1, Zenon DEF HealthWritten
  <2>5. Coming' = Coming
    BY <2>1, <2>2, <2>3, ResultStep DEF Coming
  <2>6. ComingUntold' <=> ComingUntold
    <3>1. Quiet(unwritten) <=> (head.event # "health_heartbeat" /\ Quiet(Tail(unwritten)))
      BY <2>2, ResultStep
    <3> QED BY <2>1, <2>4, <3>1, Zenon DEF ComingUntold
  <2>7. CASE phase \in {"inventory", "loop", "walk"}
    <3>0. /\ operational = "healthy" => inventoried
          /\ phase # "inventory" => inventoried
          /\ ~Started => Opening
          /\ Started => health.state = operational \/ Behind
          /\ phase \in {"inventory", "walk"} /\ Started => AllPlain(unwritten)
      BY <2>7, Zenon DEF Told, AllPlain
    <3>1. CASE ~Started
      <4> DEFINE start == Record("session_started", "none")
                 fall == Record("backend_fallback", "none")
      <4>1. operational = "starting"
        BY <3>1 DEF Started
      <4>2. /\ StateAfter("starting", start) = "inventorying_metadata"
            /\ StateAfter("starting", fall) = "starting"
            /\ start.event # "event_superseded" /\ fall.event # "event_superseded"
        <5>1. "starting" \in States
          BY DEF States
        <5> QED BY <5>1, StateRules DEF Record
      <4>3. unwritten = <<start>> \/ unwritten = <<fall, start>>
        BY <3>0, <3>1, Zenon DEF Opening
      <4> HIDE DEF start, fall
      <4>4. \/ head = start /\ Tail(unwritten) = <<>>
            \/ head = fall /\ Tail(unwritten) = <<start>>
        BY <4>3, HeadOf, Zenon
      <4>5. HealthWritten
        <5>1. head.event # "event_superseded"
          BY <4>2, <4>4, Zenon
        <5> QED BY <1>1, <5>1, Zenon DEF HealthSkipped
      <4>6. health'.state = operational'
        BY <4>5 DEF HealthWritten
      <4>7. CASE head = start /\ Tail(unwritten) = <<>>
        <5>1. operational' = "inventorying_metadata"
          BY <2>3, <4>1, <4>2, <4>7, Zenon
        <5>2. Started' /\ operational' # "healthy"
          BY <5>1 DEF Started
        <5>3. AllPlain(unwritten')
          BY <2>1, <4>7, PlainSequences, Zenon
        <5> QED
          BY <2>1, <2>5, <2>6, <2>7, <3>0, <4>6, <5>2, <5>3, Zenon DEF Told, AllPlain
      <4>8. CASE head = fall /\ Tail(unwritten) = <<start>>
        <5>1. operational' = "starting"
          BY <2>3, <4>1, <4>2, <4>8, Zenon
        <5>2. ~Started' /\ operational' # "healthy"
          BY <5>1 DEF Started
        <5>3. Opening'
          BY <2>1, <4>8, Zenon DEF Opening, start
        <5> QED
          BY <2>1, <2>5, <2>6, <2>7, <3>0, <5>2, <5>3, Zenon DEF Told
      <4> QED BY <4>4, <4>7, <4>8
    <3>2. CASE Started
      <4>1. operational' = "healthy" => inventoried'
        <5>1. CASE phase = "inventory"
          <6>1. Plain(head)
            <7>1. head = unwritten[1] /\ Len(unwritten) \in Nat \ {0}
              BY <2>2, TakeRecord
            <7> HIDE DEF head, Plain
            <7> QED BY <3>0, <3>2, <5>1, <7>1 DEF AllPlain
          <6>2. operational' \in {operational, "degraded"}
            BY <2>2, <2>3, <6>1 DEF Plain
          <6>3. operational' = "healthy" => operational = "healthy"
            BY <6>2
          <6> QED BY <2>1, <3>0, <6>3, Zenon
        <5>2. CASE phase # "inventory"
          BY <2>1, <3>0, <5>2, Zenon
        <5> QED BY <5>1, <5>2
      <4>2. Started'
        <5>1. head \in Records
          BY <2>2, TakeRecord
        <5> HIDE DEF head
        <5> QED BY <2>3, <3>2 DEF Started, StateAfter
      <4>3. phase \in {"inventory", "walk"} => AllPlain(unwritten')
        <5>1. /\ Len(unwritten) \in Nat \ {0}
              /\ Len(Tail(unwritten)) = Len(unwritten) - 1
              /\ \A i \in 1..Len(Tail(unwritten)) : Tail(unwritten)[i] = unwritten[i + 1]
          BY <2>2, TakeRecord
        <5> HIDE DEF Plain
        <5> QED BY <2>1, <3>0, <3>2, <5>1 DEF AllPlain
      <4>4. health'.state = operational' \/ Behind'
        <5>1. CASE HealthWritten
          BY <5>1 DEF HealthWritten
        <5>2. CASE HealthSkipped
          <6>1. /\ health' = health /\ operational' = operational /\ untold' = untold
                /\ head.event = "event_superseded"
            BY <5>2 DEF HealthSkipped, disk
          <6>2. CASE health.state = operational
            BY <6>1, <6>2
          <6>3. CASE Behind
            BY <2>1, <6>1, <6>3, Zenon DEF Behind
          <6> QED BY <3>0, <3>2, <6>2, <6>3
        <5> QED BY <1>1, <5>1, <5>2
      <4> QED
        BY <2>1, <2>5, <2>6, <2>7, <3>0, <4>1, <4>2, <4>3, <4>4, Zenon DEF Told, AllPlain
    <3> QED BY <3>1, <3>2
  <2> QED BY <2>1, <2>7 DEF Told
<1>2. CASE AppendBegins \/ Unlink \/ Rotate \/ Write \/ HealthBusy
  <2>1. UNCHANGED <<phase, inventoried, incomplete, broken, untold, unwritten, operational, health>>
    BY <1>2 DEF AppendBegins, Unlink, Rotate, Write, HealthBusy, truth, disk
  <2> QED BY <2>1 DEF Told, Coming, ComingUntold, Started, Behind, Opening
<1>3. CASE Killed
  <2>1. phase' \notin {"inventory", "loop", "walk"}
    BY <1>3 DEF Killed
  <2> QED BY <2>1 DEF Told
<1>4. CASE WriteFails
  <2>1. CASE EndsSession
    <3>1. phase' \notin {"inventory", "loop", "walk"}
      BY <2>1 DEF EndsSession
    <3> QED BY <3>1 DEF Told
  <2> QED BY <1>4, <2>1, ToldSwallowed DEF WriteFails
<1>5. CASE PipelineBreaks
  <2>1. /\ UNCHANGED <<phase, inventoried, incomplete, untold, unwritten, operational, health>>
        /\ broken'
    BY <1>5 DEF PipelineBreaks, record, disk
  <2>2. Coming' = Coming /\ (ComingUntold' <=> ComingUntold) /\ (Started' <=> Started)
        /\ (Opening' <=> Opening) /\ (Behind' <=> Behind)
    BY <2>1 DEF Coming, ComingUntold, Started, Behind, Opening
  <2> QED BY <2>1, <2>2 DEF Told
<1> QED BY <1>1, <1>2, <1>3, <1>4, <1>5 DEF Sink

-----------------------------------------------------------------------------
(* Every step keeps the log.                                               *)
LEMMA LogStep ==
    ASSUME EvidenceTypes, LogInv, EvidenceNext
    PROVE  LogInv'
<1>0. /\ acked \in Nat /\ faults \in Nat /\ Len(log[0]) \in Nat
      /\ sink \in {"ready", "unlink", "rotate", "write", "health"}
  BY FilesType DEF EvidenceTypes
<1>1. CASE Watcher
  <2>1. UNCHANGED <<log, acked, faults, sink>> /\ sink = "ready"
    BY <1>1, WatcherWrites
  <2>2. Rotating'
    BY <2>1 DEF Rotating
  <2> QED BY <2>1, <2>2, LogStill
<1>2. CASE AppendBegins
  <2>1. /\ UNCHANGED <<log, acked, faults>> /\ sink = "ready"
        /\ sink' = IF Rotates THEN "unlink" ELSE "write"
    BY <1>2 DEF AppendBegins, disk
  <2>2. Len(log[0]) <= MaxBytes
    BY DEF LogInv, LogBounded
  <2>3. IF Rotates THEN Len(log[0]) = MaxBytes ELSE Len(log[0]) < MaxBytes
    BY <1>0, <2>2 DEF Rotates
  <2>4. Rotating'
    BY <2>1, <2>3 DEF Rotating
  <2> QED BY <2>1, <2>4, LogStill
<1>3. CASE HealthSkipped \/ HealthWritten \/ HealthBusy
  <2>1. UNCHANGED <<log, acked, faults>> /\ sink = "health" /\ sink' \in {"ready", "health"}
    BY <1>3 DEF HealthSkipped, HealthWritten, HealthBusy, disk
  <2>2. Rotating'
    BY <2>1 DEF Rotating
  <2> QED BY <2>1, <2>2, LogStill
<1>4. CASE Killed \/ WriteFails
  <2>1. /\ acked' = acked /\ faults' = faults + 1 /\ sink' = "ready"
        /\ log' \in {log} \cup
                (IF sink = "write" THEN {[log EXCEPT ![0] = Append(@, Torn)]} ELSE {})
    BY <1>4 DEF Killed, WriteFails, Dies
  <2>2. Rotating'
    BY <2>1 DEF Rotating
  <2>3. log \in [0..Backups -> Seq(0..acked)]
    BY DEF EvidenceTypes
  <2>4. CASE log' = log
    BY <2>1, <2>2, <2>4, LogStill
  <2>5. CASE log' # log
    BY <1>0, <2>1, <2>3, <2>5, TornWrite, LogTorn
  <2> QED BY <2>4, <2>5
<1>5. CASE PipelineBreaks
  <2>1. UNCHANGED <<log, acked, faults, sink, shift>>
    BY <1>5 DEF PipelineBreaks, record, disk
  <2> QED
    BY <2>1 DEF LogInv, LogBounded, InOrder, OnlyOldestGone, RetainsWhatFits, IsKept, Rotating,
                Newest, Filled, Before
<1> QED
  BY <1>1, <1>2, <1>3, <1>4, <1>5, LogUnlink, LogRotate, LogWrite DEF EvidenceNext, Sink

(* The types, the room for records, the files and the state that is coming *)
(* hold of every reachable state.                                          *)
THEOREM EvidenceInvariant == EvidenceSpec => []EvidenceInv
<1>1. EvidenceInit => EvidenceInv
  <2> SUFFICES ASSUME EvidenceInit PROVE EvidenceInv
    OBVIOUS
  <2>0. /\ \A i \in 0..Backups : log[i] = <<>> /\ Len(log[i]) = 0
        /\ Len(unwritten) = 0 /\ unwritten \in Seq(Records)
    BY EmptySeq, ShortSequences DEF EvidenceInit, NoFile
  <2>1. inventoried \in BOOLEAN /\ incomplete \in BOOLEAN /\ persistent \in BOOLEAN
        /\ moved \in BOOLEAN /\ untold \in BOOLEAN /\ broken \in BOOLEAN /\ marred \in BOOLEAN
    BY Zenon DEF EvidenceInit
  <2>2. /\ phase \in Running \cup {"over", "off"} /\ told \subseteq Issues
        /\ sink \in {"ready", "unlink", "rotate", "write", "health"}
        /\ shift \in 0..(Backups - 1) /\ tries \in 0..Attempts
        /\ operational \in States /\ health.state \in States \cup {"none"}
        /\ health.number \in 0..acked /\ acked \in 0..MaxRecords /\ faults \in 0..MaxFaults
        /\ log \in [0..Backups -> Seq(0..acked)]
    BY EmptySeq DEF EvidenceInit, NoFile, NoHealth, States
  <2>3. EvidenceTypes
    BY <2>0, <2>1, <2>2, Zenon DEF EvidenceTypes
  <2>4. Sinking /\ Counted
    BY <2>0 DEF EvidenceInit, Sinking, Counted
  <2>5. LogBounded /\ InOrder /\ OnlyOldestGone /\ RetainsWhatFits
    BY <2>0 DEF EvidenceInit, LogBounded, InOrder, OnlyOldestGone, RetainsWhatFits
  <2>6. Rotating /\ Newest /\ Filled
    BY <2>0 DEF EvidenceInit, Rotating, Newest, Filled
  <2>7. Told
    BY DEF EvidenceInit, Told
  <2> QED BY <2>3, <2>4, <2>5, <2>6, <2>7 DEF EvidenceInv, LogInv
<1>2. EvidenceInv /\ [EvidenceNext]_evidence => EvidenceInv'
  <2> SUFFICES ASSUME EvidenceInv, [EvidenceNext]_evidence PROVE EvidenceInv'
    OBVIOUS
  <2>1. EvidenceTypes /\ Sinking /\ Counted /\ LogInv /\ Told
    BY DEF EvidenceInv
  <2>2. CASE EvidenceNext
    <3>1. EvidenceTypes' /\ Sinking' /\ Counted'
      BY <2>1, <2>2, WatcherTypes, SinkTypes DEF EvidenceNext
    <3>2. Told'
      BY <2>1, <2>2, ToldWatcher, ToldSink DEF EvidenceNext
    <3>3. LogInv'
      BY <2>1, <2>2, LogStep
    <3> QED BY <3>1, <3>2, <3>3 DEF EvidenceInv
  <2>3. CASE UNCHANGED evidence
    <3>1. EvidenceTypes' /\ Sinking' /\ Counted'
      BY <2>1, <2>3 DEF evidence, truth, record, disk, EvidenceTypes, Sinking, Counted,
                        Taken, Reserve
    <3>2. Told'
      BY <2>1, <2>3 DEF evidence, truth, record, disk, Told, Coming, ComingUntold, Started, Behind,
                        Opening
    <3>3. LogInv'
      BY <2>1, <2>3 DEF evidence, record, disk, LogInv, LogBounded, InOrder, OnlyOldestGone,
                        RetainsWhatFits, IsKept, Rotating, Newest, Filled, Before
    <3> QED BY <3>1, <3>2, <3>3 DEF EvidenceInv
  <2> QED BY <2>2, <2>3
<1> QED BY <1>1, <1>2, PTL DEF EvidenceSpec

(* Every variable of a session and of its files keeps its type, whatever   *)
(* is killed or fails.                                                     *)
THEOREM EvidenceTyped == EvidenceSpec => []EvidenceTypes
<1>1. EvidenceInv => EvidenceTypes
  BY DEF EvidenceInv
<1> QED BY <1>1, EvidenceInvariant, PTL

(* RotatingNdjsonLog, whatever its limits: bounded, in order, without a    *)
(* loss in the middle, the newest record kept but for a chain of faults,   *)
(* and nothing lost without faults before the files are full.              *)
THEOREM LogSurvives == EvidenceSpec => []LogIsSound
<1>1. EvidenceInv => LogIsSound
  <2> SUFFICES ASSUME EvidenceInv PROVE LogIsSound
    OBVIOUS
  <2>1. LogBounded /\ InOrder /\ OnlyOldestGone /\ RetainsWhatFits /\ Newest
    BY DEF EvidenceInv, LogInv
  <2>2. NewestIsKept
    <3>1. faults \in Nat /\ acked \in Nat
      BY DEF EvidenceInv, EvidenceTypes
    <3> QED BY <2>1, <3>1 DEF NewestIsKept, Newest, IsKept
  <2> QED BY <2>1, <2>2 DEF LogIsSound
<1> QED BY <1>1, EvidenceInvariant, PTL

(* WatchEvidenceSink: between two handlers the health file says healthy    *)
(* only as the flags of the watcher have it, or a walk could not write what*)
(* it found, and degraded only when the session is incomplete or its queue *)
(* has lost reports.                                                       *)
THEOREM HealthTells == EvidenceSpec => []HealthIsTrue
<1>1. EvidenceInv => HealthIsTrue
  <2> SUFFICES ASSUME EvidenceInv, AtRest
               PROVE  /\ health.state = "healthy" => inventoried /\ (incomplete => untold)
                      /\ health.state = "degraded" => incomplete \/ broken
    BY DEF HealthIsTrue, HealthyIsTold, DegradedIsTrue
  <2>1. unwritten = <<>> /\ phase \in {"inventory", "loop", "walk"}
    BY DEF AtRest
  <2>2. Coming = operational /\ (ComingUntold <=> untold)
    BY <2>1, ResultOf, QuietRecords, Zenon DEF Coming, ComingUntold
  <2>3. /\ Coming # "degraded" => (incomplete => ComingUntold)
        /\ Coming = "healthy" => inventoried
        /\ Coming = "degraded" => incomplete \/ broken
        /\ ~Started => Opening
        /\ Started => health.state = operational \/ Behind
    BY <2>1, Zenon DEF EvidenceInv, Told
  <2>4. Started
    <3>1. \A r : \A t : <<r>> # <<>> /\ <<r, t>> # <<>>
      BY HeadOf, Zenon
    <3> QED BY <2>1, <2>3, <3>1, Zenon DEF Opening
  <2>5. CASE health.state = operational
    <3>1. "healthy" # "degraded"
      OBVIOUS
    <3> QED BY <2>2, <2>3, <2>5, <3>1, Zenon
  <2>6. CASE Behind
    BY <2>1, <2>6, Zenon DEF Behind
  <2> QED BY <2>3, <2>4, <2>5, <2>6
<1> QED BY <1>1, EvidenceInvariant, PTL
=============================================================================
