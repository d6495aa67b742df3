---------------------------- MODULE WatcherProofs ----------------------------
(***************************************************************************)
(* What Watcher promises, for any number of files, changes and failures.   *)
(***************************************************************************)
EXTENDS Watcher, TLAPS

(* Where the loop is tells what it holds in its hands.                     *)
Place ==
    /\ pc \in {"visit", "inspect", "drain"} => walk # "none"
    /\ pc \in {"check", "choose"} => walk = "none"
    /\ walk = "none" => gaps = {}
    /\ pc \in {"inspect", "drain"} => at \in Files \ todo
    /\ pc = "inspect" => walk # "inventory" /\ seen # NoEntry
    /\ pc \notin {"scan", "stop", "done"} => batch = {}
    /\ pc \notin {"stop", "done"} => raised = "nothing"
    /\ pc \in {"stop", "done"} /\ raised = "nothing" => batch = {} /\ walk = "none"
    /\ pc # "done" => summary = "running"

(* The type invariant in parts, for the provers.                           *)
DiskTypes ==
    /\ present \in [Files -> BOOLEAN]
    /\ content \in [Files -> 0..MaxChanges] /\ meta \in [Files -> 0..MaxChanges]
    /\ changes \in 0..MaxChanges

CacheTypes ==
    /\ snapshot \in [Files -> {NoEntry} \cup 0..MaxChanges]
    /\ current \in [Files -> {NoEntry} \cup 0..MaxChanges]
    /\ inspected \in [Files -> {NoEntry} \cup 0..MaxChanges]

PlaceTypes ==
    /\ queued \subseteq Files /\ batch \subseteq Files /\ todo \subseteq Files
    /\ pc \in {"check", "scan", "choose", "visit", "inspect", "drain", "stop", "done"}
    /\ walk \in Walks \cup {"none"}
    /\ at \in Files \cup {NoFile} /\ seen \in {NoEntry} \cup 0..MaxChanges
    /\ gaps \subseteq Gaps
    /\ raised \in {"nothing"} \cup Exceptions
    /\ summary \in {"running", "none", "interrupted", "incomplete", "complete"}

FlagTypes ==
    /\ overflowed \in BOOLEAN /\ observerAlive \in BOOLEAN /\ ingestFailed \in BOOLEAN
    /\ operational \in BOOLEAN /\ historical \in BOOLEAN /\ persistent \in BOOLEAN
    /\ moved \in BOOLEAN /\ lost \in BOOLEAN

CountTypes ==
    /\ unresolved \subseteq Files /\ drainFailed \subseteq unresolved
    /\ failures \in 0..MaxFailures /\ mark \in 0..MaxChanges

WatcherInv == DiskTypes /\ CacheTypes /\ PlaceTypes /\ FlagTypes /\ CountTypes /\ Place

-----------------------------------------------------------------------------
LEMMA TypeParts == WatcherInv => TypeOK
BY DEF WatcherInv, TypeOK, DiskTypes, CacheTypes, PlaceTypes, FlagTypes, CountTypes

LEMMA StartsWell == Init => WatcherInv
<1> SUFFICES ASSUME Init PROVE WatcherInv
  OBVIOUS
<1> USE WatcherAssumption DEF Init
<1>1. DiskTypes
  BY DEF DiskTypes
<1>2. CacheTypes
  BY DEF CacheTypes, Empty
<1>3. PlaceTypes
  BY DEF PlaceTypes, Walks, Gaps
<1>4. FlagTypes
  BY DEF FlagTypes
<1>5. CountTypes
  BY DEF CountTypes
<1>6. Place
  BY DEF Place
<1> QED BY <1>1, <1>2, <1>3, <1>4, <1>5, <1>6 DEF WatcherInv

LEMMA EnvironmentKeeps == WatcherInv /\ Environment => WatcherInv'
<1> SUFFICES ASSUME WatcherInv, Environment PROVE WatcherInv'
  OBVIOUS
<1> USE WatcherAssumption DEF WatcherInv
<1>1. ASSUME NEW f \in Files, Delete(f) PROVE WatcherInv'
  <2>1. DiskTypes'
    BY <1>1 DEF DiskTypes, Delete, Report, Untouched
  <2>2. CacheTypes'
    BY <1>1 DEF CacheTypes, Delete, Report, Untouched, cache
  <2>3. PlaceTypes'
    BY <1>1 DEF PlaceTypes, Delete, Report, Untouched, place, cache, result
  <2>4. FlagTypes'
    BY <1>1 DEF FlagTypes, Delete, Report, Untouched, flags
  <2>5. CountTypes'
    BY <1>1 DEF CountTypes, DiskTypes, Delete, Report, Untouched
  <2>6. Place'
    BY <1>1 DEF Place, Delete, Report, Untouched, place, cache, result
  <2> QED BY <2>1, <2>2, <2>3, <2>4, <2>5, <2>6 DEF WatcherInv
<1>2. ASSUME NEW f \in Files, NEW r \in Restored, Write(f, r) PROVE WatcherInv'
  <2>1. DiskTypes'
    BY <1>2 DEF DiskTypes, Write, Report, Untouched
  <2>2. CacheTypes'
    BY <1>2 DEF CacheTypes, Write, Report, Untouched, cache
  <2>3. PlaceTypes'
    BY <1>2 DEF PlaceTypes, Write, Report, Untouched, place, cache, result
  <2>4. FlagTypes'
    BY <1>2 DEF FlagTypes, Write, Report, Untouched, flags
  <2>5. CountTypes'
    BY <1>2 DEF CountTypes, Write, Report, Untouched
  <2>6. Place'
    BY <1>2 DEF Place, Write, Report, Untouched, place, cache, result
  <2> QED BY <2>1, <2>2, <2>3, <2>4, <2>5, <2>6 DEF WatcherInv
<1>3. CASE ObserverDies \/ IngestDies
  <2>1. DiskTypes'
    BY <1>3 DEF DiskTypes, ObserverDies, IngestDies, disk
  <2>2. CacheTypes'
    BY <1>3 DEF CacheTypes, ObserverDies, IngestDies, disk, cache, history, memory
  <2>3. PlaceTypes'
    BY <1>3 DEF PlaceTypes, ObserverDies, IngestDies, disk, place, cache, result
  <2>4. FlagTypes'
    BY <1>3 DEF FlagTypes, ObserverDies, IngestDies, flags, history
  <2>5. CountTypes'
    BY <1>3 DEF CountTypes, ObserverDies, IngestDies, disk, history, memory
  <2>6. Place'
    BY <1>3 DEF Place, ObserverDies, IngestDies, disk, place, cache, result
  <2> QED BY <2>1, <2>2, <2>3, <2>4, <2>5, <2>6 DEF WatcherInv
<1>4. CASE Interrupt
  <2>1. DiskTypes'
    BY <1>4 DEF DiskTypes, Interrupt, Exceptions, disk
  <2>2. CacheTypes'
    BY <1>4 DEF CacheTypes, Interrupt, Exceptions, disk, cache, history, memory
  <2>3. PlaceTypes'
    BY <1>4 DEF PlaceTypes, Interrupt, Uncaught, Exceptions, disk, intake, place, cache
  <2>4. FlagTypes'
    BY <1>4 DEF FlagTypes, Interrupt, Exceptions, intake, flags, history
  <2>5. CountTypes'
    BY <1>4 DEF CountTypes, Interrupt, Exceptions, disk, history, memory
  <2>6. Place'
    BY <1>4 DEF Place, Interrupt, Exceptions, disk, intake, place, cache
  <2> QED BY <2>1, <2>2, <2>3, <2>4, <2>5, <2>6 DEF WatcherInv
<1> QED BY <1>1, <1>2, <1>3, <1>4 DEF Environment

LEMMA ScanKeeps == WatcherInv /\ Scan => WatcherInv'
<1> SUFFICES ASSUME WatcherInv, NEW f \in Files,
                    ScanGone(f) \/ ScanHashed(f) \/ ScanFailed(f) \/ ScanUnquarantined(f)
             PROVE  WatcherInv'
  BY DEF Scan
<1> USE WatcherAssumption DEF WatcherInv
<1>1. DiskTypes'
  BY DEF DiskTypes, Scanned, ScanGone, ScanHashed, ScanFailed, ScanUnquarantined, Hashed,
     Failed, Resolved, Evict, Incomplete, Fatal, disk
<1>2. CacheTypes'
  BY DEF CacheTypes, DiskTypes, Scanned, ScanGone, ScanHashed, ScanFailed,
     ScanUnquarantined, Hashed, Failed, Resolved, Evict, Incomplete, Fatal, disk, memory
<1>3. PlaceTypes'
  BY DEF PlaceTypes, Scanned, ScanGone, ScanHashed, ScanFailed, ScanUnquarantined, Hashed,
     Failed, Resolved, Evict, Incomplete, Fatal, disk, intake, place, result
<1>4. FlagTypes'
  BY DEF FlagTypes, Scanned, ScanGone, ScanHashed, ScanFailed, ScanUnquarantined, Hashed,
     Failed, Resolved, Evict, Incomplete, Fatal, intake, flags
<1>5. CountTypes'
  BY DEF CountTypes, Scanned, ScanGone, ScanHashed, ScanFailed, ScanUnquarantined, Hashed,
     Failed, Resolved, Evict, Incomplete, Fatal, disk, memory
<1>6. Place'
  BY DEF Place, PlaceTypes, Scanned, ScanGone, ScanHashed, ScanFailed, ScanUnquarantined,
     Hashed, Failed, Resolved, Evict, Incomplete, Fatal, disk, intake, place, result
<1> QED BY <1>1, <1>2, <1>3, <1>4, <1>5, <1>6 DEF WatcherInv

LEMMA VisitKeeps == WatcherInv /\ Visit => WatcherInv'
<1> SUFFICES ASSUME WatcherInv, NEW f \in Files,
                    \/ VisitAbsent(f) \/ VisitUnreadable(f) \/ VisitInventory(f)
                    \/ VisitUnchanged(f) \/ VisitChanged(f)
             PROVE  WatcherInv'
  BY DEF Visit
<1> USE WatcherAssumption DEF WatcherInv
<1>1. DiskTypes'
  BY DEF DiskTypes, Reach, VisitAbsent, VisitUnreadable, VisitInventory, VisitUnchanged,
     VisitChanged, Evict, disk
<1>2. CacheTypes'
  BY DEF CacheTypes, DiskTypes, Reach, VisitAbsent, VisitUnreadable, VisitInventory,
     VisitUnchanged, VisitChanged, Evict, disk, cache, memory
<1>3. PlaceTypes'
  BY DEF PlaceTypes, DiskTypes, Gaps, Reach, VisitAbsent, VisitUnreadable, VisitInventory,
     VisitUnchanged, VisitChanged, Evict, disk, intake, cache, result
<1>4. FlagTypes'
  BY DEF FlagTypes, Reach, VisitAbsent, VisitUnreadable, VisitInventory, VisitUnchanged,
     VisitChanged, Evict, intake, flags
<1>5. CountTypes'
  BY DEF CountTypes, Reach, VisitAbsent, VisitUnreadable, VisitInventory, VisitUnchanged,
     VisitChanged, Evict, disk, memory
<1>6. Place'
  BY DEF Place, PlaceTypes, DiskTypes, NoEntry, Reach, VisitAbsent, VisitUnreadable,
     VisitInventory, VisitUnchanged, VisitChanged, Evict, disk, intake, cache, result
<1> QED BY <1>1, <1>2, <1>3, <1>4, <1>5, <1>6 DEF WatcherInv

LEMMA InspectKeeps == WatcherInv /\ InspectFile => WatcherInv'
<1> SUFFICES ASSUME WatcherInv,
                    InspectHashed \/ InspectUnquarantined \/ InspectFailed \/ InspectGone
             PROVE  WatcherInv'
  BY DEF InspectFile
<1> USE WatcherAssumption DEF WatcherInv
<1>1. DiskTypes'
  BY DEF DiskTypes, Inspect, InspectHashed, InspectUnquarantined, InspectFailed,
     InspectGone, Hashed, Failed, Resolved, disk
<1>2. CacheTypes'
  BY DEF CacheTypes, DiskTypes, PlaceTypes, Place, Inspect, InspectHashed,
     InspectUnquarantined, InspectFailed, InspectGone, Hashed, Failed, Resolved, disk,
     memory
<1>3. PlaceTypes'
  BY DEF PlaceTypes, Gaps, Inspect, InspectHashed, InspectUnquarantined, InspectFailed,
     InspectGone, Hashed, Failed, Resolved, disk, intake, place, result
<1>4. FlagTypes'
  BY DEF FlagTypes, Inspect, InspectHashed, InspectUnquarantined, InspectFailed,
     InspectGone, Hashed, Failed, Resolved, intake, flags
<1>5. CountTypes'
  BY DEF CountTypes, Place, PlaceTypes, Inspect, InspectHashed, InspectUnquarantined,
     InspectFailed, InspectGone, Hashed, Failed, Resolved, disk, memory
<1>6. Place'
  BY DEF Place, Inspect, InspectHashed, InspectUnquarantined, InspectFailed, InspectGone,
     Hashed, Failed, Resolved, disk, intake, place, result
<1> QED BY <1>1, <1>2, <1>3, <1>4, <1>5, <1>6 DEF WatcherInv

LEMMA LoopKeeps ==
    WatcherInv /\ \/ NoDrain \/ Drain \/ CallbackFails \/ EndWalk
                  \/ CheckPipeline \/ CheckDuration \/ CheckFails \/ TakeDue \/ Sleep
                  \/ StartWalk("reconcile") \/ StartWalk("full") \/ Stop
    => WatcherInv'
<1> SUFFICES ASSUME WatcherInv,
                    \/ NoDrain \/ Drain \/ CallbackFails \/ EndWalk
                    \/ CheckPipeline \/ CheckDuration \/ CheckFails \/ TakeDue \/ Sleep \/ StartWalk("reconcile") \/ StartWalk("full") \/ Stop
             PROVE  WatcherInv'
  OBVIOUS
<1> USE WatcherAssumption DEF WatcherInv
<1>1. CASE NoDrain \/ Drain
  <2>1. DiskTypes'
    BY <1>1 DEF DiskTypes, NoDrain, Drain, disk
  <2>2. CacheTypes'
    BY <1>1 DEF CacheTypes, NoDrain, Drain, disk, cache, history, memory
  <2>3. PlaceTypes'
    BY <1>1 DEF PlaceTypes, NoDrain, Drain, disk, intake, place, cache, result
  <2>4. FlagTypes'
    BY <1>1 DEF FlagTypes, NoDrain, Drain, intake, flags, history
  <2>5. CountTypes'
    BY <1>1 DEF CountTypes, NoDrain, Drain, disk, history, memory
  <2>6. Place'
    BY <1>1 DEF Place, NoDrain, Drain, disk, intake, place, cache, result
  <2> QED BY <2>1, <2>2, <2>3, <2>4, <2>5, <2>6 DEF WatcherInv
<1>2. CASE EndWalk
  <2>1. DiskTypes'
    BY <1>2 DEF DiskTypes, EndWalk, disk
  <2>2. CacheTypes'
    BY <1>2 DEF CacheTypes, Empty, EndWalk, disk, memory
  <2>3. PlaceTypes'
    BY <1>2 DEF PlaceTypes, Walks, EndWalk, disk, intake, result
  <2>4. FlagTypes'
    BY <1>2 DEF FlagTypes, Recovers, EndWalk, intake
  <2>5. CountTypes'
    BY <1>2 DEF CountTypes, DiskTypes, EndWalk, disk, memory
  <2>6. Place'
    BY <1>2 DEF Place, EndWalk, disk, intake, result
  <2> QED BY <2>1, <2>2, <2>3, <2>4, <2>5, <2>6 DEF WatcherInv
<1>3. CASE CheckPipeline \/ CheckDuration \/ CheckFails
  <2>1. DiskTypes'
    BY <1>3 DEF DiskTypes, CheckPipeline, CheckDuration, CheckFails, Fatal, disk
  <2>2. CacheTypes'
    BY <1>3 DEF CacheTypes, CheckPipeline, CheckDuration, CheckFails, Fatal, disk, cache,
       history, memory
  <2>3. PlaceTypes'
    BY <1>3 DEF PlaceTypes, CheckPipeline, CheckDuration, CheckFails, Fatal, disk, intake,
       place, cache, result
  <2>4. FlagTypes'
    BY <1>3 DEF FlagTypes, CheckPipeline, CheckDuration, CheckFails, Fatal, intake, flags,
       history
  <2>5. CountTypes'
    BY <1>3 DEF CountTypes, CheckPipeline, CheckDuration, CheckFails, Fatal, disk, history,
       memory
  <2>6. Place'
    BY <1>3 DEF Place, CheckPipeline, CheckDuration, CheckFails, Fatal, disk, intake, place,
       cache, result
  <2> QED BY <2>1, <2>2, <2>3, <2>4, <2>5, <2>6 DEF WatcherInv
<1>4. CASE TakeDue \/ Sleep
  <2>1. DiskTypes'
    BY <1>4 DEF DiskTypes, TakeDue, Sleep, disk
  <2>2. CacheTypes'
    BY <1>4 DEF CacheTypes, TakeDue, Sleep, disk, cache, history, memory
  <2>3. PlaceTypes'
    BY <1>4 DEF PlaceTypes, TakeDue, Sleep, disk, intake, place, cache, result
  <2>4. FlagTypes'
    BY <1>4 DEF FlagTypes, TakeDue, Sleep, intake, flags, history
  <2>5. CountTypes'
    BY <1>4 DEF CountTypes, TakeDue, Sleep, disk, history, memory
  <2>6. Place'
    BY <1>4 DEF Place, TakeDue, Sleep, disk, intake, place, cache, result
  <2> QED BY <2>1, <2>2, <2>3, <2>4, <2>5, <2>6 DEF WatcherInv
<1>5. CASE StartWalk("reconcile") \/ StartWalk("full")
  <2>1. DiskTypes'
    BY <1>5 DEF DiskTypes, StartWalk, disk
  <2>2. CacheTypes'
    BY <1>5 DEF CacheTypes, Empty, StartWalk, disk, history, memory
  <2>3. PlaceTypes'
    BY <1>5 DEF PlaceTypes, Walks, StartWalk, disk, intake, result
  <2>4. FlagTypes'
    BY <1>5 DEF FlagTypes, StartWalk, intake, flags, history
  <2>5. CountTypes'
    BY <1>5 DEF CountTypes, StartWalk, disk, history, memory
  <2>6. Place'
    BY <1>5 DEF Place, StartWalk, disk, intake, result
  <2> QED BY <2>1, <2>2, <2>3, <2>4, <2>5, <2>6 DEF WatcherInv
<1>6. CASE Stop
  <2>1. DiskTypes'
    BY <1>6 DEF DiskTypes, Stop, disk
  <2>2. CacheTypes'
    BY <1>6 DEF CacheTypes, Stop, disk, cache, history, memory
  <2>3. PlaceTypes'
    BY <1>6 DEF PlaceTypes, Stop, disk, place, cache
  <2>4. FlagTypes'
    BY <1>6 DEF FlagTypes, Fatal, Stop, flags, history
  <2>5. CountTypes'
    BY <1>6 DEF CountTypes, Stop, disk, history, memory
  <2>6. Place'
    BY <1>6 DEF Place, Stop, disk, place, cache
  <2> QED BY <2>1, <2>2, <2>3, <2>4, <2>5, <2>6 DEF WatcherInv
<1>7. CASE CallbackFails
  <2>1. DiskTypes'
    BY <1>7 DEF DiskTypes, CallbackFails, disk
  <2>2. CacheTypes'
    BY <1>7 DEF CacheTypes, CallbackFails, disk, cache
  <2>3. PlaceTypes'
    BY <1>7 DEF PlaceTypes, Gaps, CallbackFails, disk, intake, place, cache, result
  <2>4. FlagTypes'
    BY <1>7 DEF FlagTypes, CallbackFails, intake, flags
  <2>5. CountTypes'
    BY <1>7 DEF CountTypes, CallbackFails, disk
  <2>6. Place'
    BY <1>7 DEF Place, CallbackFails, disk, intake, place, cache, result
  <2> QED BY <2>1, <2>2, <2>3, <2>4, <2>5, <2>6 DEF WatcherInv
<1> QED BY <1>1, <1>2, <1>3, <1>4, <1>5, <1>6, <1>7

LEMMA WatcherStep == WatcherInv /\ [Next]_vars => WatcherInv'
<1>1. WatcherInv /\ UNCHANGED vars => WatcherInv'
  BY DEF WatcherInv, DiskTypes, CacheTypes, PlaceTypes, FlagTypes, CountTypes, Place, vars,
     disk, intake, place, cache, flags, result, history, memory
<1> QED BY <1>1, EnvironmentKeeps, ScanKeeps, VisitKeeps, InspectKeeps, LoopKeeps DEF Next,
   Loop

(* Every variable of a session keeps its type.                             *)
THEOREM SessionTypes == Spec => []TypeOK
BY StartsWell, WatcherStep, TypeParts, PTL DEF Spec

-----------------------------------------------------------------------------
(* What may be missing has been told, or will be when the walk ends.       *)
Told ==
    /\ lost => overflowed \/ historical
    /\ failures # 0 => historical \/ gaps \cap {"issue", "quarantine"} # {}

HonestInv == FlagsNested /\ Told /\ SummaryHonest

LEMMA HonestStep == WatcherInv /\ HonestInv /\ [Next]_vars => HonestInv'
<1> SUFFICES ASSUME WatcherInv, HonestInv, [Next]_vars PROVE HonestInv'
  OBVIOUS
<1> USE DEF HonestInv
<1>1. ASSUME NEW f \in Files, Delete(f) \/ \E r \in Restored : Write(f, r) PROVE HonestInv'
  <2>1. FlagsNested'
    BY <1>1 DEF FlagsNested, WatcherInv, FlagTypes, Delete, Write, Report, Untouched, flags
  <2>2. Told'
    BY <1>1 DEF Told, WatcherInv, FlagTypes, FlagsNested, Delete, Write, Report, Untouched,
       flags
  <2>3. SummaryHonest'
    BY <1>1, <2>1, <2>2 DEF SummaryHonest, WatcherInv, PlaceTypes, Place, Told, Delete,
       Write, Report, Untouched, place, flags, result
  <2> QED BY <2>1, <2>2, <2>3
<1>2. CASE ObserverDies \/ IngestDies \/ Interrupt
  <2>1. FlagsNested'
    BY <1>2 DEF FlagsNested, WatcherInv, FlagTypes, ObserverDies, IngestDies, Interrupt,
       flags
  <2>2. Told'
    BY <1>2 DEF Told, WatcherInv, FlagTypes, FlagsNested, ObserverDies, IngestDies,
       Interrupt, intake, flags, history, memory
  <2>3. SummaryHonest'
    BY <1>2, <2>1, <2>2 DEF SummaryHonest, WatcherInv, PlaceTypes, Place, Told,
       ObserverDies, IngestDies, Interrupt, disk, intake, place, cache, flags, result,
       history, memory
  <2> QED BY <2>1, <2>2, <2>3
<1>3. CASE Scan
  <2>1. FlagsNested'
    BY <1>3 DEF FlagsNested, WatcherInv, FlagTypes, Scan, Scanned, ScanGone, ScanHashed,
       ScanFailed, ScanUnquarantined, Hashed, Failed, Incomplete, Fatal, flags
  <2>2. Told'
    BY <1>3 DEF Told, WatcherInv, FlagTypes, FlagsNested, Scan, Scanned, ScanGone,
       ScanHashed, ScanFailed, ScanUnquarantined, Hashed, Failed, Incomplete, Fatal, intake,
       flags, memory
  <2>3. SummaryHonest'
    BY <1>3, <2>1, <2>2 DEF SummaryHonest, WatcherInv, PlaceTypes, Place, Told, Scan,
       Scanned, ScanGone, ScanHashed, ScanFailed, ScanUnquarantined, Hashed, Failed,
       Incomplete, Fatal, disk, intake, place, flags, result, memory
  <2> QED BY <2>1, <2>2, <2>3
<1>4. CASE Visit
  <2>1. FlagsNested'
    BY <1>4 DEF FlagsNested, WatcherInv, FlagTypes, Visit, Reach, VisitAbsent,
       VisitUnreadable, VisitInventory, VisitUnchanged, VisitChanged, flags
  <2>2. Told'
    BY <1>4 DEF Told, WatcherInv, FlagTypes, FlagsNested, Visit, Reach, VisitAbsent,
       VisitUnreadable, VisitInventory, VisitUnchanged, VisitChanged, intake, flags, memory
  <2>3. SummaryHonest'
    BY <1>4, <2>1, <2>2 DEF SummaryHonest, WatcherInv, PlaceTypes, Place, Told, Visit,
       Reach, VisitAbsent, VisitUnreadable, VisitInventory, VisitUnchanged, VisitChanged,
       disk, intake, cache, flags, result, memory
  <2> QED BY <2>1, <2>2, <2>3
<1>5. CASE InspectFile
  <2>1. FlagsNested'
    BY <1>5 DEF FlagsNested, WatcherInv, FlagTypes, InspectFile, Inspect, InspectHashed,
       InspectUnquarantined, InspectFailed, InspectGone, Hashed, Failed, flags
  <2>2. Told'
    BY <1>5 DEF Told, WatcherInv, FlagTypes, FlagsNested, InspectFile, Inspect,
       InspectHashed, InspectUnquarantined, InspectFailed, InspectGone, Hashed, Failed,
       intake, flags, memory
  <2>3. SummaryHonest'
    BY <1>5, <2>1, <2>2 DEF SummaryHonest, WatcherInv, PlaceTypes, Place, Told, InspectFile,
       Inspect, InspectHashed, InspectUnquarantined, InspectFailed, InspectGone, Hashed,
       Failed, disk, intake, place, flags, result, memory
  <2> QED BY <2>1, <2>2, <2>3
<1>6. CASE NoDrain \/ Drain
  <2>1. FlagsNested'
    BY <1>6 DEF FlagsNested, WatcherInv, FlagTypes, NoDrain, Drain, flags
  <2>2. Told'
    BY <1>6 DEF Told, WatcherInv, FlagTypes, FlagsNested, NoDrain, Drain, intake, flags,
       history, memory
  <2>3. SummaryHonest'
    BY <1>6, <2>1, <2>2 DEF SummaryHonest, WatcherInv, PlaceTypes, Place, Told, NoDrain,
       Drain, disk, intake, place, cache, flags, result, history, memory
  <2> QED BY <2>1, <2>2, <2>3
<1>7. CASE EndWalk
  <2>1. FlagsNested'
    BY <1>7 DEF FlagsNested, WatcherInv, FlagTypes, EndWalk, Recovers
  <2>2. Told'
    BY <1>7 DEF Told, WatcherInv, FlagTypes, FlagsNested, EndWalk, Recovers, intake, memory
  <2>3. SummaryHonest'
    BY <1>7, <2>1, <2>2 DEF SummaryHonest, WatcherInv, PlaceTypes, Place, Told, EndWalk,
       Recovers, disk, intake, result, memory
  <2> QED BY <2>1, <2>2, <2>3
<1>8. CASE CheckPipeline \/ CheckDuration \/ CheckFails
  <2>1. FlagsNested'
    BY <1>8 DEF FlagsNested, WatcherInv, FlagTypes, CheckPipeline, CheckDuration,
       CheckFails, PipelineBroken, Fatal, flags
  <2>2. Told'
    BY <1>8 DEF Told, WatcherInv, FlagTypes, FlagsNested, CheckPipeline, CheckDuration,
       CheckFails, PipelineBroken, Fatal, intake, flags, history, memory
  <2>3. SummaryHonest'
    BY <1>8, <2>1, <2>2 DEF SummaryHonest, WatcherInv, PlaceTypes, Place, Told,
       CheckPipeline, CheckDuration, CheckFails, PipelineBroken, Fatal, disk, intake, place,
       cache, flags, result, history, memory
  <2> QED BY <2>1, <2>2, <2>3
<1>9. CASE TakeDue \/ Sleep
  <2>1. FlagsNested'
    BY <1>9 DEF FlagsNested, WatcherInv, FlagTypes, TakeDue, Sleep, flags
  <2>2. Told'
    BY <1>9 DEF Told, WatcherInv, FlagTypes, FlagsNested, TakeDue, Sleep, intake, flags,
       history, memory
  <2>3. SummaryHonest'
    BY <1>9, <2>1, <2>2 DEF SummaryHonest, WatcherInv, PlaceTypes, Place, Told, TakeDue,
       Sleep, disk, intake, place, cache, flags, result, history, memory
  <2> QED BY <2>1, <2>2, <2>3
<1>10. CASE StartWalk("reconcile") \/ StartWalk("full")
  <2>1. FlagsNested'
    BY <1>10 DEF FlagsNested, WatcherInv, FlagTypes, StartWalk, flags
  <2>2. Told'
    BY <1>10 DEF Told, WatcherInv, Place, FlagTypes, FlagsNested, StartWalk, intake, flags,
       history, memory
  <2>3. SummaryHonest'
    BY <1>10, <2>1, <2>2 DEF SummaryHonest, WatcherInv, PlaceTypes, Place, Told, StartWalk,
       disk, intake, flags, result, history, memory
  <2> QED BY <2>1, <2>2, <2>3
<1>11. CASE Stop
  <2>1. FlagsNested'
    BY <1>11 DEF FlagsNested, WatcherInv, FlagTypes, Stop, PipelineBroken, Backlog, Fatal,
       flags
  <2>2. Told'
    BY <1>11 DEF Told, WatcherInv, FlagTypes, FlagsNested, Stop, PipelineBroken, Backlog,
       Fatal, flags, history, memory
  <2>3. SummaryHonest'
    <3> SUFFICES ASSUME summary' = "complete"
                 PROVE  ~lost' /\ failures' = 0 /\ queued' = {} /\ batch' = {} /\ ~ingestFailed'
      BY <2>1 DEF SummaryHonest
    <3>1. raised = "nothing" /\ ~(operational' \/ historical')
      BY <1>11 DEF Stop, WatcherInv, PlaceTypes, Exceptions
    <3>2. ~PipelineBroken /\ ~Backlog /\ ~historical
      BY <1>11, <3>1 DEF Stop, Fatal, flags
    <3>3. batch = {} /\ gaps = {}
      BY <1>11, <3>1 DEF Stop, WatcherInv, Place
    <3>4. ~lost /\ failures = 0
      BY <3>2, <3>3 DEF Told, PipelineBroken
    <3> QED BY <1>11, <3>2, <3>3, <3>4 DEF Stop, PipelineBroken, Backlog, history, memory
  <2> QED BY <2>1, <2>2, <2>3
<1>12. CASE CallbackFails
  <2>1. FlagsNested'
    BY <1>12 DEF FlagsNested, CallbackFails, flags
  <2>2. Told'
    BY <1>12 DEF Told, CallbackFails, intake, flags
  <2>3. SummaryHonest'
    BY <1>12, <2>1 DEF SummaryHonest, WatcherInv, Place, CallbackFails, result
  <2> QED BY <2>1, <2>2, <2>3
<1>13. CASE UNCHANGED vars
  <2>1. FlagsNested'
    BY <1>13 DEF FlagsNested, WatcherInv, FlagTypes, vars, flags
  <2>2. Told'
    BY <1>13 DEF Told, WatcherInv, FlagTypes, FlagsNested, vars, intake, flags, history,
       memory
  <2>3. SummaryHonest'
    BY <1>13, <2>1, <2>2 DEF SummaryHonest, WatcherInv, PlaceTypes, Place, Told, vars, disk,
       intake, place, cache, flags, result, history, memory
  <2> QED BY <2>1, <2>2, <2>3
<1> QED BY <1>1, <1>2, <1>3, <1>4, <1>5, <1>6, <1>7, <1>8, <1>9, <1>10, <1>11, <1>12, <1>13 DEF
   Next, Environment, Loop

(* Exit code 0 is honest: a session that ends complete lost no event,      *)
(* failed no inspection and no quarantine, and left nothing queued.        *)
THEOREM HonestSummary == Spec => []SummaryHonest
<1>1. Init => HonestInv
  BY DEF Init, HonestInv, FlagsNested, Told, SummaryHonest
<1> QED BY <1>1, StartsWell, WatcherStep, HonestStep, PTL DEF Spec, HonestInv

-----------------------------------------------------------------------------
(* Will f, whose inspection failed in this walk or before it, still be     *)
(* read by the walk under way, or has the walk taken note of the failure?  *)
InReach(f) ==
    \/ "issue" \in gaps
    \/ f \in todo
    \/ pc = "inspect" /\ at = f

Remembered(f) ==
    /\ walk = "none" => operational /\ snapshot[f] = NoEntry
    /\ f \in todo => walk # "inventory" /\ snapshot[f] = NoEntry
    /\ walk # "none" => current[f] = NoEntry /\ (pc \in {"stop", "done"} \/ InReach(f))

(* A failed file is not cached, so that the next walk reads it again.      *)
FailuresInv ==
    /\ \A f \in unresolved : present[f]
    /\ \A f \in todo : current[f] = NoEntry
    /\ pc = "inspect" => current[at] = NoEntry
    /\ \A f \in unresolved \ drainFailed : Remembered(f)

LEMMA FailuresStep == WatcherInv /\ FailuresInv /\ [Next]_vars => FailuresInv'
<1> SUFFICES ASSUME WatcherInv, FailuresInv, [Next]_vars PROVE FailuresInv'
  OBVIOUS
<1> USE DEF FailuresInv
<1>1. ASSUME NEW f \in Files, Delete(f) \/ \E r \in Restored : Write(f, r) PROVE FailuresInv'
  BY <1>1 DEF Delete, Write, Report, Untouched, Remembered, InReach, WatcherInv, DiskTypes,
     CountTypes, place, cache, flags
<1>2. CASE ObserverDies \/ IngestDies \/ Interrupt
  BY <1>2 DEF ObserverDies, IngestDies, Interrupt, Remembered, InReach, disk, place, cache,
     flags, history, memory
<1>3. ASSUME NEW f \in Files, ScanGone(f) \/ ScanHashed(f) \/ ScanFailed(f) \/ ScanUnquarantined(f)
      PROVE  FailuresInv'
  <2>1. Scanned(f)
    BY <1>3 DEF ScanGone, ScanHashed, ScanFailed, ScanUnquarantined
  <2>2. ASSUME ScanGone(f) \/ ScanHashed(f) \/ ScanUnquarantined(f) PROVE FailuresInv'
    <3>1. /\ pc = "scan" /\ pc' # "inspect"
          /\ UNCHANGED <<present, walk, todo, current, gaps>>
      BY <2>1 DEF Scanned, disk, place, WatcherInv, PlaceTypes, Walks
    <3>2. unresolved' = unresolved \ {f} /\ drainFailed' = drainFailed \ {f}
      BY <2>2 DEF ScanGone, ScanHashed, ScanUnquarantined, Hashed, Resolved
    <3>3. \A g \in Files : snapshot[g] = NoEntry => snapshot'[g] = NoEntry
      BY <2>2 DEF ScanGone, ScanHashed, ScanUnquarantined, Evict, WatcherInv, CacheTypes
    <3>4. operational => operational'
      BY <2>2 DEF ScanGone, ScanHashed, ScanUnquarantined, Fatal, flags
    <3>5. unresolved \subseteq Files
      BY DEF WatcherInv, CountTypes
    <3> QED BY <3>1, <3>2, <3>3, <3>4, <3>5 DEF Remembered, InReach
  <2>3. ASSUME ScanFailed(f) PROVE FailuresInv'
    <3>1. /\ pc = "scan" /\ pc' # "inspect" /\ operational' /\ present[f]
          /\ UNCHANGED <<present, walk, todo, current, gaps>>
      BY <2>1, <2>3 DEF Scanned, ScanFailed, Failed, Incomplete, disk, place, WatcherInv,
         PlaceTypes, Walks
    <3>2. /\ unresolved' = unresolved \cup {f}
          /\ drainFailed' = IF DoneWith(f) THEN drainFailed \cup {f} ELSE drainFailed \ {f}
      BY <3>1, <2>3 DEF ScanFailed, Failed
    <3>3. snapshot'[f] = NoEntry /\ \A g \in Files : snapshot[g] = NoEntry => snapshot'[g] = NoEntry
      BY <2>3 DEF ScanFailed, Evict, WatcherInv, CacheTypes
    <3>4. unresolved \subseteq Files
      BY DEF WatcherInv, CountTypes
    <3>5. f \notin drainFailed' => Remembered(f)'
      BY <3>1, <3>2, <3>3 DEF DoneWith, Remembered, InReach
    <3>6. ASSUME NEW g \in unresolved \ drainFailed, g # f PROVE Remembered(g)'
      BY <3>1, <3>3, <3>4, <3>6 DEF Remembered, InReach
    <3>7. \A g \in unresolved' \ drainFailed' : Remembered(g)'
      BY <3>2, <3>5, <3>6
    <3> QED BY <3>1, <3>2, <3>7
  <2> QED BY <1>3, <2>2, <2>3
<1>4. ASSUME NEW f \in Files,
             \/ VisitAbsent(f) \/ VisitUnreadable(f) \/ VisitInventory(f)
             \/ VisitUnchanged(f) \/ VisitChanged(f)
      PROVE  FailuresInv'
  <2>1. Reach(f)
    BY <1>4 DEF VisitAbsent, VisitUnreadable, VisitInventory, VisitUnchanged, VisitChanged
  <2>2. CASE VisitAbsent(f) \/ VisitUnreadable(f)
    BY <2>1, <2>2 DEF Reach, VisitAbsent, VisitUnreadable, Remembered, InReach, WatcherInv,
       Place, PlaceTypes, cache, disk, flags
  <2>3. CASE VisitInventory(f) \/ VisitUnchanged(f) \/ VisitChanged(f)
    <3>1. f \in unresolved \ drainFailed => VisitChanged(f)
      BY <2>1, <2>3 DEF Reach, VisitInventory, VisitUnchanged, Changed, Remembered, InReach,
         WatcherInv, DiskTypes, Place, NoEntry
    <3>2. /\ pc = "visit" /\ walk # "none" /\ todo' = todo \ {f}
          /\ UNCHANGED <<present, walk, unresolved, drainFailed>> /\ gaps \subseteq gaps'
      BY <2>1, <2>3 DEF Reach, VisitInventory, VisitUnchanged, VisitChanged, WatcherInv,
         Place, disk
    <3>3. \A g \in Files : g # f => snapshot'[g] = snapshot[g] /\ current'[g] = current[g]
      BY <2>3 DEF VisitInventory, VisitUnchanged, VisitChanged, Evict, WatcherInv,
         CacheTypes
    <3>4. VisitChanged(f) => pc' = "inspect" /\ at' = f /\ UNCHANGED current
      BY DEF VisitChanged
    <3>5. ~VisitChanged(f) => pc' # "inspect"
      BY <2>3, <3>2 DEF VisitInventory, VisitUnchanged
    <3>6. current[f] = NoEntry /\ unresolved \subseteq Files /\ todo \subseteq Files
      BY <2>1 DEF Reach, WatcherInv, CountTypes, PlaceTypes
    <3>7. ~VisitChanged(f) => f \notin unresolved \ drainFailed
      BY <3>1
    <3> QED BY <3>2, <3>3, <3>4, <3>5, <3>6, <3>7 DEF Remembered, InReach
  <2> QED BY <1>4, <2>2, <2>3
<1>5. CASE InspectFile
  <2>1. Inspect /\ at \in Files \ todo /\ walk # "none"
    BY <1>5 DEF InspectFile, InspectHashed, InspectUnquarantined, InspectFailed,
       InspectGone, Inspect, WatcherInv, Place
  <2>2. /\ pc = "inspect" /\ pc' = "drain"
        /\ UNCHANGED <<present, walk, todo, at, snapshot, operational>>
    BY <2>1 DEF Inspect, disk, place, flags
  <2>3. \A g \in Files : g # at => current'[g] = current[g]
    BY <1>5 DEF InspectFile, InspectHashed, InspectUnquarantined, InspectFailed,
       InspectGone, WatcherInv, CacheTypes
  <2>4. unresolved \subseteq Files /\ todo \subseteq Files
    BY DEF WatcherInv, CountTypes, PlaceTypes
  <2>5. CASE InspectFailed
    <3>1. /\ unresolved' = unresolved \cup {at} /\ drainFailed' = drainFailed \ {at}
          /\ present[at] /\ "issue" \in gaps' /\ gaps \subseteq gaps' /\ UNCHANGED current
      BY <2>2, <2>5 DEF InspectFailed, Failed
    <3> QED BY <2>1, <2>2, <2>4, <3>1 DEF Remembered, InReach
  <2>6. CASE InspectHashed \/ InspectUnquarantined \/ InspectGone
    <3>1. /\ unresolved' = unresolved \ {at} /\ drainFailed' = drainFailed \ {at}
          /\ gaps \subseteq gaps'
      BY <2>6 DEF InspectHashed, InspectUnquarantined, InspectGone, Hashed, Resolved
    <3> QED BY <2>1, <2>2, <2>3, <2>4, <3>1 DEF Remembered, InReach
  <2> QED BY <1>5, <2>5, <2>6 DEF InspectFile
<1>6. CASE NoDrain \/ Drain
  BY <1>6 DEF NoDrain, Drain, Remembered, InReach, disk, place, cache, flags, history,
     memory
<1>7. CASE EndWalk
  <2>1. pc = "visit" /\ todo = {} /\ todo' = todo /\ walk # "none" /\ walk' = "none" /\ pc' = "check"
        /\ UNCHANGED <<unresolved, drainFailed, present>> /\ snapshot' = current
    BY <1>7 DEF EndWalk, WatcherInv, Place, disk, memory
  <2>2. \A f \in unresolved \ drainFailed : "issue" \in gaps /\ current[f] = NoEntry
    BY <2>1 DEF Remembered, InReach
  <2>3. "issue" \in gaps => operational'
    BY <1>7 DEF EndWalk, Recovers
  <2> QED BY <2>1, <2>2, <2>3 DEF Remembered
<1>8. CASE CheckPipeline \/ CheckDuration \/ CheckFails \/ Stop
  BY <1>8 DEF CheckPipeline, CheckDuration, CheckFails, Stop, Fatal, Remembered, WatcherInv,
     Place, disk, place, cache, flags, history, memory
<1>9. CASE TakeDue \/ Sleep
  BY <1>9 DEF TakeDue, Sleep, Remembered, WatcherInv, Place, disk, place, cache, flags,
     history, memory
<1>10. CASE StartWalk("reconcile") \/ StartWalk("full")
  BY <1>10 DEF StartWalk, Empty, Remembered, InReach, WatcherInv, Place, CountTypes, disk,
     history, memory, flags
<1>11. CASE CallbackFails
  BY <1>11 DEF CallbackFails, Remembered, InReach, disk, place, cache, flags
<1>12. CASE UNCHANGED vars
  BY <1>12 DEF vars, Remembered, InReach, disk, place, cache, flags, history, memory
<1> QED BY <1>1, <1>2, <1>3, <1>4, <1>5, <1>6, <1>7, <1>8, <1>9, <1>10, <1>11, <1>12
      DEF Next, Environment, Loop, Scan, Visit

(* A file whose inspection failed in a walk, in the main loop, or in a     *)
(* drain before the walk came to it, keeps the session incomplete until it *)
(* has been read.                                                          *)
THEOREM FailuresStay == Spec => []FailuresKeepIncomplete
<1>1. Init => FailuresInv
  BY DEF Init, FailuresInv, Empty
<1>2. FailuresInv => FailuresKeepIncomplete
  BY DEF FailuresInv, Remembered, FailuresKeepIncomplete
<1> QED BY <1>1, <1>2, StartsWell, WatcherStep, FailuresStep, PTL DEF Spec

-----------------------------------------------------------------------------
(* No fingerprint lies ahead of the changes made so far, so that the next  *)
(* write differs from all that were cached.                                *)
ClockInv ==
    /\ \A f \in Files : content[f] <= changes /\ meta[f] <= changes
    /\ \A f \in Files : current[f] <= changes /\ snapshot[f] <= changes
    /\ seen <= changes

LEMMA ClockStep == WatcherInv /\ ClockInv /\ [Next]_vars => ClockInv'
<1> SUFFICES ASSUME WatcherInv, ClockInv, [Next]_vars PROVE ClockInv'
  OBVIOUS
<1> USE DEF ClockInv
<1>1. changes \in Nat /\ \A f \in Files : content[f] \in Nat /\ meta[f] \in Nat
  BY WatcherAssumption DEF WatcherInv, DiskTypes
<1>2. ASSUME NEW f \in Files, Delete(f) \/ \E r \in Restored : Write(f, r) PROVE ClockInv'
  BY <1>1, <1>2 DEF Delete, Write, Untouched, WatcherInv, DiskTypes, CacheTypes, PlaceTypes,
     NoEntry, place, cache
<1>3. CASE Visit
  <2>1. PICK f \in Files : \/ VisitAbsent(f) \/ VisitUnreadable(f) \/ VisitInventory(f)
                           \/ VisitUnchanged(f) \/ VisitChanged(f)
    BY <1>3 DEF Visit
  <2>2. UNCHANGED <<changes, content, meta>>
    BY <2>1 DEF VisitAbsent, VisitUnreadable, VisitInventory, VisitUnchanged, VisitChanged,
       Reach, disk
  <2>3. current' = current \/ current' = [current EXCEPT ![f] = meta[f]]
    BY <2>1 DEF VisitAbsent, VisitUnreadable, VisitInventory, VisitUnchanged, VisitChanged,
       cache
  <2>4. seen' = seen \/ seen' = meta[f]
    BY <2>1 DEF VisitAbsent, VisitUnreadable, VisitInventory, VisitUnchanged, VisitChanged
  <2>5. snapshot' = snapshot \/ snapshot' = [snapshot EXCEPT ![f] = NoEntry]
    BY <2>1 DEF VisitAbsent, VisitUnreadable, VisitInventory, VisitUnchanged, VisitChanged,
       Evict, cache
  <2> QED BY <1>1, <2>2, <2>3, <2>4, <2>5 DEF WatcherInv, CacheTypes, NoEntry
<1>4. CASE InspectFile
  BY <1>1, <1>4 DEF InspectFile, Inspect, InspectHashed, InspectUnquarantined,
     InspectFailed, InspectGone, WatcherInv, CacheTypes, disk, place
<1>5. CASE EndWalk \/ StartWalk("reconcile") \/ StartWalk("full")
  <2>1. /\ UNCHANGED <<changes, content, meta>>
        /\ current' = Empty /\ snapshot' \in {snapshot, current} /\ seen' \in {seen, NoEntry}
    BY <1>5 DEF EndWalk, StartWalk, disk
  <2> QED BY <1>1, <2>1 DEF Empty, NoEntry
<1>6. CASE Scan
  <2>1. PICK f \in Files : ScanGone(f) \/ ScanHashed(f) \/ ScanFailed(f) \/ ScanUnquarantined(f)
    BY <1>6 DEF Scan
  <2>2. /\ UNCHANGED <<changes, content, meta, current, seen>>
        /\ snapshot' \in {snapshot, [snapshot EXCEPT ![f] = NoEntry]}
    BY <2>1 DEF ScanGone, ScanHashed, ScanFailed, ScanUnquarantined, Scanned, Evict, disk,
       place
  <2> QED BY <1>1, <2>2 DEF WatcherInv, CacheTypes, NoEntry
<1>7. CASE \/ ObserverDies \/ IngestDies \/ Interrupt \/ NoDrain \/ Drain \/ CallbackFails
           \/ CheckPipeline \/ CheckDuration \/ CheckFails \/ TakeDue \/ Sleep \/ Stop \/ UNCHANGED vars
  BY <1>7 DEF ObserverDies, IngestDies, Interrupt, NoDrain, Drain, CallbackFails,
     CheckPipeline, CheckDuration, CheckFails, TakeDue, Sleep, Stop, vars, disk, place, cache
<1> QED BY <1>2, <1>3, <1>4, <1>5, <1>6, <1>7 DEF Next, Environment, Loop

-----------------------------------------------------------------------------
Watching == pc \notin {"stop", "done"} /\ walk # "inventory"

Late(f) == present[f] /\ content[f] > mark

CoverInv == Watching => \A f \in Files : Late(f) => Covered(f)

LEMMA CoverStep ==
    ASSUME TRUE \notin Restored, WatcherInv, ClockInv, FailuresInv, CoverInv, [Next]_vars
    PROVE  CoverInv'
<1> SUFFICES ASSUME Watching', NEW g \in Files, Late(g)' PROVE Covered(g)'
  BY DEF CoverInv
<1>1. changes \in Nat /\ \A f \in Files : content[f] \in Nat /\ meta[f] \in Nat
  BY WatcherAssumption DEF WatcherInv, DiskTypes
<1>2. ASSUME NEW f \in Files, NEW r \in Restored, Write(f, r) PROVE Covered(g)'
  <2>1. /\ meta' = [meta EXCEPT ![f] = changes + 1] /\ changes' = changes + 1
        /\ UNCHANGED <<pc, walk, todo, at, snapshot, current, inspected, mark>>
    BY <1>2, WatcherAssumption DEF Write, Untouched, place, cache
  <2>2. CASE g = f
    BY <1>1, <2>1, <2>2 DEF Covered, WillReread, ClockInv, WatcherInv, DiskTypes, CacheTypes,
       NoEntry
  <2>3. CASE g # f
    <3>1. present'[g] = present[g] /\ content'[g] = content[g] /\ meta'[g] = meta[g]
      BY <1>2, <2>1, <2>3 DEF Write, WatcherInv, DiskTypes
    <3> QED BY <2>1, <3>1 DEF CoverInv, Watching, Late, Covered, WillReread
  <2> QED BY <2>2, <2>3
<1>3. ASSUME NEW f \in Files, Delete(f) PROVE Covered(g)'
  BY <1>3 DEF Delete, Untouched, place, cache, CoverInv, Watching, Late, Covered, WillReread,
     WatcherInv, DiskTypes
<1>4. CASE ObserverDies \/ IngestDies \/ Interrupt
  BY <1>4 DEF ObserverDies, IngestDies, Interrupt, disk, place, cache, history, memory,
     CoverInv, Watching, Late, Covered, WillReread
<1>5. ASSUME NEW f \in Files, ScanGone(f) \/ ScanHashed(f) \/ ScanFailed(f) \/ ScanUnquarantined(f)
      PROVE  Covered(g)'
  <2>1. /\ pc = "scan" /\ pc' # "inspect"
        /\ UNCHANGED <<present, content, meta, walk, todo, at, current, mark>>
    BY <1>5 DEF ScanGone, ScanHashed, ScanFailed, ScanUnquarantined, Scanned, disk, place,
       WatcherInv, PlaceTypes, Walks
  <2>2. Covered(g)
    BY <2>1 DEF CoverInv, Watching, Late
  <2>3. snapshot'[g] \in {snapshot[g], NoEntry}
    BY <1>5 DEF ScanGone, ScanHashed, ScanFailed, ScanUnquarantined, Evict, WatcherInv,
       CacheTypes
  <2>4. inspected'[g] \in {inspected[g], content[g]}
    BY <1>5 DEF ScanGone, ScanHashed, ScanFailed, ScanUnquarantined, Hashed, Failed,
       WatcherInv, CacheTypes
  <2> QED BY <1>1, <2>1, <2>2, <2>3, <2>4 DEF Covered, WillReread, NoEntry
<1>6. ASSUME NEW f \in Files,
             \/ VisitAbsent(f) \/ VisitUnreadable(f) \/ VisitInventory(f)
             \/ VisitUnchanged(f) \/ VisitChanged(f)
      PROVE  Covered(g)'
  <2>1. /\ pc = "visit" /\ f \in todo /\ todo' = todo \ {f} /\ walk # "none"
        /\ UNCHANGED <<present, content, meta, walk, inspected, mark>>
    BY <1>6 DEF VisitAbsent, VisitUnreadable, VisitInventory, VisitUnchanged, VisitChanged,
       Reach, disk, WatcherInv, Place
  <2>2. Covered(g) /\ Late(g) /\ ~VisitInventory(f)
    BY <2>1 DEF CoverInv, Watching, Late, VisitInventory
  <2>3. CASE g = f
    <3>1. ~VisitAbsent(f)
      BY <2>2, <2>3 DEF VisitAbsent, Late
    <3>2. CASE VisitUnreadable(f)
      BY <1>1, <2>1, <2>3, <3>2 DEF VisitUnreadable, cache, FailuresInv, Covered, WillReread,
         NoEntry
    <3>3. CASE VisitUnchanged(f)
      <4>1. snapshot[f] = meta[f]
        BY <3>3 DEF VisitUnchanged, Changed
      <4> QED BY <2>1, <2>2, <2>3, <4>1 DEF Covered, WillReread
    <3>4. CASE VisitChanged(f)
      BY <2>1, <2>3, <3>4 DEF VisitChanged, Covered, WillReread
    <3> QED BY <1>6, <2>2, <3>1, <3>2, <3>3, <3>4
  <2>4. CASE g # f
    <3>1. current'[g] = current[g] /\ snapshot'[g] = snapshot[g]
      BY <1>6, <2>4 DEF VisitAbsent, VisitUnreadable, VisitInventory, VisitUnchanged,
         VisitChanged, Evict, cache, WatcherInv, CacheTypes
    <3> QED BY <2>1, <2>2, <2>4, <3>1 DEF Covered, WillReread
  <2> QED BY <2>3, <2>4
<1>7. CASE InspectFile
  <2>1. /\ pc = "inspect" /\ pc' = "drain" /\ at \in Files \ todo /\ walk # "none"
        /\ UNCHANGED <<present, content, meta, walk, todo, at, snapshot, mark>>
    BY <1>7 DEF InspectFile, InspectHashed, InspectUnquarantined, InspectFailed,
       InspectGone, Inspect, disk, place, WatcherInv, Place
  <2>2. Covered(g) /\ Late(g)
    BY <2>1 DEF CoverInv, Watching, Late
  <2>3. CASE g = at
    <3>1. CASE InspectHashed \/ InspectUnquarantined
      BY <2>1, <2>3, <3>1 DEF InspectHashed, InspectUnquarantined, Hashed, Covered,
         WatcherInv, CacheTypes
    <3>2. CASE InspectFailed
      BY <1>1, <2>1, <2>3, <3>2 DEF InspectFailed, FailuresInv, NoEntry, Covered, WillReread
    <3>3. CASE InspectGone
      BY <2>2, <2>3, <3>3 DEF InspectGone, Late
    <3> QED BY <1>7, <3>1, <3>2, <3>3 DEF InspectFile
  <2>4. CASE g # at
    <3>1. inspected'[g] = inspected[g] /\ current'[g] = current[g]
      BY <1>7, <2>4 DEF InspectFile, InspectHashed, InspectUnquarantined, InspectFailed,
         InspectGone, Hashed, Failed, WatcherInv, CacheTypes
    <3> QED BY <2>1, <2>2, <2>4, <3>1 DEF Covered, WillReread
  <2> QED BY <2>3, <2>4
<1>8. CASE NoDrain \/ Drain \/ CallbackFails
  <2>1. /\ pc \in {"inspect", "drain", "scan"} /\ pc' # "inspect" /\ walk # "none"
        /\ UNCHANGED <<present, content, meta, walk, todo, at, snapshot, current, inspected, mark>>
    BY <1>8 DEF NoDrain, Drain, CallbackFails, disk, place, cache, history, memory,
       WatcherInv, Place
  <2>2. Covered(g) /\ Late(g)
    BY <2>1 DEF CoverInv, Watching, Late
  <2>3. pc = "inspect" => at \notin todo /\ current[at] = NoEntry
    BY DEF FailuresInv, WatcherInv, Place
  <2> QED BY <1>1, <2>1, <2>2, <2>3 DEF Covered, WillReread, NoEntry
<1>9. CASE EndWalk
  <2>1. /\ pc = "visit" /\ todo = {} /\ walk' = "none" /\ walk # "none" /\ snapshot' = current
        /\ mark' = IF walk = "inventory" THEN changes ELSE mark
        /\ UNCHANGED <<present, content, meta, inspected>>
    BY <1>9 DEF EndWalk, disk, memory, WatcherInv, Place
  <2>2. walk # "inventory"
    BY <1>1, <2>1 DEF Late, ClockInv
  <2> QED BY <2>1, <2>2 DEF CoverInv, Watching, Late, Covered, WillReread
<1>10. CASE CheckPipeline \/ CheckDuration \/ CheckFails \/ Stop
  BY <1>10 DEF CheckPipeline, CheckDuration, CheckFails, Stop, Watching
<1>11. CASE TakeDue \/ Sleep
  BY <1>11 DEF TakeDue, Sleep, disk, place, cache, history, memory, WatcherInv, Place,
     CoverInv, Watching, Late, Covered, WillReread
<1>12. CASE StartWalk("reconcile") \/ StartWalk("full")
  BY <1>12 DEF StartWalk, disk, history, memory, WatcherInv, Place, CoverInv, Watching, Late,
     Covered, WillReread
<1>13. CASE UNCHANGED vars
  BY <1>13 DEF vars, disk, place, cache, history, memory, CoverInv, Watching, Late, Covered,
     WillReread
<1> QED BY <1>2, <1>3, <1>4, <1>5, <1>6, <1>7, <1>8, <1>9, <1>10, <1>11, <1>12, <1>13
      DEF Next, Environment, Loop, Scan, Visit

(* No change made after the inventory is forgotten, whatever becomes of    *)
(* its event, as long as every write changes the fingerprint.              *)
THEOREM ChangesAreCovered == ASSUME TRUE \notin Restored PROVE Spec => []LateChangesCovered
<1>1. Init => FailuresInv /\ ClockInv
  BY WatcherAssumption DEF Init, FailuresInv, ClockInv, Empty, NoEntry
<1>2. Init => CoverInv
  BY DEF Init, CoverInv, Watching
<1>3. WatcherInv /\ ClockInv /\ FailuresInv /\ CoverInv /\ [Next]_vars => CoverInv'
  BY CoverStep
<1>4. CoverInv => LateChangesCovered
  BY DEF CoverInv, LateChangesCovered, Watching, Late
<1> QED BY <1>1, <1>2, <1>3, <1>4, StartsWell, WatcherStep, FailuresStep, ClockStep, PTL DEF
   Spec
=============================================================================
