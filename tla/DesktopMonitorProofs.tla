------------------------- MODULE DesktopMonitorProofs -------------------------
(***************************************************************************)
(* Proofs about DesktopMonitor, for any number of sessions, any depth of   *)
(* their channels, and any number of acts and faults: the application      *)
(* keeps hold of the engines it starts, and what it shows of their         *)
(* coverage follows from what they have told it.                           *)
(***************************************************************************)
EXTENDS DesktopMonitor, SequenceTheorems, TLAPS

USE MonitorAssumption DEF MonitorAssumption

(* The types, but for the bound on a channel, which depends on its thread. *)
Types ==
    /\ {store, prefer, closing, gone, retry, tracked, inventory, coverage, card, dialog} \subseteq BOOLEAN
    /\ mode \in {"none", "automatic", "temporary"}
    /\ {session, stopping, bound} \subseteq Sessions \cup {NoSession} /\ orphans \subseteq Sessions
    /\ dogs \in Nat /\ beat \in {"none", "fresh", "late"}
    /\ acts \in 0..MaxActs /\ faults \in 0..MaxFaults
    /\ thread \in [Sessions -> {"none", "starting", "spawned", "reading", "over"}]
    /\ child \in [Sessions -> {"none", "alive", "terminated", "dead"}]
    /\ told \in [Sessions -> BOOLEAN]
    /\ channel \in [Sessions -> Seq(Records)]
    /\ engine \in [Sessions -> [inventory : BOOLEAN, incomplete : BOOLEAN]]

(* A thread that has not ended is that of the session the application      *)
(* holds or of one it has lost, and how far it is tells of its child.      *)
ThreadsAreKnown ==
    /\ session # NoSession => thread[session] # "none"
    /\ \A s \in Sessions :
          /\ thread[s] # "none" => s = session \/ s \in orphans
          /\ thread[s] \in {"none", "starting"} => child[s] = "none"
          /\ thread[s] = "over" => child[s] \in {"none", "dead"}

(* A channel is empty until the child is read, and "complete" ends it.     *)
ChannelsEnd ==
    \A s \in Sessions :
        /\ thread[s] \in {"none", "starting", "spawned"} => channel[s] = <<>>
        /\ Len(channel[s]) <= IF thread[s] = "over" THEN Depth + 1 ELSE Depth
        /\ \A i \in 1..Len(channel[s]) :
              channel[s][i] = "complete" => i = Len(channel[s]) /\ thread[s] = "over"

(* What the card and the watchdog rest on.                                 *)
TimersAreKept ==
    /\ card => store
    /\ tracked => dogs > 0
    /\ ActiveIsWatched

Complete == {"inventory", "beat_whole"}     \* records of a whole inventory
Good == {"beat", "beat_whole"}              \* records of coverage
Bad == {"issue", "inventory_incomplete", "beat_incomplete"}

(* The application has the evidence of session s.                          *)
Knows(s) == bound = s /\ inventory
Trusts(s) == bound = s /\ coverage

(* A whole inventory that is known, or on its way, the engine has.         *)
InventoryIsThere(s) ==
    Knows(s) \/ (\E i \in 1..Len(channel[s]) : channel[s][i] \in Complete)
        => engine[s].inventory

(* One that is not whole is never told after a whole one.                  *)
InventoryInOrder(s) ==
    \A i \in 1..Len(channel[s]) :
        channel[s][i] = "inventory_incomplete" =>
            ~Knows(s) /\ \A j \in 1..(i - 1) : channel[s][j] \notin Complete

(* Of a coverage that is not whole the application knows, or the record is *)
(* on its way, and nothing better behind it.                               *)
ProblemIsTold(s) ==
    engine[s].incomplete =>
        \/ ~Trusts(s) /\ \A j \in 1..Len(channel[s]) : channel[s][j] \notin Good
        \/ \E i \in 1..Len(channel[s]) :
              /\ channel[s][i] \in Bad
              /\ \A j \in (i + 1)..Len(channel[s]) : channel[s][j] \notin Good

EvidenceFollows ==
    /\ bound = NoSession => ~inventory
    /\ coverage => inventory
    /\ \A s \in Sessions : thread[s] # "none" =>
          InventoryIsThere(s) /\ InventoryInOrder(s) /\ ProblemIsTold(s)

MonitorInv ==
    /\ Types
    /\ ThreadsAreKnown
    /\ StopReachesChild
    /\ ChannelsEnd
    /\ TimersAreKept
    /\ EvidenceFollows

-----------------------------------------------------------------------------
LEMMA MonitorInit == Init => MonitorInv
  <1> SUFFICES ASSUME Init PROVE MonitorInv
    OBVIOUS
  <1>1. Types
    <2>1. prefer \in BOOLEAN
      BY DEF Init, Loaded
    <2>2. channel \in [Sessions -> Seq(Records)]
      BY DEF Init
    <2>3. engine \in [Sessions -> [inventory : BOOLEAN, incomplete : BOOLEAN]]
      BY DEF Init, Fresh
    <2>4. {store, prefer, closing, gone, retry, tracked, inventory, coverage, card, dialog} \subseteq BOOLEAN
      BY <2>1 DEF Init
    <2> QED BY <2>2, <2>3, <2>4 DEF Init, Types
  <1>2. ThreadsAreKnown /\ StopReachesChild /\ ChannelsEnd
    BY DEF Init, ThreadsAreKnown, StopReachesChild, ChannelsEnd
  <1>3. TimersAreKept /\ EvidenceFollows
    BY DEF Init, TimersAreKept, ActiveIsWatched, EvidenceFollows
  <1> QED BY <1>1, <1>2, <1>3 DEF MonitorInv

-----------------------------------------------------------------------------
(* What the handlers of the Tk thread that may start or stop a session     *)
(* come to: one has begun, none has begun, or one is being stopped.        *)
Begun(s) ==
    /\ thread[s] = "none" /\ thread' = [thread EXCEPT ![s] = "starting"]
    /\ session' = s
    /\ orphans' = orphans \cup ({session} \ {NoSession})
    /\ ResetEvidence
    /\ tracked' = TRUE /\ (dogs' = dogs + 1 \/ (tracked /\ dogs' = dogs))
    /\ card' = FALSE \/ card' = card
    /\ UNCHANGED <<store, closing, stopping, child, told, engine, channel>>

NoneBegun ==
    /\ UNCHANGED evidence \/ ResetEvidence
    /\ \/ UNCHANGED <<dogs, tracked>>
       \/ tracked' = TRUE /\ dogs' = IF tracked THEN dogs ELSE dogs + 1
    /\ card' = FALSE \/ card' = card
    /\ UNCHANGED <<store, closing, stopping, session, orphans, worker, told>>

Stopped ==
    /\ Stop(session) \/ Stop(NoSession)
    /\ stopping = NoSession /\ ~closing
    /\ UNCHANGED <<store, closing, session, orphans, dogs, tracked, evidence, card, worker>>

Starts ==
    \/ RetryFires \/ ClickStart \/ ClickStartQuarantine \/ AnswerNo \/ AnswerYes
    \/ ClickToggle \/ ClickStop

LEMMA StartStoreEffect ==
  ASSUME NEW pending, StartStore(pending), UNCHANGED <<store, closing, stopping>>
  PROVE  (\E s \in Sessions : Begun(s)) \/ NoneBegun
  <1>1. CASE MayStart /\ Free # {} /\ Begins(CHOOSE s \in Free : TRUE, "automatic")
             /\ ResetEvidence /\ dogs' = dogs + 1 /\ tracked' = TRUE /\ card' = FALSE
    <2> DEFINE t == CHOOSE s \in Free : TRUE
    <2>1. t \in Free
      BY <1>1
    <2> QED BY <1>1, <2>1 DEF Begins, Begun, Free
  <1> QED BY <1>1 DEF StartStore, CannotBegin, NoneBegun, hold, evidence, worker

LEMMA StartTemporaryEffect ==
  ASSUME StartTemporary
  PROVE  (\E s \in Sessions : Begun(s)) \/ NoneBegun
  <1>1. CASE Free # {} /\ Begins(CHOOSE s \in Free : TRUE, "temporary")
    <2> DEFINE t == CHOOSE s \in Free : TRUE
    <2>1. t \in Free
      BY <1>1
    <2> QED BY <1>1, <2>1 DEF StartTemporary, Begins, Begun, Free, choice, exit
  <1> QED BY <1>1 DEF StartTemporary, CannotBegin, NoneBegun, worker, choice, exit

LEMMA StartsEffect ==
  ASSUME Starts
  PROVE  (\E s \in Sessions : Begun(s)) \/ NoneBegun \/ Stopped
  <1>1. CASE RetryFires
    BY <1>1, StartStoreEffect DEF RetryFires, choice, exit
  <1>2. CASE ClickStart \/ AnswerYes
    BY <1>2, StartTemporaryEffect DEF ClickStart, AnswerYes
  <1>3. CASE ClickStartQuarantine \/ AnswerNo
    BY <1>3 DEF ClickStartQuarantine, AnswerNo, NoneBegun, hold, timers, choice, exit
  <1>4. ASSUME User, NEW enabled \in BOOLEAN, Change(enabled) \/ SaveFails
        PROVE  (\E s \in Sessions : Begun(s)) \/ NoneBegun \/ Stopped
    <2>1. CASE Change(enabled) /\ enabled
      BY <2>1, StartStoreEffect DEF Change, exit
    <2>2. CASE Change(enabled) /\ ~enabled
      BY <1>4, <2>2 DEF Change, User, OnTk, Stopped, hold, exit
    <2>3. CASE SaveFails
      BY <2>3 DEF SaveFails, NoneBegun, hold, timers, choice, exit
    <2> QED BY <1>4, <2>1, <2>2, <2>3
  <1>5. CASE ClickToggle
    BY <1>4, <1>5 DEF ClickToggle
  <1>6. CASE ClickStop
    <2>1. CASE store /\ mode = "automatic"
      BY <1>4, <1>6, <2>1 DEF ClickStop
    <2>2. CASE ~(store /\ mode = "automatic")
      BY <1>6, <2>2 DEF ClickStop, User, OnTk, Stopped, hold, timers, choice, exit
    <2> QED BY <2>1, <2>2
  <1> QED BY <1>1, <1>2, <1>3, <1>5, <1>6 DEF Starts

LEMMA StartsOpen ==
  ASSUME Starts
  PROVE  ~closing
  BY DEF Starts, RetryFires, ClickStart, ClickStartQuarantine, AnswerNo, AnswerYes, ClickToggle,
     ClickStop, User, OnTk

(* The steps by what they may change: the engine speaks, its process ends, *)
(* the thread of a session goes on, or the Tk thread handles something.    *)
Speaks(s) ==
    (\E whole \in BOOLEAN : Inventory(s, whole)) \/ Issue(s) \/ Beats(s) \/ Recovers(s) \/ Repeats(s)
Falls(s) == ChildEnds(s) \/ Dies(s) \/ PipeBreaks(s)
Looks == Watchdog \/ Refreshed \/ Lapse \/ ProcessEnds

LEMMA Steps ==
  ASSUME [Next]_vars
  PROVE  \/ Starts \/ Looks \/ StopTerminates \/ Exit \/ UNCHANGED vars
         \/ \E s \in Sessions : Speaks(s) \/ Falls(s) \/ Thread(s) \/ Event(s) \/ Completed(s)
  BY DEF Next, Tk, Engine, Starts, Looks, Speaks, Falls

LEMMA SpeaksEffect ==
  ASSUME NEW s \in Sessions, Speaks(s)
  PROVE  /\ child[s] = "alive" /\ thread[s] = "reading" /\ ~closing
         /\ Len(channel[s]) < Depth
         /\ UNCHANGED <<store, closing, stopping, session, orphans, dogs, tracked, evidence, card,
                        thread, child, told>>
         /\ \E e \in Records \ {"complete"} : channel' = [channel EXCEPT ![s] = Append(@, e)]
  BY DEF Speaks, Inventory, Issue, Beats, Recovers, Repeats, Emits, Posts, Records,
         choice, exit, hold, timers

LEMMA FallsEffect ==
  ASSUME NEW s \in Sessions, Falls(s)
  PROVE  /\ child[s] \in {"alive", "terminated"}
         /\ child' = [child EXCEPT ![s] = "dead"]
         /\ UNCHANGED <<store, closing, stopping, session, orphans, dogs, tracked, evidence, card,
                        thread, channel, engine, told>>
  BY DEF Falls, ChildEnds, Dies, PipeBreaks, choice, exit, hold, timers

LEMMA ThreadEffect ==
  ASSUME NEW s \in Sessions, Thread(s)
  PROVE  UNCHANGED <<store, closing, stopping, session, orphans, dogs, tracked, evidence, card,
                     engine, told>>
  BY DEF Thread, Spawns, SpawnFails, ChecksStop, ReaderEnds, ReaderRefuses, OnThread,
         choice, exit, hold, timers

LEMMA LooksEffect ==
  ASSUME Looks
  PROVE  UNCHANGED <<store, closing, session, orphans, worker, bound, inventory>>
  BY DEF Looks, Watchdog, Refreshed, Lapse, ProcessEnds, choice, exit, hold, evidence, worker

LEMMA ThreadsStep == MonitorInv /\ [Next]_vars => ThreadsAreKnown'
  <1> SUFFICES ASSUME MonitorInv, [Next]_vars PROVE ThreadsAreKnown'
    OBVIOUS
  <1> USE DEF MonitorInv, Types, ThreadsAreKnown
  <1>1. CASE UNCHANGED <<session, orphans, thread, child>>
    BY <1>1
  <1>2. ASSUME NEW s \in Sessions, Begun(s) PROVE ThreadsAreKnown'
    BY <1>2 DEF Begun
  <1>3. ASSUME NEW s \in Sessions, Falls(s) PROVE ThreadsAreKnown'
    BY <1>3, FallsEffect
  <1>4. ASSUME NEW s \in Sessions, Thread(s) PROVE ThreadsAreKnown'
    <2>1. UNCHANGED <<session, orphans>>
      BY <1>4, ThreadEffect
    <2>2. /\ thread[s] # "none"
          /\ \E to \in {"spawned", "reading", "over"} : thread' = [thread EXCEPT ![s] = to]
          /\ \E c \in {"none", "alive", "terminated", "dead"} : child' = [child EXCEPT ![s] = c]
          /\ thread'[s] = "over" => child'[s] \in {"none", "dead"}
      <3>1. CASE Spawns(s) \/ SpawnFails(s)
        BY <1>4, <3>1 DEF Spawns, SpawnFails, OnThread
      <3>2. CASE ChecksStop(s)
        <4> DEFINE c == IF told[s] /\ child[s] = "alive" THEN "terminated" ELSE child[s]
        <4>1. thread[s] = "spawned" /\ thread' = [thread EXCEPT ![s] = "reading"]
          BY <3>2 DEF ChecksStop, OnThread
        <4>2. child' = [child EXCEPT ![s] = c]
          BY <3>2 DEF ChecksStop, Terminated
        <4>3. c \in {"none", "alive", "terminated", "dead"}
          OBVIOUS
        <4> QED BY <4>1, <4>2, <4>3
      <3>3. CASE ReaderEnds(s) \/ ReaderRefuses(s)
        BY <1>4, <3>3 DEF ReaderEnds, ReaderRefuses, OnThread
      <3> QED BY <1>4, <3>1, <3>2, <3>3 DEF Thread
    <2> QED BY <2>1, <2>2
  <1>5. CASE StopTerminates
    BY <1>5 DEF StopTerminates, Terminated, hold
  <1>6. ASSUME NEW s \in Sessions, Completed(s) PROVE ThreadsAreKnown'
    <2>1. thread[s] = "over"
      BY <1>6 DEF Completed, ChannelsEnd
    <2>2. child[s] \in {"none", "dead"} /\ child' = [child EXCEPT ![s] = "none"]
      BY <1>6, <2>1 DEF Completed
    <2>3. /\ session' = NoSession /\ thread' = [thread EXCEPT ![s] = "none"]
          /\ orphans' = (orphans \cup ({session} \ {NoSession})) \ {s}
      BY <1>6 DEF Completed
    <2> QED BY <2>2, <2>3
  <1>7. CASE Starts
    BY <1>1, <1>2, <1>7, StartsEffect DEF NoneBegun, Stopped, worker
  <1>8. CASE Looks \/ Exit \/ UNCHANGED vars
    BY <1>1, <1>8, LooksEffect DEF Exit, hold, worker, vars
  <1>9. ASSUME NEW s \in Sessions, Speaks(s) \/ Event(s) PROVE ThreadsAreKnown'
    BY <1>1, <1>9, SpeaksEffect DEF Event, hold
  <1> QED BY <1>3, <1>4, <1>5, <1>6, <1>7, <1>8, <1>9, Steps

LEMMA StopStep == MonitorInv /\ [Next]_vars => StopReachesChild'
  <1> SUFFICES ASSUME MonitorInv, [Next]_vars PROVE StopReachesChild'
    OBVIOUS
  <1> USE DEF MonitorInv, Types, StopReachesChild
  <1>1. CASE UNCHANGED <<closing, stopping, session, thread, child, told>>
    BY <1>1
  <1>2. ASSUME NEW s \in Sessions, Begun(s), ~closing PROVE StopReachesChild'
    BY <1>2 DEF Begun
  <1>3. CASE Stopped
    BY <1>3 DEF Stopped, Stop, worker
  <1>4. CASE Starts
    BY <1>1, <1>2, <1>3, <1>4, StartsEffect, StartsOpen DEF NoneBegun, worker
  <1>5. ASSUME NEW s \in Sessions, Falls(s) PROVE StopReachesChild'
    BY <1>5, FallsEffect
  <1>6. ASSUME NEW s \in Sessions, Thread(s) PROVE StopReachesChild'
    <2>1. UNCHANGED <<closing, stopping, session, told>>
      BY <1>6, ThreadEffect
    <2>2. \A t \in Sessions \ {s} : thread'[t] = thread[t] /\ child'[t] = child[t]
      BY <1>6 DEF Thread, Spawns, SpawnFails, ChecksStop, ReaderEnds, ReaderRefuses, OnThread,
         Terminated
    <2>3. told[s] /\ thread'[s] = "reading" => child'[s] # "alive"
      BY <1>6 DEF Thread, Spawns, SpawnFails, ChecksStop, ReaderEnds, ReaderRefuses, OnThread,
         Terminated
    <2> QED BY <2>1, <2>2, <2>3
  <1>7. CASE StopTerminates
    BY <1>7 DEF StopTerminates, Terminated, Visible, exit, hold
  <1>8. ASSUME NEW s \in Sessions, Completed(s) PROVE StopReachesChild'
    <2>1. ~closing' /\ stopping' = NoSession /\ stopping = NoSession
      BY <1>8 DEF Completed, OnTk, exit
    <2>2. \A t \in Sessions \ {s} :
              thread'[t] = thread[t] /\ child'[t] = child[t] /\ told'[t] = told[t]
      BY <1>8 DEF Completed
    <2>3. ~told'[s]
      BY <1>8 DEF Completed
    <2> QED BY <2>1, <2>2, <2>3
  <1>9. ASSUME NEW s \in Sessions, Event(s) PROVE StopReachesChild'
    <2>1. UNCHANGED <<closing, session, thread, child>> /\ ~closing /\ stopping = NoSession
      BY <1>9 DEF Event, OnTk, exit, hold
    <2>2. Stop(session) \/ UNCHANGED <<stopping, told>>
      BY <1>9 DEF Event, Rejects, Accepts
    <2> QED BY <2>1, <2>2 DEF Stop
  <1>10. CASE Looks
    <2>1. UNCHANGED <<closing, session, thread, child>>
      BY <1>10, LooksEffect DEF worker
    <2>2. (stopping = NoSession /\ ~closing /\ Stop(session)) \/ UNCHANGED <<stopping, told>>
      BY <1>10 DEF Looks, Watchdog, OnTk, Refreshed, Lapse, ProcessEnds
    <2> QED BY <2>1, <2>2 DEF Stop
  <1>11. CASE Exit
    BY <1>11 DEF Exit, OnTk, Stop, hold
  <1>12. ASSUME NEW s \in Sessions, Speaks(s) PROVE StopReachesChild'
    BY <1>1, <1>12, SpeaksEffect
  <1> QED BY <1>1, <1>4, <1>5, <1>6, <1>7, <1>8, <1>9, <1>10, <1>11, <1>12, Steps
       DEF vars, exit, hold, worker

(* Records are appended behind those that are there; the first is taken.   *)
LEMMA Appended ==
  ASSUME NEW q \in Seq(Records), NEW e \in Records
  PROVE  /\ Append(q, e) \in Seq(Records) /\ Len(Append(q, e)) = Len(q) + 1
         /\ \A i \in 1..Len(q) : Append(q, e)[i] = q[i]
         /\ Append(q, e)[Len(q) + 1] = e
  OBVIOUS

LEMMA Taken ==
  ASSUME NEW q \in Seq(Records), q # <<>>
  PROVE  /\ Tail(q) \in Seq(Records) /\ Len(Tail(q)) = Len(q) - 1 /\ Len(q) \in Nat \ {0}
         /\ \A i \in 1..Len(Tail(q)) : Tail(q)[i] = q[i + 1]
         /\ Head(q) = q[1] /\ q[1] \in Records
  OBVIOUS

LEMMA ChannelStep == MonitorInv /\ [Next]_vars => ChannelsEnd' /\ channel' \in [Sessions -> Seq(Records)]
  <1> SUFFICES ASSUME MonitorInv, [Next]_vars
               PROVE  ChannelsEnd' /\ channel' \in [Sessions -> Seq(Records)]
    OBVIOUS
  <1> USE DEF MonitorInv, Types, ChannelsEnd
  <1>1. CASE UNCHANGED <<thread, channel>>
    BY <1>1
  <1>2. ASSUME NEW s \in Sessions, Begun(s) PROVE ChannelsEnd' /\ channel' = channel
    BY <1>2 DEF Begun
  <1>3. ASSUME NEW s \in Sessions, Speaks(s)
        PROVE  ChannelsEnd' /\ channel' \in [Sessions -> Seq(Records)]
    <2>1. PICK e \in Records \ {"complete"} : channel' = [channel EXCEPT ![s] = Append(@, e)]
      BY <1>3, SpeaksEffect
    <2>2. thread[s] = "reading" /\ UNCHANGED thread /\ Len(channel[s]) < Depth
      BY <1>3, SpeaksEffect
    <2>3. channel'[s] = Append(channel[s], e) /\ \A t \in Sessions \ {s} : channel'[t] = channel[t]
      BY <2>1
    <2>4. channel' \in [Sessions -> Seq(Records)]
      BY <2>1, Appended
    <2>5. \A t \in Sessions \ {s} : /\ channel'[t] = channel[t] /\ thread'[t] = thread[t]
      BY <2>2, <2>3
    <2>6. Len(channel'[s]) <= Depth /\ thread'[s] = "reading"
      BY <2>2, <2>3, Appended
    <2>7. \A i \in 1..Len(channel'[s]) : channel'[s][i] # "complete"
      <3>1. \A i \in 1..Len(channel[s]) : channel[s][i] # "complete"
        BY <2>2
      <3> QED BY <2>3, <3>1, Appended
    <2> QED BY <2>4, <2>5, <2>6, <2>7
  <1>4. ASSUME NEW s \in Sessions, Thread(s)
        PROVE  ChannelsEnd' /\ channel' \in [Sessions -> Seq(Records)]
    <2>1. CASE UNCHANGED channel /\ thread' \in {[thread EXCEPT ![s] = "spawned"],
                                                  [thread EXCEPT ![s] = "reading"]}
               /\ thread[s] \in {"starting", "spawned"}
      BY <2>1
    <2>2. CASE /\ Posts(s, "complete") /\ thread' = [thread EXCEPT ![s] = "over"]
               /\ thread[s] \in {"starting", "reading"}
      <3>1. CASE closing
        <4>1. channel' = channel
          BY <2>2, <3>1 DEF Posts
        <4> QED BY <2>2, <4>1
      <3>2. CASE ~closing
        <4>1. channel' = [channel EXCEPT ![s] = Append(@, "complete")]
          BY <2>2, <3>2 DEF Posts
        <4>2. channel' \in [Sessions -> Seq(Records)]
          BY <4>1, Appended DEF Records
        <4>3. channel'[s] = Append(channel[s], "complete") /\ Len(channel[s]) <= Depth
          BY <2>2, <4>1
        <4>4. \A t \in Sessions \ {s} : channel'[t] = channel[t] /\ thread'[t] = thread[t]
          BY <2>2, <4>1
        <4>5. /\ Len(channel'[s]) = Len(channel[s]) + 1 /\ Len(channel[s]) \in Nat
              /\ thread'[s] = "over"
          BY <2>2, <4>3, Appended DEF Records
        <4>6. \A i \in 1..Len(channel'[s]) : channel'[s][i] = "complete" => i = Len(channel'[s])
          <5>1. \A i \in 1..Len(channel[s]) : channel[s][i] # "complete"
            BY <2>2
          <5>2. \A i \in 1..Len(channel[s]) : channel'[s][i] = channel[s][i]
            BY <4>3, Appended DEF Records
          <5> SUFFICES ASSUME NEW i \in 1..Len(channel'[s]), i # Len(channel'[s])
                       PROVE  channel'[s][i] # "complete"
            OBVIOUS
          <5>3. i \in 1..Len(channel[s])
            BY <4>5
          <5> QED BY <5>1, <5>2, <5>3
        <4>7. Len(channel'[s]) <= Depth + 1
          BY <4>3, <4>5
        <4> QED BY <4>2, <4>4, <4>5, <4>6, <4>7
      <3> QED BY <3>1, <3>2
    <2> QED BY <1>4, <2>1, <2>2 DEF Thread, Spawns, SpawnFails, ChecksStop, ReaderEnds,
               ReaderRefuses, OnThread
  <1>5. ASSUME NEW s \in Sessions, Event(s) \/ Completed(s)
        PROVE  ChannelsEnd' /\ channel' \in [Sessions -> Seq(Records)]
    <2>1. channel[s] # <<>> /\ channel' = [channel EXCEPT ![s] = Tail(@)]
      BY <1>5 DEF Event, Completed
    <2>2. channel' \in [Sessions -> Seq(Records)]
      BY <2>1, Taken
    <2>3. channel'[s] = Tail(channel[s]) /\ \A t \in Sessions \ {s} : channel'[t] = channel[t]
      BY <2>1
    <2>4. CASE UNCHANGED thread
      BY <2>1, <2>2, <2>3, <2>4, Taken
    <2>5. CASE Completed(s)
      <3>1. channel[s][1] = "complete" /\ 1 \in 1..Len(channel[s])
        BY <2>1, <2>5, Taken DEF Completed
      <3>2. Len(channel[s]) = 1 /\ thread' = [thread EXCEPT ![s] = "none"]
        BY <2>5, <3>1 DEF Completed
      <3>3. channel'[s] \in Seq(Records) /\ Len(channel'[s]) = 0
        BY <2>1, <2>2, <2>3, <3>2, Taken
      <3>4. channel'[s] = <<>>
        BY <3>3, EmptySeq
      <3> QED BY <2>2, <2>3, <3>2, <3>4
    <2> QED BY <1>5, <2>4, <2>5 DEF Event
  <1>6. CASE Starts
    BY <1>1, <1>2, <1>6, StartsEffect DEF NoneBegun, Stopped, worker
  <1>7. CASE Looks \/ StopTerminates \/ UNCHANGED vars
    BY <1>1, <1>7, LooksEffect DEF StopTerminates, worker, vars
  <1>8. CASE Exit
    BY <1>8 DEF Exit
  <1>9. ASSUME NEW s \in Sessions, Falls(s) PROVE ChannelsEnd' /\ channel' \in [Sessions -> Seq(Records)]
    BY <1>1, <1>9, FallsEffect
  <1> QED BY <1>3, <1>4, <1>5, <1>6, <1>7, <1>8, <1>9, Steps

LEMMA TimersStep == MonitorInv /\ [Next]_vars => TimersAreKept'
  <1> SUFFICES ASSUME MonitorInv, [Next]_vars PROVE TimersAreKept'
    OBVIOUS
  <1> USE DEF MonitorInv, Types, TimersAreKept, ActiveIsWatched
  <1>1. CASE UNCHANGED <<store, closing, session, dogs, tracked, card>>
    BY <1>1
  <1>2. ASSUME NEW s \in Sessions, Begun(s) PROVE TimersAreKept'
    BY <1>2 DEF Begun
  <1>3. CASE NoneBegun
    BY <1>3 DEF NoneBegun
  <1>4. CASE Starts
    BY <1>1, <1>2, <1>3, <1>4, StartsEffect DEF Stopped
  <1>5. ASSUME NEW s \in Sessions, Completed(s) PROVE TimersAreKept'
    BY <1>5 DEF Completed, CancelTracked, choice, exit
  <1>6. CASE UNCHANGED <<store, closing, session, dogs, tracked>> /\ Render
    BY <1>6 DEF Render
  <1>7. ASSUME NEW s \in Sessions, Event(s) PROVE TimersAreKept'
    <2>1. UNCHANGED <<store, closing, session, dogs, tracked>>
      BY <1>7 DEF Event, choice, exit, hold, timers
    <2>2. UNCHANGED card \/ Render
      BY <1>7 DEF Event, Rejects, Accepts
    <2> QED BY <1>1, <1>6, <2>1, <2>2
  <1>8. CASE Looks
    <2>1. CASE Watchdog
      BY <2>1 DEF Watchdog, LooksAgain, choice, exit, hold
    <2>2. CASE Refreshed
      BY <1>6, <2>2 DEF Refreshed, choice, exit, hold, timers
    <2>3. CASE Lapse \/ ProcessEnds
      BY <1>1, <2>3 DEF Lapse, ProcessEnds, choice, exit, hold, timers
    <2> QED BY <1>8, <2>1, <2>2, <2>3 DEF Looks
  <1>9. CASE Exit
    BY <1>9 DEF Exit, choice
  <1>10. CASE StopTerminates \/ UNCHANGED vars
    BY <1>1, <1>10 DEF StopTerminates, vars, choice, exit, hold, timers
  <1>11. ASSUME NEW s \in Sessions, Speaks(s) \/ Falls(s) \/ Thread(s) PROVE TimersAreKept'
    BY <1>1, <1>11, SpeaksEffect, FallsEffect, ThreadEffect
  <1> QED BY <1>4, <1>5, <1>7, <1>8, <1>9, <1>10, <1>11, Steps

-----------------------------------------------------------------------------
(* What the engine of s has told, in order: see EvidenceFollows.           *)
Follows(s) == InventoryIsThere(s) /\ InventoryInOrder(s) /\ ProblemIsTold(s)

(* The application knows no more of s than before, and s says no more.     *)
LEMMA LessIsKnown ==
  ASSUME NEW s, Follows(s), Knows(s)' => Knows(s), Trusts(s)' => Trusts(s),
         channel'[s] = channel[s], engine'[s] = engine[s]
  PROVE  Follows(s)'
  BY DEF Follows, InventoryIsThere, InventoryInOrder, ProblemIsTold

LEMMA NothingIsSaid ==
  ASSUME NEW s, ~Knows(s)', ~Trusts(s)', channel'[s] = <<>>
  PROVE  Follows(s)'
  BY DEF Follows, InventoryIsThere, InventoryInOrder, ProblemIsTold

(* A record, with what it makes of the engine's own knowledge.             *)
Says(old, e, new) ==
    \/ e = "inventory" /\ ~old.inventory /\ new.inventory /\ (new.incomplete => old.incomplete)
    \/ e = "inventory_incomplete" /\ ~old.inventory
    \/ e = "issue" /\ (old.inventory => new.inventory)
    \/ e = "beat" /\ ~old.incomplete /\ new = old
    \/ e = "beat_incomplete" /\ new = old
    \/ e = "beat_whole" /\ new.inventory /\ ~new.incomplete
    \/ e \in {"repeated", "complete"} /\ new = old

LEMMA SpeaksRecord ==
  ASSUME MonitorInv, NEW s \in Sessions, Speaks(s)
  PROVE  \E e \in Records \ {"complete"}, new \in [inventory : BOOLEAN, incomplete : BOOLEAN] :
            /\ Says(engine[s], e, new)
            /\ channel' = [channel EXCEPT ![s] = Append(@, e)]
            /\ engine' = [engine EXCEPT ![s] = new]
  <1> USE DEF MonitorInv, Types, Emits, Posts, Records
  <1>1. ASSUME NEW whole \in BOOLEAN, Inventory(s, whole)
        PROVE  \E e \in Records \ {"complete"}, new \in [inventory : BOOLEAN, incomplete : BOOLEAN] :
                  /\ Says(engine[s], e, new)
                  /\ channel' = [channel EXCEPT ![s] = Append(@, e)]
                  /\ engine' = [engine EXCEPT ![s] = new]
    <2> DEFINE e == IF whole THEN "inventory" ELSE "inventory_incomplete"
               new == [engine[s] EXCEPT !.inventory = whole, !.incomplete = @ \/ ~whole]
    <2>1. new \in [inventory : BOOLEAN, incomplete : BOOLEAN] /\ Says(engine[s], e, new)
      <3>1. engine[s] \in [inventory : BOOLEAN, incomplete : BOOLEAN] /\ ~engine[s].inventory
        BY <1>1 DEF Inventory
      <3>2. /\ new \in [inventory : BOOLEAN, incomplete : BOOLEAN]
            /\ new.inventory = whole
            /\ whole => new.incomplete = engine[s].incomplete
        BY <3>1
      <3>3. (whole => e = "inventory") /\ (~whole => e = "inventory_incomplete")
        OBVIOUS
      <3> HIDE DEF e, new
      <3>4. Says(engine[s], e, new)
        BY <1>1, <3>1, <3>2, <3>3 DEF Says
      <3>5. QED  BY <3>2, <3>4
    <2>2. e \in Records \ {"complete"}
      OBVIOUS
    <2>3. /\ channel' = [channel EXCEPT ![s] = Append(@, e)]
          /\ engine' = [engine EXCEPT ![s] = new]
      BY <1>1, Zenon DEF Inventory
    <2> HIDE DEF e, new
    <2> QED BY <2>1, <2>2, <2>3, Zenon
  <1>2. CASE Issue(s)
    <2> DEFINE new == [engine[s] EXCEPT !.incomplete = TRUE]
    <2>1. new \in [inventory : BOOLEAN, incomplete : BOOLEAN] /\ Says(engine[s], "issue", new)
      BY DEF Says
    <2> QED BY <1>2, <2>1 DEF Issue
  <1>3. CASE Beats(s) \/ Repeats(s)
    BY <1>3 DEF Beats, Repeats, Says
  <1>4. CASE Recovers(s)
    <2> DEFINE new == [inventory |-> TRUE, incomplete |-> FALSE]
    <2>1. new \in [inventory : BOOLEAN, incomplete : BOOLEAN] /\ Says(engine[s], "beat_whole", new)
      BY DEF Says
    <2> QED BY <1>4, <2>1 DEF Recovers
  <1> QED BY <1>1, <1>2, <1>3, <1>4 DEF Speaks

LEMMA SaidFollows ==
  ASSUME MonitorInv, NEW s \in Sessions, Follows(s),
         NEW e \in Records, NEW new \in [inventory : BOOLEAN, incomplete : BOOLEAN],
         Says(engine[s], e, new),
         channel'[s] = Append(channel[s], e), engine'[s] = new,
         UNCHANGED <<bound, inventory, coverage>>
  PROVE  Follows(s)'
  <1> DEFINE n == Len(channel[s])
  <1>1. /\ n \in Nat /\ Len(channel'[s]) = n + 1 /\ channel'[s][n + 1] = e
        /\ \A i \in 1..n : channel'[s][i] = channel[s][i]
    BY Appended DEF MonitorInv, Types
  <1>2. engine[s].inventory \in BOOLEAN /\ engine[s].incomplete \in BOOLEAN
    BY DEF MonitorInv, Types
  <1>3. UNCHANGED <<Knows(s), Trusts(s)>>
    BY DEF Knows, Trusts
  <1> HIDE DEF n
  <1>4. InventoryIsThere(s)'
    <2> SUFFICES ASSUME Knows(s) \/ \E i \in 1..(n + 1) : channel'[s][i] \in Complete
                 PROVE  new.inventory
      BY <1>1, <1>3 DEF InventoryIsThere
    <2>1. CASE e \in Complete
      BY <2>1 DEF Says, Complete
    <2>2. CASE e \notin Complete
      <3>1. Knows(s) \/ \E i \in 1..n : channel[s][i] \in Complete
        BY <1>1, <2>2
      <3>2. engine[s].inventory
        BY <3>1 DEF Follows, InventoryIsThere, n
      <3> QED BY <3>2 DEF Says
    <2> QED BY <2>1, <2>2
  <1>5. InventoryInOrder(s)'
    <2> SUFFICES ASSUME NEW i \in 1..(n + 1), channel'[s][i] = "inventory_incomplete"
                 PROVE  ~Knows(s) /\ \A j \in 1..(i - 1) : channel'[s][j] \notin Complete
      BY <1>1, <1>3 DEF InventoryInOrder
    <2>1. CASE i \in 1..n
      BY <1>1, <2>1 DEF Follows, InventoryInOrder, n
    <2>2. CASE i = n + 1
      <3>1. ~engine[s].inventory
        BY <1>1, <2>2 DEF Says
      <3> QED BY <1>1, <2>2, <3>1 DEF Follows, InventoryIsThere, n
    <2> QED BY <1>1, <2>1, <2>2
  <1>6. ProblemIsTold(s)'
    <2> SUFFICES ASSUME new.incomplete
                 PROVE  \/ ~Trusts(s) /\ \A j \in 1..(n + 1) : channel'[s][j] \notin Good
                        \/ \E i \in 1..(n + 1) :
                              /\ channel'[s][i] \in Bad
                              /\ \A j \in (i + 1)..(n + 1) : channel'[s][j] \notin Good
      BY <1>1, <1>3 DEF ProblemIsTold
    <2>1. CASE e \in Bad
      BY <1>1, <2>1
    <2>2. CASE e \notin Bad
      <3>1. engine[s].incomplete /\ e \notin Good
        BY <2>2 DEF Says, Bad, Good
      <3>2. CASE ~Trusts(s) /\ \A j \in 1..n : channel[s][j] \notin Good
        BY <1>1, <3>1, <3>2
      <3>3. CASE \E i \in 1..n : /\ channel[s][i] \in Bad
                                 /\ \A j \in (i + 1)..n : channel[s][j] \notin Good
        <4>1. PICK i \in 1..n : /\ channel[s][i] \in Bad
                                /\ \A j \in (i + 1)..n : channel[s][j] \notin Good
          BY <3>3
        <4>2. \A j \in (i + 1)..(n + 1) : channel'[s][j] \notin Good
          BY <1>1, <3>1, <4>1
        <4> QED BY <1>1, <4>1, <4>2
      <3> QED BY <3>1, <3>2, <3>3 DEF Follows, ProblemIsTold, n
    <2> QED BY <2>1, <2>2
  <1> QED BY <1>4, <1>5, <1>6 DEF Follows

(* The first record of s is handled.                                       *)
LEMMA HeardFollows ==
  ASSUME MonitorInv, NEW s \in Sessions, Event(s), Follows(s)
  PROVE  Follows(s)' /\ (coverage' => inventory') /\ (bound' = NoSession => ~inventory')
  <1> DEFINE q == channel[s]
             e == Head(q)
  <1>1. /\ Len(q) \in Nat \ {0} /\ e = q[1] /\ Len(channel'[s]) = Len(q) - 1
        /\ \A i \in 1..(Len(q) - 1) : channel'[s][i] = q[i + 1]
    BY Taken DEF Event, MonitorInv, Types
  <1>2. UNCHANGED engine /\ bound' = (IF bound = NoSession THEN s ELSE bound) /\ bound' # NoSession
    BY DEF Event
  <1>3. inventory \in BOOLEAN /\ coverage \in BOOLEAN
    BY DEF MonitorInv, Types
  <1>4. /\ bound = NoSession => ~inventory
        /\ coverage => inventory
    BY DEF MonitorInv, EvidenceFollows
  <1>5. ASSUME NEW i \in 1..(Len(q) - 1), channel'[s][i] = "inventory_incomplete"
        PROVE  ~Knows(s) /\ e \notin Complete /\ \A j \in 1..(i - 1) : channel'[s][j] \notin Complete
    <2>1. i + 1 \in 1..Len(q) /\ q[i + 1] = "inventory_incomplete"
      BY <1>1, <1>5
    <2>2. ~Knows(s) /\ \A j \in 1..((i + 1) - 1) : q[j] \notin Complete
      BY <2>1 DEF Follows, InventoryInOrder
    <2>3. \A j \in 1..(i - 1) : j + 1 \in 1..((i + 1) - 1) /\ channel'[s][j] = q[j + 1]
      BY <1>1, <2>1
    <2> QED BY <1>1, <2>1, <2>2, <2>3
  <1>6. ASSUME engine[s].incomplete, ~Trusts(s)' \/ (e \notin Bad /\ (e \in Good \/ Trusts(s)))
        PROVE  ProblemIsTold(s)'
    <2> SUFFICES \/ ~Trusts(s)' /\ \A j \in 1..(Len(q) - 1) : channel'[s][j] \notin Good
                 \/ \E i \in 1..(Len(q) - 1) :
                       /\ channel'[s][i] \in Bad
                       /\ \A j \in (i + 1)..(Len(q) - 1) : channel'[s][j] \notin Good
      BY <1>1, <1>2 DEF ProblemIsTold
    <2>1. CASE ~Trusts(s) /\ \A j \in 1..Len(q) : q[j] \notin Good
      BY <1>1, <1>6, <2>1
    <2>2. CASE q[1] \in Bad /\ \A j \in 2..Len(q) : q[j] \notin Good
      BY <1>1, <1>6, <2>2
    <2>3. ASSUME NEW i \in 2..Len(q), q[i] \in Bad, \A j \in (i + 1)..Len(q) : q[j] \notin Good
          PROVE  \E k \in 1..(Len(q) - 1) :
                    /\ channel'[s][k] \in Bad
                    /\ \A j \in (k + 1)..(Len(q) - 1) : channel'[s][j] \notin Good
      <3>1. i - 1 \in 1..(Len(q) - 1) /\ channel'[s][i - 1] \in Bad
        BY <1>1, <2>3
      <3>2. \A j \in ((i - 1) + 1)..(Len(q) - 1) : channel'[s][j] \notin Good
        BY <1>1, <2>3
      <3> QED BY <3>1, <3>2
    <2>4. \/ ~Trusts(s) /\ \A j \in 1..Len(q) : q[j] \notin Good
          \/ \E i \in 1..Len(q) : q[i] \in Bad /\ \A j \in (i + 1)..Len(q) : q[j] \notin Good
      BY <1>6 DEF Follows, ProblemIsTold
    <2>5. CASE \E i \in 1..Len(q) : q[i] \in Bad /\ \A j \in (i + 1)..Len(q) : q[j] \notin Good
      <3>1. PICK i \in 1..Len(q) : q[i] \in Bad /\ \A j \in (i + 1)..Len(q) : q[j] \notin Good
        BY <2>5
      <3>2. CASE i = 1
        BY <2>2, <3>1, <3>2
      <3>3. CASE i # 1
        <4>1. i \in 2..Len(q)
          BY <3>1, <3>3
        <4> QED BY <2>3, <3>1, <4>1
      <3> QED BY <3>2, <3>3
    <2> QED BY <2>1, <2>4, <2>5
  <1>7. CASE ~coverage' /\ inventory' = inventory /\ (bound' # s \/ e = "repeated")
    <2>1. Knows(s)' => Knows(s)
      BY <1>2, <1>4, <1>7 DEF Knows
    <2>2. InventoryIsThere(s)'
      BY <1>1, <1>2, <2>1 DEF Follows, InventoryIsThere
    <2>3. InventoryInOrder(s)'
      BY <1>1, <1>5, <2>1 DEF InventoryInOrder
    <2>4. ProblemIsTold(s)'
      BY <1>2, <1>6, <1>7 DEF ProblemIsTold, Trusts
    <2> QED BY <1>2, <1>7, <2>2, <2>3, <2>4 DEF Follows
  <1>8. CASE bound' = s /\ e # "repeated" /\ Accepts(e)
    <2>1. (Trusts(s) <=> coverage) /\ (Knows(s) <=> inventory)
      BY <1>2, <1>3, <1>4, <1>8 DEF Trusts, Knows
    <2>2. e = "inventory_incomplete" => ~inventory /\ ~coverage
      BY <1>1, <1>4, <2>1 DEF Follows, InventoryInOrder
    <2>3. inventory' <=> inventory \/ e \in Complete
      BY <1>3, <1>8, <2>2 DEF Accepts, Complete
    <2>4. coverage' => inventory'
      BY <1>3, <1>4, <1>8, <2>2, <2>3 DEF Accepts, Complete
    <2>5. Knows(s)' <=> Knows(s) \/ e \in Complete
      BY <1>8, <2>1, <2>3 DEF Knows
    <2>6. InventoryIsThere(s)'
      BY <1>1, <1>2, <2>5 DEF Follows, InventoryIsThere
    <2>7. InventoryInOrder(s)'
      BY <1>1, <1>5, <2>5 DEF InventoryInOrder
    <2>8. coverage' => e \notin Bad /\ (e \in Good \/ Trusts(s))
      BY <1>3, <1>8, <2>1, <2>2 DEF Accepts, Bad, Good
    <2>9. ProblemIsTold(s)'
      BY <1>2, <1>6, <2>8 DEF ProblemIsTold, Trusts
    <2> QED BY <1>2, <2>4, <2>6, <2>7, <2>9 DEF Follows
  <1> QED BY <1>7, <1>8 DEF Event, Rejects

LEMMA EvidenceStep == MonitorInv /\ [Next]_vars => EvidenceFollows'
  <1> SUFFICES ASSUME MonitorInv, [Next]_vars PROVE EvidenceFollows'
    OBVIOUS
  <1>1. /\ bound = NoSession => ~inventory
        /\ coverage => inventory
        /\ \A t \in Sessions : thread[t] # "none" => Follows(t)
        /\ \A t \in Sessions : thread[t] = "none" => channel[t] = <<>>
    BY DEF MonitorInv, EvidenceFollows, Follows, ChannelsEnd
  <1>2. /\ {inventory, coverage} \subseteq BOOLEAN /\ NoSession \notin Sessions
        /\ thread \in [Sessions -> {"none", "starting", "spawned", "reading", "over"}]
        /\ channel \in [Sessions -> Seq(Records)]
        /\ engine \in [Sessions -> [inventory : BOOLEAN, incomplete : BOOLEAN]]
    BY DEF MonitorInv, Types
  <1> SUFFICES /\ bound' = NoSession => ~inventory'
               /\ coverage' => inventory'
               /\ \A t \in Sessions : thread'[t] # "none" => Follows(t)'
    BY DEF EvidenceFollows, Follows
  <1>3. CASE /\ UNCHANGED <<bound, inventory, channel, engine>>
             /\ coverage' => coverage
             /\ \A t \in Sessions : thread'[t] # "none" => thread[t] # "none"
    BY <1>1, <1>3, LessIsKnown DEF Knows, Trusts
  <1>4. CASE /\ bound' = NoSession /\ ~inventory' /\ ~coverage'
             /\ UNCHANGED <<channel, engine>> \/ \A t \in Sessions : channel'[t] = <<>>
    <2> SUFFICES ASSUME NEW t \in Sessions PROVE Follows(t)'
      BY <1>4
    <2>1. ~Knows(t)' /\ ~Trusts(t)'
      BY <1>2, <1>4 DEF Knows, Trusts
    <2>2. CASE channel'[t] = <<>>
      BY <2>1, <2>2, NothingIsSaid
    <2>3. CASE UNCHANGED <<channel, engine>> /\ channel[t] # <<>>
      BY <1>1, <2>1, <2>3, LessIsKnown
    <2> QED BY <1>4, <2>2, <2>3
  <1>5. CASE Starts
    <2>1. ASSUME NEW s \in Sessions, Begun(s)
          PROVE  /\ bound' = NoSession /\ ~inventory' /\ ~coverage'
                 /\ UNCHANGED <<channel, engine>>
      BY <2>1 DEF Begun, ResetEvidence
    <2>2. CASE NoneBegun /\ ResetEvidence
      BY <1>4, <2>2 DEF NoneBegun, ResetEvidence, worker
    <2>3. CASE NoneBegun /\ UNCHANGED evidence
      BY <1>3, <2>3 DEF NoneBegun, evidence, worker
    <2>4. CASE Stopped
      BY <1>3, <2>4 DEF Stopped, evidence, worker
    <2> QED BY <1>4, <1>5, <2>1, <2>2, <2>3, <2>4, StartsEffect DEF NoneBegun
  <1>6. CASE Exit
    BY <1>4, <1>6 DEF Exit, ResetEvidence
  <1>7. CASE Looks
    <2>1. coverage' => coverage
      BY <1>7 DEF Looks, Watchdog, LooksAgain, Refreshed, Lapse, ProcessEnds, evidence
    <2> QED BY <1>3, <1>7, <2>1, LooksEffect DEF worker
  <1>8. CASE StopTerminates \/ UNCHANGED vars
    BY <1>3, <1>8 DEF StopTerminates, vars, evidence, worker
  <1>9. ASSUME NEW s \in Sessions, Falls(s) PROVE EvidenceFollows'
    BY <1>3, <1>9, FallsEffect DEF evidence, EvidenceFollows, Follows
  <1>10. ASSUME NEW s \in Sessions, Completed(s)
         PROVE  /\ bound' = NoSession => ~inventory'
                /\ coverage' => inventory'
                /\ \A t \in Sessions : thread'[t] # "none" => Follows(t)'
    <2>1. UNCHANGED <<bound, inventory>> /\ ~coverage'
      BY <1>10 DEF Completed
    <2>2. ASSUME NEW t \in Sessions, thread'[t] # "none" PROVE Follows(t)'
      <3>1. t # s /\ channel'[t] = channel[t] /\ engine'[t] = engine[t] /\ thread[t] # "none"
        BY <1>2, <1>10, <2>2 DEF Completed
      <3> QED BY <1>1, <2>1, <3>1, LessIsKnown DEF Knows, Trusts
    <2> QED BY <1>1, <2>1, <2>2
  <1>11. ASSUME NEW s \in Sessions, UNCHANGED <<bound, inventory, coverage>>,
                NEW e \in Records, NEW new \in [inventory : BOOLEAN, incomplete : BOOLEAN],
                Says(engine[s], e, new), thread[s] # "none",
                channel' = [channel EXCEPT ![s] = Append(@, e)],
                engine' = [engine EXCEPT ![s] = new],
                \A t \in Sessions : thread'[t] # "none" => thread[t] # "none"
         PROVE  /\ bound' = NoSession => ~inventory'
                /\ coverage' => inventory'
                /\ \A t \in Sessions : thread'[t] # "none" => Follows(t)'
    <2>1. Follows(s)'
      BY <1>1, <1>2, <1>11, SaidFollows
    <2>2. ASSUME NEW t \in Sessions \ {s}, thread'[t] # "none" PROVE Follows(t)'
      <3>1. channel'[t] = channel[t] /\ engine'[t] = engine[t]
        BY <1>2, <1>11
      <3> QED BY <1>1, <1>11, <2>2, <3>1, LessIsKnown DEF Knows, Trusts
    <2> QED BY <1>1, <1>11, <2>1, <2>2
  <1>12. ASSUME NEW s \in Sessions, Speaks(s)
         PROVE  /\ bound' = NoSession => ~inventory'
                /\ coverage' => inventory'
                /\ \A t \in Sessions : thread'[t] # "none" => Follows(t)'
    <2>1. PICK e \in Records \ {"complete"}, new \in [inventory : BOOLEAN, incomplete : BOOLEAN] :
             /\ Says(engine[s], e, new)
             /\ channel' = [channel EXCEPT ![s] = Append(@, e)]
             /\ engine' = [engine EXCEPT ![s] = new]
      BY <1>12, SpeaksRecord
    <2>2. thread[s] = "reading" /\ UNCHANGED <<bound, inventory, coverage, thread>>
      BY <1>12, SpeaksEffect DEF evidence
    <2> QED BY <1>11, <2>1, <2>2
  <1>13. ASSUME NEW s \in Sessions, Thread(s)
         PROVE  /\ bound' = NoSession => ~inventory'
                /\ coverage' => inventory'
                /\ \A t \in Sessions : thread'[t] # "none" => Follows(t)'
    <2>1. UNCHANGED <<bound, inventory, coverage, engine>>
      BY <1>13, ThreadEffect DEF evidence
    <2>2. /\ thread[s] # "none"
          /\ \A t \in Sessions : thread'[t] # "none" => thread[t] # "none"
          /\ UNCHANGED channel \/ channel' = [channel EXCEPT ![s] = Append(@, "complete")]
      BY <1>2, <1>13 DEF Thread, Spawns, SpawnFails, ChecksStop, ReaderEnds, ReaderRefuses,
         OnThread, Posts
    <2>3. CASE channel' = [channel EXCEPT ![s] = Append(@, "complete")]
      <3>1. engine' = [engine EXCEPT ![s] = engine[s]]
        BY <1>2, <2>1
      <3>2. "complete" \in Records /\ Says(engine[s], "complete", engine[s])
        BY DEF Records, Says
      <3> QED BY <1>2, <1>11, <2>1, <2>2, <2>3, <3>1, <3>2
    <2> QED BY <1>3, <2>1, <2>2, <2>3
  <1>14. ASSUME NEW s \in Sessions, Event(s)
         PROVE  /\ bound' = NoSession => ~inventory'
                /\ coverage' => inventory'
                /\ \A t \in Sessions : thread'[t] # "none" => Follows(t)'
    <2>1. thread[s] # "none" /\ UNCHANGED <<thread, engine>>
      BY <1>1, <1>14 DEF Event
    <2>2. /\ Follows(s)'
          /\ coverage' => inventory'
          /\ bound' = NoSession => ~inventory'
      BY <1>1, <1>14, <2>1, HeardFollows
    <2>3. ASSUME NEW t \in Sessions \ {s}, thread'[t] # "none" PROVE Follows(t)'
      <3>1. channel'[t] = channel[t] /\ engine'[t] = engine[t] /\ thread[t] # "none"
        BY <1>2, <1>14, <2>1, <2>3 DEF Event
      <3>2. bound' = t => bound = t /\ inventory' = inventory /\ ~coverage'
        BY <1>14 DEF Event, Rejects
      <3> QED BY <1>1, <3>1, <3>2, LessIsKnown DEF Knows, Trusts
    <2> QED BY <2>2, <2>3
  <1> QED BY <1>5, <1>6, <1>7, <1>8, <1>9, <1>10, <1>12, <1>13, <1>14, Steps
          DEF EvidenceFollows, Follows

-----------------------------------------------------------------------------
(* The types, in the parts that the handlers of the Tk thread change       *)
(* together.                                                               *)
Plans ==
    /\ store \in BOOLEAN /\ prefer \in BOOLEAN /\ closing \in BOOLEAN /\ gone \in BOOLEAN
    /\ retry \in BOOLEAN /\ dialog \in BOOLEAN
    /\ mode \in {"none", "automatic", "temporary"}
    /\ acts \in 0..MaxActs /\ faults \in 0..MaxFaults

Held ==
    /\ tracked \in BOOLEAN /\ inventory \in BOOLEAN /\ coverage \in BOOLEAN /\ card \in BOOLEAN
    /\ session \in Sessions \cup {NoSession} /\ stopping \in Sessions \cup {NoSession}
    /\ bound \in Sessions \cup {NoSession} /\ orphans \subseteq Sessions
    /\ dogs \in Nat /\ beat \in {"none", "fresh", "late"}

Works ==
    /\ thread \in [Sessions -> {"none", "starting", "spawned", "reading", "over"}]
    /\ child \in [Sessions -> {"none", "alive", "terminated", "dead"}]
    /\ told \in [Sessions -> BOOLEAN]
    /\ engine \in [Sessions -> [inventory : BOOLEAN, incomplete : BOOLEAN]]

LEMMA TypesSplit == Types <=> Plans /\ Held /\ Works /\ channel \in [Sessions -> Seq(Records)]
  BY DEF Types, Plans, Held, Works

LEMMA StartStorePlans ==
  ASSUME Plans, NEW pending \in BOOLEAN, StartStore(pending), prefer' \in BOOLEAN
  PROVE  /\ retry' \in BOOLEAN /\ mode' \in {"none", "automatic", "temporary"}
         /\ faults' \in 0..MaxFaults
  BY DEF Plans, StartStore, Begins, CannotBegin, ScheduleRetry, hold

LEMMA StartTemporaryPlans ==
  ASSUME Plans, StartTemporary
  PROVE  /\ retry' \in BOOLEAN /\ mode' \in {"none", "automatic", "temporary"}
         /\ faults' \in 0..MaxFaults /\ UNCHANGED <<choice, exit>>
  BY DEF Plans, StartTemporary, Begins, CannotBegin, ScheduleRetry, choice

LEMMA UserActs ==
  ASSUME User, acts \in 0..MaxActs
  PROVE  acts' \in 0..MaxActs
  BY DEF User

LEMMA StartsPlans ==
  ASSUME Plans, Starts
  PROVE  Plans'
  <1> USE DEF Plans, choice, exit, hold, timers, counts
  <1>1. CASE RetryFires
    BY <1>1, StartStorePlans DEF RetryFires
  <1>2. CASE ClickStart
    BY <1>2, StartTemporaryPlans DEF ClickStart, User
  <1>3. CASE AnswerYes
    BY <1>3, StartTemporaryPlans DEF AnswerYes
  <1>4. CASE ClickStartQuarantine \/ AnswerNo
    <2>1. dialog' \in BOOLEAN /\ UNCHANGED <<store, prefer, closing, gone, retry, mode, faults>>
      BY <1>4 DEF ClickStartQuarantine, AnswerNo
    <2>2. acts' \in 0..MaxActs
      BY <1>4, UserActs DEF ClickStartQuarantine, AnswerNo
    <2> QED BY <2>1, <2>2
  <1>5. ASSUME User, NEW enabled \in BOOLEAN, Change(enabled) \/ SaveFails PROVE Plans'
    <2>1. acts' \in 0..MaxActs
      BY <1>5, UserActs
    <2>2. CASE Change(enabled) /\ enabled
      <3>1. /\ prefer' = enabled /\ UNCHANGED <<store, closing, gone, dialog>>
            /\ StartStore(FALSE)
        BY <2>2 DEF Change
      <3> QED BY <2>1, <3>1, StartStorePlans
    <2>3. CASE Change(enabled) /\ ~enabled
      <3>1. /\ prefer' = enabled /\ retry' = FALSE
            /\ UNCHANGED <<store, closing, gone, dialog, mode, faults>>
        BY <2>3 DEF Change
      <3> QED BY <2>1, <3>1
    <2>4. CASE SaveFails
      <3>1. UNCHANGED <<store, prefer, closing, gone, retry, dialog, mode>> /\ faults' \in 0..MaxFaults
        BY <2>4 DEF SaveFails
      <3> QED BY <2>1, <3>1
    <2> QED BY <1>5, <2>2, <2>3, <2>4
  <1>6. CASE ClickToggle
    BY <1>5, <1>6 DEF ClickToggle
  <1>7. CASE ClickStop
    <2>1. CASE store /\ mode = "automatic"
      BY <1>5, <1>7, <2>1 DEF ClickStop
    <2>2. CASE ~(store /\ mode = "automatic")
      <3>1. User /\ UNCHANGED <<store, prefer, closing, gone, retry, dialog, mode, faults>>
        BY <1>7, <2>2 DEF ClickStop
      <3> QED BY <3>1, UserActs
    <2> QED BY <2>1, <2>2
  <1> QED BY <1>1, <1>2, <1>3, <1>4, <1>6, <1>7 DEF Starts

LEMMA PlansStep == Plans /\ [Next]_vars => Plans'
  <1> SUFFICES ASSUME Plans, [Next]_vars PROVE Plans'
    OBVIOUS
  <1> USE DEF Plans, choice, exit, hold, timers, counts
  <1>1. CASE Starts
    BY <1>1, StartsPlans
  <1>2. CASE Looks \/ StopTerminates \/ Exit \/ UNCHANGED vars
    BY <1>2 DEF Looks, Watchdog, Refreshed, Lapse, ProcessEnds, StopTerminates, Exit, vars
  <1>3. ASSUME NEW s \in Sessions, Speaks(s) PROVE Plans'
    <2>1. UNCHANGED <<store, prefer, closing, gone, retry, dialog, mode, acts>>
      BY <1>3 DEF Speaks, Inventory, Issue, Beats, Recovers, Repeats, Emits
    <2>2. faults' = faults \/ (faults < MaxFaults /\ faults' = faults + 1)
      BY <1>3, Zenon DEF Speaks, Inventory, Issue, Beats, Recovers, Repeats
    <2>3. faults' \in 0..MaxFaults
      BY <2>2
    <2> QED BY <2>1, <2>3
  <1>4. ASSUME NEW s \in Sessions, Falls(s) PROVE Plans'
    BY <1>4 DEF Falls, ChildEnds, Dies, PipeBreaks
  <1>5. ASSUME NEW s \in Sessions, Thread(s) PROVE Plans'
    BY <1>5 DEF Thread, Spawns, SpawnFails, ChecksStop, ReaderEnds, ReaderRefuses, OnThread
  <1>6. ASSUME NEW s \in Sessions, Event(s) \/ Completed(s) PROVE Plans'
    BY <1>6 DEF Event, Completed, ScheduleRetry
  <1> QED BY <1>1, <1>2, <1>3, <1>4, <1>5, <1>6, Steps

LEMMA HeldStep == MonitorInv /\ [Next]_vars => Held'
  <1> SUFFICES ASSUME MonitorInv, [Next]_vars PROVE Held'
    OBVIOUS
  <1>1. Held /\ store \in BOOLEAN /\ (tracked => dogs > 0) /\ NoSession \notin Sessions
    BY TypesSplit DEF MonitorInv, Plans, TimersAreKept
  <1> USE DEF Held, evidence, hold, timers, exit
  <1>2. CASE UNCHANGED <<session, stopping, orphans, dogs, tracked, evidence, card>>
    BY <1>1, <1>2
  <1>3. CASE Starts
    <2>1. ASSUME NEW s \in Sessions, Begun(s) PROVE Held'
      <3>1. dogs' \in Nat
        BY <1>1, <2>1 DEF Begun
      <3> QED BY <1>1, <2>1, <3>1 DEF Begun, ResetEvidence
    <2>2. CASE NoneBegun
      <3>1. dogs' \in {dogs, dogs + 1} /\ tracked' \in {tracked, TRUE}
        BY <2>2, Zenon DEF NoneBegun
      <3>2. dogs' \in Nat
        BY <1>1, <3>1
      <3>3. tracked' \in BOOLEAN
        BY <1>1, <3>1
      <3> QED BY <1>1, <2>2, <3>2, <3>3 DEF NoneBegun, ResetEvidence
    <2>3. CASE Stopped
      BY <1>1, <2>3 DEF Stopped, Stop
    <2> QED BY <1>3, <2>1, <2>2, <2>3, StartsEffect
  <1>4. CASE UNCHANGED <<session, stopping, orphans, dogs, tracked, evidence>> /\ Render
    BY <1>1, <1>4 DEF Render
  <1>5. CASE Watchdog
    <2>1. UNCHANGED <<session, orphans, bound, beat, inventory, card>> /\ dogs > 0
      BY <1>5 DEF Watchdog
    <2>2. stopping' \in {stopping, session}
      BY <1>5 DEF Watchdog, Stop
    <2>3. dogs' \in {dogs, dogs - 1} /\ tracked' \in {TRUE, FALSE}
      BY <1>5, Zenon DEF Watchdog, LooksAgain
    <2>4. coverage' \in BOOLEAN
      BY <1>1, <1>5, Zenon DEF Watchdog, LooksAgain
    <2>5. dogs' \in Nat
      BY <1>1, <2>1, <2>3
    <2>6. tracked' \in BOOLEAN
      BY <2>3
    <2> QED BY <1>1, <2>1, <2>2, <2>4, <2>5, <2>6
  <1>6. CASE Lapse
    BY <1>1, <1>6 DEF Lapse
  <1>7. CASE Refreshed \/ ProcessEnds \/ UNCHANGED vars
    BY <1>2, <1>4, <1>7 DEF Refreshed, ProcessEnds, vars
  <1>8. CASE StopTerminates
    BY <1>1, <1>8 DEF StopTerminates
  <1>9. CASE Exit
    BY <1>1, <1>9 DEF Exit, ResetEvidence, Stop
  <1>10. ASSUME NEW s \in Sessions, Speaks(s) \/ Falls(s) \/ Thread(s) PROVE Held'
    BY <1>2, <1>10, SpeaksEffect, FallsEffect, ThreadEffect
  <1>11. ASSUME NEW s \in Sessions, Completed(s) PROVE Held'
    <2>1. dogs' \in Nat /\ tracked' = FALSE
      BY <1>1, <1>11 DEF Completed, CancelTracked
    <2>2. card' \in BOOLEAN /\ UNCHANGED <<stopping, bound, inventory>>
      BY <1>1, <1>11 DEF Completed
    <2>3. session' = NoSession /\ orphans' \subseteq Sessions /\ coverage' = FALSE /\ beat' = "none"
      BY <1>1, <1>11 DEF Completed
    <2> QED BY <1>1, <2>1, <2>2, <2>3
  <1>12. ASSUME NEW s \in Sessions, Event(s) PROVE Held'
    <2> DEFINE e == Head(channel[s])
    <2>1. UNCHANGED <<session, orphans, dogs, tracked>> /\ bound' \in {s, bound}
      BY <1>12 DEF Event
    <2>2. CASE Rejects(s, e)
      BY <1>1, <2>1, <2>2 DEF Rejects, Stop
    <2>3. CASE Accepts(e)
      <3>1. UNCHANGED stopping /\ inventory' \in BOOLEAN
        BY <1>1, <2>3 DEF Accepts
      <3>2. coverage' \in BOOLEAN
        BY <1>1, <2>3, <3>1 DEF Accepts
      <3>3. beat' \in {beat, "fresh"} /\ (UNCHANGED card \/ Render)
        BY <2>3 DEF Accepts
      <3>4. card' \in BOOLEAN
        BY <1>1, <3>2, <3>3 DEF Render
      <3> QED BY <1>1, <2>1, <3>1, <3>2, <3>3, <3>4
    <2> QED BY <1>12, <2>2, <2>3 DEF Event
  <1> QED BY <1>3, <1>5, <1>6, <1>7, <1>8, <1>9, <1>10, <1>11, <1>12, Steps DEF Looks

LEMMA WorksStep == MonitorInv /\ [Next]_vars => Works'
  <1> SUFFICES ASSUME MonitorInv, [Next]_vars PROVE Works'
    OBVIOUS
  <1>1. Works
    BY TypesSplit DEF MonitorInv
  <1> USE DEF Works, worker
  <1>2. CASE UNCHANGED <<worker, told>>
    BY <1>1, <1>2
  <1>3. CASE Starts
    <2>1. ASSUME NEW s \in Sessions, Begun(s) PROVE Works'
      BY <1>1, <2>1 DEF Begun
    <2>2. CASE Stopped
      BY <1>1, <2>2 DEF Stopped, Stop
    <2> QED BY <1>2, <1>3, <2>1, <2>2, StartsEffect DEF NoneBegun
  <1>4. CASE Watchdog
    BY <1>1, <1>4 DEF Watchdog, Stop
  <1>5. CASE Refreshed \/ Lapse \/ ProcessEnds \/ UNCHANGED vars
    BY <1>2, <1>5 DEF Refreshed, Lapse, ProcessEnds, vars
  <1>6. CASE StopTerminates
    BY <1>1, <1>6 DEF StopTerminates, Terminated
  <1>7. CASE Exit
    BY <1>1, <1>7 DEF Exit, Stop
  <1>8. ASSUME NEW s \in Sessions, Speaks(s) PROVE Works'
    BY <1>1, <1>8, SpeaksEffect, SpeaksRecord
  <1>9. ASSUME NEW s \in Sessions, Falls(s) PROVE Works'
    BY <1>1, <1>9, FallsEffect
  <1>10. ASSUME NEW s \in Sessions, Thread(s) PROVE Works'
    <2>1. UNCHANGED <<told, engine>>
      BY <1>10, ThreadEffect
    <2>2. thread' \in [Sessions -> {"none", "starting", "spawned", "reading", "over"}]
      BY <1>1, <1>10 DEF Thread, Spawns, SpawnFails, ChecksStop, ReaderEnds, ReaderRefuses, OnThread
    <2>3. child' \in [Sessions -> {"none", "alive", "terminated", "dead"}]
      BY <1>1, <1>10 DEF Thread, Spawns, SpawnFails, ChecksStop, ReaderEnds, ReaderRefuses,
         Terminated
    <2> QED BY <1>1, <2>1, <2>2, <2>3
  <1>11. ASSUME NEW s \in Sessions, Completed(s) PROVE Works'
    BY <1>1, <1>11 DEF Completed, Fresh
  <1>12. ASSUME NEW s \in Sessions, Event(s) PROVE Works'
    <2>1. UNCHANGED <<thread, child, engine>> /\ (Stop(session) \/ UNCHANGED told)
      BY <1>12 DEF Event, Rejects, Accepts
    <2> QED BY <1>1, <2>1 DEF Stop
  <1> QED BY <1>3, <1>4, <1>5, <1>6, <1>7, <1>8, <1>9, <1>10, <1>11, <1>12, Steps DEF Looks

LEMMA MonitorStep == MonitorInv /\ [Next]_vars => MonitorInv'
  <1> SUFFICES ASSUME MonitorInv, [Next]_vars PROVE MonitorInv'
    OBVIOUS
  <1>1. Types'
    <2>1. Plans' /\ Held' /\ Works' /\ channel' \in [Sessions -> Seq(Records)]
      BY TypesSplit, PlansStep, HeldStep, WorksStep, ChannelStep DEF MonitorInv
    <2> QED BY <2>1 DEF Types, Plans, Held, Works
  <1>2. ThreadsAreKnown' /\ StopReachesChild' /\ ChannelsEnd'
    BY ThreadsStep, StopStep, ChannelStep
  <1>3. TimersAreKept' /\ EvidenceFollows'
    BY TimersStep, EvidenceStep
  <1> QED BY <1>1, <1>2, <1>3 DEF MonitorInv

LEMMA Monitoring == Spec => []MonitorInv
  <1>1. Init => MonitorInv
    BY MonitorInit
  <1>2. MonitorInv /\ [Next]_vars => MonitorInv'
    BY MonitorStep
  <1> QED BY <1>1, <1>2, PTL DEF Spec

-----------------------------------------------------------------------------
(* The types, of which the bound on a channel says: what is not yet        *)
(* handled of a session is what its child has said and the one completion  *)
(* with which WatchSession._run ends.                                      *)
THEOREM MonitorTypes == Spec => []TypeOK
  <1>1. MonitorInv => TypeOK
    <2> SUFFICES ASSUME MonitorInv PROVE TypeOK
      OBVIOUS
    <2>1. \A s \in Sessions :
             Len(channel[s]) <= Depth + 1 /\ \A i \in 1..Len(channel[s]) : channel[s][i] \in Records
      BY DEF MonitorInv, Types, ChannelsEnd
    <2> QED BY <2>1 DEF MonitorInv, Types, TypeOK
  <1> QED BY <1>1, Monitoring, PTL

(* An engine that runs is that of the session the application holds, while *)
(* it has lost none; whenever stop() comes, StopTerminates or the thread's *)
(* own check after the start (_run) ends the child.                        *)
THEOREM MonitorHolds == Spec => []SessionsAreHeld
  <1>1. MonitorInv => SessionsAreHeld
    <2> SUFFICES ASSUME MonitorInv PROVE OneObserver
      BY DEF MonitorInv, SessionsAreHeld
    <2> SUFFICES ASSUME orphans = {}, NEW s \in Sessions, Live(s) PROVE s = session
      BY DEF OneObserver
    <2>1. thread[s] # "none"
      BY DEF MonitorInv, ThreadsAreKnown, Live
    <2> QED BY <2>1 DEF MonitorInv, ThreadsAreKnown
  <1> QED BY <1>1, Monitoring, PTL

(* _watch_event takes for complete only what the engine still calls        *)
(* complete, once all of its records have come; the card and the watchdog  *)
(* are there only with a session, and a session only with its watchdog.    *)
THEOREM MonitorProves == Spec => []ActiveIsProven
  <1>1. MonitorInv => ActiveIsProven
    <2> SUFFICES ASSUME MonitorInv PROVE CoverageAgrees
      BY DEF MonitorInv, TimersAreKept, ActiveIsProven
    <2> SUFFICES ASSUME coverage, session # NoSession, bound = session, channel[session] = <<>>
                 PROVE  engine[session].inventory /\ ~engine[session].incomplete
      BY DEF CoverageAgrees
    <2>1. session \in Sessions /\ thread[session] # "none" /\ Len(channel[session]) = 0
      BY DEF MonitorInv, Types, ThreadsAreKnown
    <2>2. Knows(session) /\ Trusts(session)
      BY DEF MonitorInv, EvidenceFollows, Knows, Trusts
    <2> QED BY <2>1, <2>2 DEF MonitorInv, EvidenceFollows, InventoryIsThere, ProblemIsTold
  <1> QED BY <1>1, Monitoring, PTL

(* However the pause and a pending _start_store_monitoring interleave, the *)
(* timer finds the preference as it is and begins nothing.                 *)
THEOREM MonitorPauses == Spec => PauseIsKept
  <1>1. [Next]_vars => [session' # session /\ mode' = "automatic" => prefer']_vars
    <2> SUFFICES ASSUME [Next]_vars, session' # session, mode' = "automatic" PROVE prefer'
      OBVIOUS
    <2> USE DEF hold
    <2>1. ASSUME NEW pending, StartStore(pending) PROVE prefer'
      BY <2>1 DEF StartStore, CannotBegin, MayStart
    <2>2. ~StartTemporary
      BY DEF StartTemporary, Begins, CannotBegin
    <2>3. CASE Starts
      BY <2>1, <2>2, <2>3 DEF Starts, RetryFires, ClickStart, ClickStartQuarantine, AnswerNo,
         AnswerYes, ClickToggle, ClickStop, Change, SaveFails
    <2>4. ~(Looks \/ StopTerminates \/ Exit \/ UNCHANGED vars)
      BY DEF Looks, Watchdog, Refreshed, Lapse, ProcessEnds, StopTerminates, Exit, vars
    <2>5. ASSUME NEW s \in Sessions
          PROVE  ~(Speaks(s) \/ Falls(s) \/ Thread(s) \/ Event(s) \/ Completed(s))
      BY SpeaksEffect, FallsEffect, ThreadEffect DEF Event, Completed
    <2> QED BY <2>3, <2>4, <2>5, Steps
  <1> QED BY <1>1, PTL DEF Spec, PauseIsKept
=============================================================================
