------------------------- MODULE SignedInstallProofs -------------------------
(***************************************************************************)
(* Proofs about SignedInstall, for any number of clients, any versions,    *)
(* any sequence of objects and any number of faults; and about its two     *)
(* users: FeedInstall, which implements TrustRegister for any number of    *)
(* readers, and UpdateClient, whose status record never claims more than   *)
(* is committed. The invariant of the installation is carried over to      *)
(* both, and their own steps are considered by themselves.                 *)
(***************************************************************************)
EXTENDS FeedInstall, UpdateClient, TLAPS

USE InstallAssumption DEF InstallAssumption

Consistent == \A n \in Names \ {"copy"} : file[n] = state

(* A result belongs to an installation that is over; a version is at hand  *)
(* from the download on.                                                   *)
Progress ==
    \A c \in Clients :
        /\ pc[c] = "return" <=> outcome[c] # "none"
        /\ pc[c] \in {"lock", "write"} => held[c] \in Versions

(* What the holder of the lock compared is still true while it writes, and *)
(* the objects it has passed hold its version.                             *)
WriterKnows ==
    \A c \in Clients : pc[c] = "write" =>
        /\ Acceptable(held[c])
        /\ \A i \in 1..Len(Objects) :
               i < next[c] /\ Objects[i] # "copy" => file[Objects[i]] = held[c]
        /\ next[c] = 1 /\ ~torn => Consistent

InstallInv ==
    /\ TypeOK
    /\ Progress
    /\ WriterKnows
    /\ ObjectsNeverOlder
    /\ ObjectsMatchState
    /\ ReportedIsCommitted

LEMMA InstallInit == Init => InstallInv
  <1> SUFFICES ASSUME Init PROVE InstallInv
    OBVIOUS
  <1>1. TypeOK
    <2>1. Len(Objects) \in Nat
      OBVIOUS
    <2>2. next \in [Clients -> 1..Len(Objects) + 1] /\ faults \in 0..MaxFaults
      BY <2>1 DEF Init
    <2>3. \A c \in Clients : pc[c] = "write" <=> holder = c
      BY DEF Init
    <2> QED BY <2>2, <2>3 DEF Init, TypeOK, Maybe, Outcomes
  <1>2. Progress /\ WriterKnows
    BY DEF Init, Progress, WriterKnows
  <1>3. ObjectsNeverOlder /\ ObjectsMatchState
    BY DEF Init, ObjectsNeverOlder, ObjectsMatchState, Names
  <1>4. ReportedIsCommitted
    BY DEF Init, ReportedIsCommitted
  <1> QED BY <1>1, <1>2, <1>3, <1>4 DEF InstallInv

(* Type correctness is inductive by itself.                                *)
LEMMA InstallType == TypeOK /\ [Next]_vars => TypeOK'
  <1> SUFFICES ASSUME TypeOK, [Next]_vars PROVE TypeOK'
    OBVIOUS
  <1> USE DEF TypeOK, At, Ends, disk
  <1>1. ASSUME NEW c \in Clients, Begin(c) PROVE TypeOK'
    BY <1>1 DEF Begin
  <1>2. ASSUME NEW c \in Clients, NEW v \in Versions, Fetch(c, v) PROVE TypeOK'
    BY <1>2 DEF Fetch, Maybe
  <1>3. ASSUME NEW c \in Clients, FetchFails(c) \/ LockBusy(c) \/ Reject(c) PROVE TypeOK'
    BY <1>3 DEF FetchFails, LockBusy, Reject, Outcomes
  <1>4. ASSUME NEW c \in Clients, Accept(c) PROVE TypeOK'
    BY <1>4 DEF Accept
  <1>5. ASSUME NEW c \in Clients, WriteObject(c) PROVE TypeOK'
    BY <1>5 DEF WriteObject, Names, Maybe
  <1>6. ASSUME NEW c \in Clients, WriteState(c) PROVE TypeOK'
    BY <1>6 DEF WriteState, Outcomes
  <1>7. ASSUME NEW c \in Clients, WriteFails(c) PROVE TypeOK'
    <2>1. torn' = (torn \/ next[c] > 1) \/ torn' = FALSE
      BY <1>7 DEF WriteFails
    <2>2. torn' \in BOOLEAN
      <3> HIDE DEF TypeOK
      <3> QED BY <2>1, Zenon
    <2>3. state' \in Maybe
      BY <1>7 DEF WriteFails
    <2>4. faults' \in 0..MaxFaults
      BY <1>7 DEF WriteFails
    <2>5. pc' = [pc EXCEPT ![c] = "return"] /\ holder' = Nothing /\ holder = c
      BY <1>7 DEF WriteFails
    <2>6. ASSUME NEW d \in Clients PROVE pc'[d] = "write" <=> holder' = d
      BY <2>5
    <2> QED BY <1>7, <2>2, <2>3, <2>4, <2>5, <2>6 DEF WriteFails, Outcomes
  <1>8. ASSUME NEW c \in Clients, Crash(c) PROVE TypeOK'
    <2>0. torn' = (torn \/ (pc[c] = "write" /\ next[c] > 1))
      BY <1>8 DEF Crash
    <2>1. torn' \in BOOLEAN
      <3> HIDE DEF TypeOK
      <3> QED BY <2>0, Zenon
    <2>2. faults' \in 0..MaxFaults
      BY <1>8 DEF Crash
    <2>3. holder' \in Clients \cup {Nothing}
      BY <1>8 DEF Crash
    <2>4. ASSUME NEW d \in Clients PROVE pc'[d] = "write" <=> holder' = d
      BY <1>8 DEF Crash
    <2> QED BY <1>8, <2>1, <2>2, <2>3, <2>4 DEF Crash, Outcomes
  <1>9. ASSUME NEW c \in Clients, Return(c) PROVE TypeOK'
    BY <1>9 DEF Return, Outcomes
  <1>10. CASE UNCHANGED vars
    BY <1>10 DEF vars, control
  <1> QED
    BY <1>1, <1>2, <1>3, <1>4, <1>5, <1>6, <1>7, <1>8, <1>9, <1>10 DEF Next, Working

LEMMA SequenceType == \A v \in Versions : v.sequence \in Nat
  OBVIOUS

LEMMA ObjectNames == \A n \in Names : \E i \in 1..Len(Objects) : n = Objects[i]
  BY DEF Names

(* Steps that touch neither the disk nor the lock: everything before the   *)
(* lock is taken, and returning.                                           *)
LEMMA QuietStep ==
  ASSUME InstallInv, NEW c \in Clients,
         pc[c] # "write", NEW there, there # "write",
         pc' = [pc EXCEPT ![c] = there],
         UNCHANGED <<disk, holder, next, torn>>,
         \A d \in Clients : d # c => held'[d] = held[d]
  PROVE  WriterKnows' /\ ObjectsNeverOlder' /\ ObjectsMatchState'
  <1> USE DEF InstallInv, TypeOK, disk
  <1>1. WriterKnows'
    <2> SUFFICES ASSUME NEW d \in Clients, pc'[d] = "write"
                 PROVE  /\ Acceptable(held[d])'
                        /\ \A i \in 1..Len(Objects) :
                               i < next'[d] /\ Objects[i] # "copy" => file'[Objects[i]] = held'[d]
                        /\ next'[d] = 1 /\ ~torn' => Consistent'
      BY DEF WriterKnows
    <2>1. d # c /\ pc[d] = "write"
      OBVIOUS
    <2> QED BY <2>1 DEF WriterKnows, Acceptable, Consistent
  <1>2. ObjectsNeverOlder' /\ ObjectsMatchState'
    BY DEF ObjectsNeverOlder, ObjectsMatchState
  <1> QED BY <1>1, <1>2

(* While one client writes, no other is between lock and release.          *)
LEMMA OneWriter ==
  ASSUME TypeOK, NEW c \in Clients, NEW d \in Clients, pc[c] = "write", pc[d] = "write"
  PROVE  c = d
  BY DEF TypeOK

LEMMA AcceptStep ==
  ASSUME InstallInv, NEW c \in Clients, Accept(c)
  PROVE  WriterKnows' /\ ObjectsNeverOlder' /\ ObjectsMatchState'
  <1> USE DEF InstallInv, Accept, At, disk
  <1>1. WriterKnows'
    <2> SUFFICES ASSUME NEW d \in Clients, pc'[d] = "write"
                 PROVE  /\ Acceptable(held[d])'
                        /\ \A i \in 1..Len(Objects) :
                               i < next'[d] /\ Objects[i] # "copy" => file'[Objects[i]] = held'[d]
                        /\ next'[d] = 1 /\ ~torn' => Consistent'
      BY DEF WriterKnows
    <2>1. d = c
      BY DEF TypeOK
    <2>2. next'[c] = 1
      BY DEF TypeOK
    <2>3. Acceptable(held[c])'
      BY DEF Acceptable
    <2>4. ~torn => Consistent
      BY DEF ObjectsMatchState, Consistent
    <2> QED BY <2>1, <2>2, <2>3, <2>4 DEF Consistent
  <1>2. ObjectsNeverOlder' /\ ObjectsMatchState'
    BY DEF ObjectsNeverOlder, ObjectsMatchState
  <1> QED BY <1>1, <1>2

LEMMA WriteObjectStep ==
  ASSUME InstallInv, NEW c \in Clients, WriteObject(c)
  PROVE  WriterKnows' /\ ObjectsNeverOlder' /\ ObjectsMatchState'
  <1> USE DEF InstallInv, WriteObject, At
  <1> DEFINE n == Objects[next[c]]
  <1>1. n \in Names /\ next[c] \in 1..Len(Objects)
    BY DEF TypeOK, Names
  <1>2. /\ \A m \in Names : m # n => file'[m] = file[m]
        /\ n # "copy" => file'[n] = held[c]
    BY <1>1 DEF TypeOK
  <1>3. held[c] \in Versions /\ Acceptable(held[c])
    BY DEF Progress, WriterKnows
  <1>4. WriterKnows'
    <2> SUFFICES ASSUME NEW d \in Clients, pc'[d] = "write"
                 PROVE  /\ Acceptable(held[d])'
                        /\ \A i \in 1..Len(Objects) :
                               i < next'[d] /\ Objects[i] # "copy" => file'[Objects[i]] = held'[d]
                        /\ next'[d] = 1 /\ ~torn' => Consistent'
      BY DEF WriterKnows
    <2>1. d = c
      BY DEF TypeOK
    <2>2. next'[c] = next[c] + 1 /\ next'[c] # 1
      BY <1>1 DEF TypeOK
    <2>3. Acceptable(held[c])'
      BY <1>3 DEF Acceptable
    <2>4. ASSUME NEW i \in 1..Len(Objects), i < next[c] + 1, Objects[i] # "copy"
          PROVE  file'[Objects[i]] = held[c]
      <3>1. Objects[i] \in Names
        BY DEF Names
      <3>2. CASE Objects[i] = n
        BY <1>2, <2>4, <3>2
      <3>3. CASE Objects[i] # n
        <4>1. i < next[c]
          BY <1>1, <2>4, <3>3
        <4> QED BY <1>2, <2>4, <3>1, <3>3, <4>1 DEF WriterKnows
      <3> QED BY <3>2, <3>3
    <2> QED BY <2>1, <2>2, <2>3, <2>4
  <1>5. ObjectsNeverOlder'
    <2> SUFFICES ASSUME NEW m \in Names \ {"copy"}, file'[m] # state'
                 PROVE  file'[m] # Nothing /\ (state' = Nothing \/ file'[m].sequence > state'.sequence)
      BY DEF ObjectsNeverOlder
    <2>1. CASE m = n
      BY <1>2, <1>3, <2>1 DEF Acceptable
    <2>2. CASE m # n
      BY <1>2, <2>2 DEF ObjectsNeverOlder
    <2> QED BY <2>1, <2>2
  <1>6. ObjectsMatchState'
    BY DEF ObjectsMatchState, TypeOK
  <1> QED BY <1>4, <1>5, <1>6

(* When all objects are replaced, each holds the writer's version.         *)
LEMMA AllReplaced ==
  ASSUME InstallInv, NEW c \in Clients, pc[c] = "write", next[c] > Len(Objects)
  PROVE  \A n \in Names \ {"copy"} : file[n] = held[c]
  <1> SUFFICES ASSUME NEW n \in Names \ {"copy"} PROVE file[n] = held[c]
    OBVIOUS
  <1>1. PICK i \in 1..Len(Objects) : n = Objects[i]
    BY ObjectNames
  <1>2. i < next[c]
    BY <1>1 DEF InstallInv, TypeOK
  <1> QED BY <1>1, <1>2 DEF InstallInv, WriterKnows

(* The state is replaced, and the lock released.                           *)
LEMMA CommitStep ==
  ASSUME InstallInv, NEW c \in Clients, pc[c] = "write", next[c] > Len(Objects),
         pc' = [pc EXCEPT ![c] = "return"], state' = held[c], UNCHANGED file
  PROVE  WriterKnows' /\ ObjectsNeverOlder' /\ ObjectsMatchState'
  <1>1. WriterKnows'
    <2> SUFFICES ASSUME NEW d \in Clients, pc'[d] = "write" PROVE FALSE
      BY DEF WriterKnows
    <2> QED BY OneWriter DEF InstallInv, TypeOK
  <1>2. \A n \in Names \ {"copy"} : file'[n] = state'
    BY AllReplaced
  <1>3. ObjectsNeverOlder' /\ ObjectsMatchState'
    BY <1>2 DEF ObjectsNeverOlder, ObjectsMatchState
  <1> QED BY <1>1, <1>3

(* The lock is released, or was not held, and the disk is left as it is.   *)
LEMMA AbandonStep ==
  ASSUME InstallInv, NEW c \in Clients, NEW there, there # "write",
         pc' = [pc EXCEPT ![c] = there], UNCHANGED <<disk, held, next>>,
         holder' = IF holder = c THEN Nothing ELSE holder,
         torn' = (torn \/ (pc[c] = "write" /\ next[c] > 1))
  PROVE  WriterKnows' /\ ObjectsNeverOlder' /\ ObjectsMatchState'
  <1> USE DEF disk
  <1>1. ~torn' => ~torn /\ (pc[c] = "write" => ~(next[c] > 1))
    OBVIOUS
  <1>2. WriterKnows'
    <2> SUFFICES ASSUME NEW d \in Clients, pc'[d] = "write"
                 PROVE  /\ Acceptable(held[d])'
                        /\ \A i \in 1..Len(Objects) :
                               i < next'[d] /\ Objects[i] # "copy" => file'[Objects[i]] = held'[d]
                        /\ next'[d] = 1 /\ ~torn' => Consistent'
      BY DEF WriterKnows
    <2>1. pc[d] = "write"
      BY DEF InstallInv, TypeOK
    <2>2. Acceptable(held[d]) /\ (next[d] = 1 /\ ~torn => Consistent)
          /\ \A i \in 1..Len(Objects) :
                 i < next[d] /\ Objects[i] # "copy" => file[Objects[i]] = held[d]
      BY <2>1 DEF InstallInv, WriterKnows
    <2> QED BY <1>1, <2>2 DEF Acceptable, Consistent
  <1>3. ObjectsNeverOlder'
    BY DEF InstallInv, ObjectsNeverOlder
  <1>4. ObjectsMatchState'
    <2> SUFFICES ASSUME holder' = Nothing, ~torn' PROVE Consistent
      BY DEF ObjectsMatchState, Consistent
    <2>1. CASE holder = Nothing
      BY <1>1, <2>1 DEF InstallInv, ObjectsMatchState, Consistent
    <2>2. CASE holder = c
      <3>1. pc[c] = "write"
        BY <2>2 DEF InstallInv, TypeOK
      <3>2. next[c] = 1 /\ ~torn
        <4>1. ~(next[c] > 1) /\ ~torn
          BY <1>1, <3>1
        <4>2. next[c] \in Nat /\ next[c] >= 1
          BY DEF InstallInv, TypeOK
        <4> QED BY <4>1, <4>2
      <3> QED BY <3>1, <3>2 DEF InstallInv, WriterKnows
    <2> QED BY <2>1, <2>2
  <1> QED BY <1>2, <1>3, <1>4

LEMMA WriteFailsStep ==
  ASSUME InstallInv, NEW c \in Clients, WriteFails(c)
  PROVE  WriterKnows' /\ ObjectsNeverOlder' /\ ObjectsMatchState'
  <1>1. /\ pc[c] = "write" /\ pc' = [pc EXCEPT ![c] = "return"]
        /\ holder' = Nothing /\ UNCHANGED <<file, held, next>>
    BY DEF WriteFails, At
  <1>2. holder = c
    BY <1>1 DEF InstallInv, TypeOK
  <1>3. CASE UNCHANGED state /\ torn' = (torn \/ next[c] > 1)
    <2>1. torn' = (torn \/ (pc[c] = "write" /\ next[c] > 1))
      BY <1>1, <1>3
    <2>2. holder' = IF holder = c THEN Nothing ELSE holder
      BY <1>1, <1>2
    <2>3. UNCHANGED <<disk, held, next>>
      BY <1>1, <1>3 DEF disk
    <2> QED BY <1>1, <2>1, <2>2, <2>3, AbandonStep
  <1>4. CASE next[c] > Len(Objects) /\ state' = held[c]
    BY <1>1, <1>4, CommitStep
  <1> QED BY <1>3, <1>4 DEF WriteFails

LEMMA StateStep ==
  InstallInv /\ [Next]_vars => WriterKnows' /\ ObjectsNeverOlder' /\ ObjectsMatchState'
  <1> SUFFICES ASSUME InstallInv, [Next]_vars
               PROVE  WriterKnows' /\ ObjectsNeverOlder' /\ ObjectsMatchState'
    OBVIOUS
  <1> USE DEF At
  <1>1. ASSUME NEW c \in Clients, Begin(c) \/ Return(c)
        PROVE  WriterKnows' /\ ObjectsNeverOlder' /\ ObjectsMatchState'
    <2>1. PICK there \in {"fetch", "idle"} : pc' = [pc EXCEPT ![c] = there]
      BY <1>1 DEF Begin, Return
    <2>2. pc[c] # "write" /\ UNCHANGED <<disk, holder, held, next, torn>>
      BY <1>1 DEF Begin, Return
    <2> QED BY <2>1, <2>2, QuietStep
  <1>2. ASSUME NEW c \in Clients, NEW v \in Versions, Fetch(c, v)
        PROVE  WriterKnows' /\ ObjectsNeverOlder' /\ ObjectsMatchState'
    <2>1. /\ pc[c] # "write" /\ pc' = [pc EXCEPT ![c] = "lock"]
          /\ UNCHANGED <<disk, holder, next, torn>>
      BY <1>2 DEF Fetch
    <2>2. \A d \in Clients : d # c => held'[d] = held[d]
      BY <1>2 DEF Fetch, InstallInv, TypeOK
    <2> QED BY <2>1, <2>2, QuietStep
  <1>3. ASSUME NEW c \in Clients, FetchFails(c) \/ LockBusy(c) \/ Reject(c)
        PROVE  WriterKnows' /\ ObjectsNeverOlder' /\ ObjectsMatchState'
    <2>1. /\ pc[c] # "write" /\ pc' = [pc EXCEPT ![c] = "return"]
          /\ UNCHANGED <<disk, holder, held, next, torn>>
      BY <1>3 DEF FetchFails, LockBusy, Reject
    <2> QED BY <2>1, QuietStep
  <1>4. ASSUME NEW c \in Clients, WriteState(c)
        PROVE  WriterKnows' /\ ObjectsNeverOlder' /\ ObjectsMatchState'
    BY <1>4, CommitStep DEF WriteState
  <1>5. ASSUME NEW c \in Clients, Crash(c)
        PROVE  WriterKnows' /\ ObjectsNeverOlder' /\ ObjectsMatchState'
    BY <1>5, AbandonStep DEF Crash
  <1>6. CASE UNCHANGED vars
    BY <1>6 DEF vars, control, disk, InstallInv, WriterKnows, Acceptable, Consistent,
                ObjectsNeverOlder, ObjectsMatchState
  <1> QED
    BY <1>1, <1>2, <1>3, <1>4, <1>5, <1>6, AcceptStep, WriteObjectStep, WriteFailsStep
    DEF Next, Working

LEMMA ProgressStep == InstallInv /\ [Next]_vars => Progress'
  <1> SUFFICES ASSUME InstallInv, [Next]_vars, NEW d \in Clients
               PROVE  /\ pc'[d] = "return" <=> outcome'[d] # "none"
                      /\ pc'[d] \in {"lock", "write"} => held'[d] \in Versions
    BY DEF Progress
  <1> USE DEF InstallInv, TypeOK, Progress, At, Ends
  <1>1. ASSUME NEW c \in Clients, Begin(c) \/ FetchFails(c) \/ LockBusy(c) \/ Reject(c) \/ Return(c)
        PROVE  /\ pc'[d] = "return" <=> outcome'[d] # "none"
               /\ pc'[d] \in {"lock", "write"} => held'[d] \in Versions
    BY <1>1 DEF Begin, FetchFails, LockBusy, Reject, Return
  <1>2. ASSUME NEW c \in Clients, NEW v \in Versions, Fetch(c, v)
        PROVE  /\ pc'[d] = "return" <=> outcome'[d] # "none"
               /\ pc'[d] \in {"lock", "write"} => held'[d] \in Versions
    BY <1>2 DEF Fetch
  <1>3. ASSUME NEW c \in Clients, Accept(c) \/ WriteObject(c)
        PROVE  /\ pc'[d] = "return" <=> outcome'[d] # "none"
               /\ pc'[d] \in {"lock", "write"} => held'[d] \in Versions
    BY <1>3 DEF Accept, WriteObject
  <1>4. ASSUME NEW c \in Clients, WriteState(c) \/ WriteFails(c)
        PROVE  /\ pc'[d] = "return" <=> outcome'[d] # "none"
               /\ pc'[d] \in {"lock", "write"} => held'[d] \in Versions
    BY <1>4 DEF WriteState, WriteFails
  <1>5. ASSUME NEW c \in Clients, Crash(c)
        PROVE  /\ pc'[d] = "return" <=> outcome'[d] # "none"
               /\ pc'[d] \in {"lock", "write"} => held'[d] \in Versions
    BY <1>5 DEF Crash
  <1>6. CASE UNCHANGED vars
    BY <1>6 DEF vars, control
  <1> QED BY <1>1, <1>2, <1>3, <1>4, <1>5, <1>6 DEF Next, Working

(* What a committing step does to the state.                               *)
LEMMA CommitAdvances ==
  ASSUME InstallInv, NEW c \in Clients, pc[c] = "write", state' = held[c]
  PROVE  /\ state' \in Versions
         /\ state # Nothing => state' = state \/ state.sequence < state'.sequence
  BY DEF InstallInv, Progress, WriterKnows, Acceptable, TypeOK, Maybe

LEMMA StateMoves ==
  InstallInv /\ [Next]_vars =>
      \/ UNCHANGED state
      \/ /\ state' \in Versions
         /\ state # Nothing => state' = state \/ state.sequence < state'.sequence
  <1> SUFFICES ASSUME InstallInv, [Next]_vars, state' # state
               PROVE  /\ state' \in Versions
                      /\ state # Nothing => state' = state \/ state.sequence < state'.sequence
    OBVIOUS
  <1>1. PICK c \in Clients : WriteState(c) \/ WriteFails(c)
    BY DEF Next, Working, vars, disk, control, Begin, Fetch, FetchFails, LockBusy, Reject,
           Accept, WriteObject, Crash, Return
  <1>2. pc[c] = "write" /\ state' = held[c]
    BY <1>1 DEF WriteState, WriteFails, At
  <1> QED BY <1>2, CommitAdvances

LEMMA ReportStep == InstallInv /\ [Next]_vars => ReportedIsCommitted'
  <1> SUFFICES ASSUME InstallInv, [Next]_vars, NEW d \in Clients,
                      outcome'[d] \in {"installed", "unchanged"}
               PROVE  /\ state' # Nothing /\ held'[d] # Nothing
                      /\ held'[d] = state' \/ held'[d].sequence < state'.sequence
    BY DEF ReportedIsCommitted
  <1> USE DEF At, Ends
  <1>1. CASE \E c \in Clients : WriteState(c) /\ d = c
    BY <1>1 DEF WriteState, InstallInv, Progress
  <1>2. CASE ~\E c \in Clients : WriteState(c) /\ d = c
    <2>1. outcome[d] = outcome'[d] /\ held'[d] = held[d]
      <3>1. CASE UNCHANGED vars
        BY <3>1 DEF vars, control
      <3>2. ASSUME NEW c \in Clients, NEW v \in Versions, Fetch(c, v)
            PROVE  outcome[d] = outcome'[d] /\ held'[d] = held[d]
        <4>1. d # c
          BY <3>2 DEF Fetch, InstallInv, Progress
        <4> QED BY <3>2, <4>1 DEF Fetch, InstallInv, TypeOK
      <3>3. ASSUME NEW c \in Clients, Begin(c) \/ Accept(c) \/ WriteObject(c)
            PROVE  outcome[d] = outcome'[d] /\ held'[d] = held[d]
        BY <3>3 DEF Begin, Accept, WriteObject
      <3>4. ASSUME NEW c \in Clients,
                   FetchFails(c) \/ LockBusy(c) \/ Reject(c) \/ WriteState(c) \/ Crash(c) \/ Return(c)
            PROVE  outcome[d] = outcome'[d] /\ held'[d] = held[d]
        BY <1>2, <3>4 DEF FetchFails, LockBusy, Reject, WriteState, Crash, Return,
                          InstallInv, TypeOK
      <3>5. ASSUME NEW c \in Clients, WriteFails(c)
            PROVE  outcome[d] = outcome'[d] /\ held'[d] = held[d]
        BY <3>5 DEF WriteFails, InstallInv, TypeOK
      <3> QED BY <3>1, <3>2, <3>3, <3>4, <3>5 DEF Next, Working
    <2>2. /\ state # Nothing /\ held[d] \in Versions
          /\ held[d] = state \/ held[d].sequence < state.sequence
      BY <2>1 DEF InstallInv, ReportedIsCommitted, TypeOK, Maybe
    <2>3. state \in Versions
      BY <2>2 DEF InstallInv, TypeOK, Maybe
    <2>4. /\ state' \in Versions
          /\ state' = state \/ state.sequence < state'.sequence
      BY <2>2, <2>3, StateMoves
    <2>5. held[d] = state' \/ held[d].sequence < state'.sequence
      BY <2>2, <2>3, <2>4, SequenceType
    <2> QED BY <2>1, <2>2, <2>4, <2>5
  <1> QED BY <1>1, <1>2

LEMMA InstallStep == InstallInv /\ [Next]_vars => InstallInv'
  BY InstallType, ProgressStep, StateStep, ReportStep DEF InstallInv

(* Every variable keeps its type, and exactly the client between the       *)
(* taking and the release of the lock writes.                              *)
THEOREM TypeCorrect == Spec => []TypeOK
  <1>1. Init => TypeOK
    BY InstallInit DEF InstallInv
  <1> QED BY <1>1, InstallType, PTL DEF Spec

THEOREM InstallInvariant == Spec => []InstallInv
  BY InstallInit, InstallStep, PTL DEF Spec

(* install_feed, install_intelligence_envelope: no object is ever older    *)
(* than the rollback state, through any crashes and retries.               *)
THEOREM NeverOlder == Spec => []ObjectsNeverOlder
  <1>1. InstallInv => ObjectsNeverOlder
    BY DEF InstallInv
  <1> QED BY <1>1, InstallInvariant, PTL

(* Only an installation that was cut short leaves objects that differ.     *)
THEOREM ObjectsMatch == Spec => []ObjectsMatchState
  <1>1. InstallInv => ObjectsMatchState
    BY DEF InstallInv
  <1> QED BY <1>1, InstallInvariant, PTL

(* Whoever reports success has committed what it reports.                  *)
THEOREM ReportsAreTrue == Spec => []ReportedIsCommitted
  <1>1. InstallInv => ReportedIsCommitted
    BY DEF InstallInv
  <1> QED BY <1>1, InstallInvariant, PTL

(* install_feed, install_intelligence_envelope: the objects and the        *)
(* reports are sound for any number of clients, readers and faults.        *)
THEOREM InstallationsAreSound == Spec => []InstalledIsSound
  BY NeverOlder, ObjectsMatch, ReportsAreTrue, PTL DEF InstalledIsSound

(* The rollback state never goes back, and never to other content under    *)
(* the same sequence number.                                               *)
THEOREM NoRollback == Spec => StateOnlyAdvances
  <1>1. InstallInv /\ [Next]_vars =>
          [state' # state => state' # Nothing /\ (state = Nothing \/ state'.sequence > state.sequence)]_vars
    <2> SUFFICES ASSUME InstallInv, [Next]_vars, state' # state
                 PROVE  state' # Nothing /\ (state = Nothing \/ state'.sequence > state.sequence)
      OBVIOUS
    <2>1. /\ state' \in Versions
          /\ state # Nothing => state.sequence < state'.sequence
      BY StateMoves
    <2>2. state # Nothing => state \in Versions
      BY DEF InstallInv, TypeOK, Maybe
    <2> QED BY <2>1, <2>2, SequenceType
  <1> QED BY <1>1, InstallInvariant, PTL DEF Spec, StateOnlyAdvances

-----------------------------------------------------------------------------

FeedInv ==
    /\ InstallInv
    /\ seen \in [Readers -> Maybe] /\ document \in [Readers -> Maybe]

LEMMA FeedInitInv == FeedInit => FeedInv
  BY InstallInit DEF FeedInit, FeedInv, Maybe

(* A reader changes nothing but its own state.                             *)
LEMMA InspectLeaves ==
  ASSUME NEW r \in Readers, Inspect(r)
  PROVE  UNCHANGED vars
  BY DEF Inspect, LookForDocument, LookForState, Distrust, ReadDocument, Compare

LEMMA InspectStep ==
  ASSUME FeedInv, NEW r \in Readers, Inspect(r)
  PROVE  /\ seen' \in [Readers -> Maybe] /\ document' \in [Readers -> Maybe]
         /\ \/ seen' = seen
            \/ seen' = [seen EXCEPT ![r] = state]
            \/ seen' = [seen EXCEPT ![r] = Nothing]
  <1> USE DEF FeedInv, Concludes, Maybe
  <1>1. CASE LookForDocument(r)
    BY <1>1 DEF LookForDocument
  <1>2. CASE LookForState(r)
    BY <1>2 DEF LookForState
  <1>3. CASE Distrust(r)
    BY <1>3 DEF Distrust
  <1>4. CASE ReadDocument(r)
    <2>1. file["document"] \in Maybe
      BY ReaderAssumption DEF InstallInv, TypeOK
    <2> QED BY <1>4, <2>1 DEF ReadDocument
  <1>5. CASE Compare(r)
    BY <1>5 DEF Compare
  <1> QED BY <1>1, <1>2, <1>3, <1>4, <1>5 DEF Inspect

LEMMA FeedStep == FeedInv /\ [FeedNext]_feedVars => FeedInv'
  <1> SUFFICES ASSUME FeedInv, [FeedNext]_feedVars PROVE FeedInv'
    OBVIOUS
  <1>1. CASE Next /\ UNCHANGED reading
    BY <1>1, InstallStep DEF FeedInv, reading
  <1>2. ASSUME NEW r \in Readers, Inspect(r) PROVE FeedInv'
    <2>1. InstallInv'
      BY <1>2, InspectLeaves, InstallStep DEF FeedInv
    <2> QED BY <1>2, <2>1, InspectStep DEF FeedInv
  <1>3. CASE UNCHANGED feedVars
    BY <1>3, InstallStep DEF FeedInv, feedVars, reading
  <1> QED BY <1>1, <1>2, <1>3 DEF FeedNext

(* A reader of the feed, at any moment and without the lock, is given the  *)
(* committed version or none; the committed version only advances.         *)
THEOREM FeedIsRegister == FeedSpec => ImplementsRegister
  <1>1. FeedInit => Register!Init
    BY DEF FeedInit, Init, Register!Init
  <1>2. FeedInv /\ [FeedNext]_feedVars => [Register!Next]_(Register!vars)
    <2> SUFFICES ASSUME FeedInv, [FeedNext]_feedVars PROVE [Register!Next]_(Register!vars)
      OBVIOUS
    <2> USE DEF Register!vars
    <2>1. CASE Next /\ UNCHANGED reading
      <3>1. CASE UNCHANGED state
        BY <2>1, <3>1 DEF reading
      <3>2. CASE state' # state
        <4>1. state' \in Versions /\ (state # Nothing => state.sequence < state'.sequence)
          BY <2>1, <3>2, StateMoves DEF FeedInv
        <4>2. state # Nothing => state'.sequence > state.sequence
          BY <4>1, SequenceType DEF FeedInv, InstallInv, TypeOK, Maybe
        <4>3. Register!Advance(state')
          BY <2>1, <4>2 DEF Register!Advance, Register!Newer, reading
        <4> QED BY <4>1, <4>3 DEF Register!Next
      <3> QED BY <3>1, <3>2
    <2>2. ASSUME NEW r \in Readers, Inspect(r) PROVE [Register!Next]_(Register!vars)
      <3>1. UNCHANGED state
        BY <2>2, InspectLeaves DEF vars, disk
      <3>2. CASE seen' = seen
        BY <3>1, <3>2
      <3>3. CASE seen' = [seen EXCEPT ![r] = state]
        BY <3>1, <3>3 DEF Register!Read, Register!Next
      <3>4. CASE seen' = [seen EXCEPT ![r] = Nothing]
        BY <3>1, <3>4 DEF Register!Refuse, Register!Next
      <3> QED BY <2>2, <3>2, <3>3, <3>4, InspectStep
    <2>3. CASE UNCHANGED feedVars
      BY <2>3 DEF feedVars, vars, disk, reading
    <2> QED BY <2>1, <2>2, <2>3 DEF FeedNext
  <1> QED BY <1>1, <1>2, FeedInitInv, FeedStep, PTL DEF FeedSpec, ImplementsRegister, Register!Spec

-----------------------------------------------------------------------------

(* A version is committed, or was and has been superseded.                 *)
Committed(v, s) ==
    v # Nothing => /\ v \in Versions /\ s # Nothing
                   /\ v = s \/ v.sequence < s.sequence

(* The invariant must also speak of what each updater has read, since a    *)
(* failing one writes that back.                                           *)
ClientInv ==
    /\ InstallInv
    /\ loaded \in [Clients -> Maybe]
    /\ record \in [result : Outcomes, version : Maybe]
    /\ Committed(record.version, state)
    /\ \A c \in Clients : Committed(loaded[c], state)

LEMMA ClientInitInv == ClientInit => ClientInv
  BY InstallInit DEF ClientInit, ClientInv, Committed, Maybe, Outcomes

LEMMA CommittedStays ==
  ASSUME InstallInv, [Next]_vars, NEW v, Committed(v, state)
  PROVE  Committed(v, state')
  <1> SUFFICES ASSUME v # Nothing
               PROVE  /\ v \in Versions /\ state' # Nothing
                      /\ v = state' \/ v.sequence < state'.sequence
    BY DEF Committed
  <1>1. v \in Versions /\ state # Nothing /\ (v = state \/ v.sequence < state.sequence)
    BY DEF Committed
  <1>2. state \in Versions
    BY <1>1 DEF InstallInv, TypeOK, Maybe
  <1>3. state' \in Versions /\ (state' = state \/ state.sequence < state'.sequence)
    BY <1>1, <1>2, StateMoves
  <1>4. v.sequence \in Nat /\ state.sequence \in Nat /\ state'.sequence \in Nat
    BY <1>1, <1>2, <1>3, SequenceType
  <1>5. state' # Nothing
    BY <1>3, InstallAssumption DEF InstallAssumption
  <1>6. CASE state' = state
    BY <1>1, <1>5, <1>6
  <1>7. CASE state.sequence < state'.sequence
    <2>1. v.sequence < state'.sequence
      BY <1>1, <1>4, <1>7
    <2> QED BY <1>1, <1>5, <2>1
  <1> QED BY <1>3, <1>6, <1>7

LEMMA ClientStep == ClientInv /\ [ClientNext]_clientVars => ClientInv'
  <1> SUFFICES ASSUME ClientInv, [ClientNext]_clientVars PROVE ClientInv'
    OBVIOUS
  <1> USE DEF ClientInv
  <1>1. [Next]_vars
    BY DEF ClientNext, clientVars, LoadStatus, Report, Next
  <1>2. InstallInv'
    BY <1>1, InstallStep
  <1>4. ASSUME NEW c \in Clients, LoadStatus(c) PROVE ClientInv'
    <2>1. UNCHANGED record /\ loaded' = [loaded EXCEPT ![c] = record.version]
      BY <1>4 DEF LoadStatus
    <2>2. UNCHANGED state
      BY <1>4 DEF LoadStatus, Begin, disk
    <2> QED BY <1>2, <2>1, <2>2 DEF Committed
  <1>5. ASSUME NEW c \in Clients, Report(c) PROVE ClientInv'
    <2>1. /\ UNCHANGED <<loaded, state, held>>
          /\ outcome[c] \in Outcomes /\ pc[c] = "return"
          /\ record' = [result |-> outcome[c],
                        version |-> IF outcome[c] = "failed" THEN loaded[c] ELSE held[c]]
      BY <1>5 DEF Report, Return, disk, At, InstallInv, TypeOK
    <2>2. \A d \in Clients : Committed(loaded'[d], state')
      BY <2>1 DEF Committed
    <2>3. CASE outcome[c] = "failed"
      BY <1>2, <2>1, <2>2, <2>3 DEF Committed
    <2>4. CASE outcome[c] \in {"installed", "unchanged"}
      <3>1. held[c] \in Versions /\ Committed(held[c], state)
        BY <2>4 DEF InstallInv, ReportedIsCommitted, Committed, TypeOK, Maybe
      <3> QED BY <1>2, <2>1, <2>2, <2>4, <3>1 DEF Committed, Maybe
    <2>5. outcome[c] # "none"
      BY <2>1 DEF InstallInv, Progress
    <2> QED BY <2>1, <2>3, <2>4, <2>5 DEF Outcomes
  <1>6. CASE UNCHANGED <<record, loaded>>
    <2>1. Committed(record'.version, state')
      BY <1>1, <1>6, CommittedStays
    <2>2. ASSUME NEW d \in Clients PROVE Committed(loaded'[d], state')
      BY <1>1, <1>6, CommittedStays
    <2> QED BY <1>2, <1>6, <2>1, <2>2
  <1> QED BY <1>4, <1>5, <1>6 DEF ClientNext, clientVars

(* run_automatic_update: whichever updater wrote the record last, and      *)
(* whatever it had read, the success it shows was committed.               *)
THEOREM StatusIsTrue == ClientSpec => []StatusIsCommitted
  <1>1. ClientInv => StatusIsCommitted
    BY DEF ClientInv, Committed, StatusIsCommitted
  <1> QED BY <1>1, ClientInitInv, ClientStep, PTL DEF ClientSpec
=============================================================================
