-------------------------- MODULE DesktopTasksProofs --------------------------
(***************************************************************************)
(* Proofs about DesktopTasks, for any number of threads and any number of  *)
(* scans, acts and faults: the work in hand is counted and held, and the   *)
(* cards say what is known; and about the documents of EngineDocuments and *)
(* CompanionDocuments, which the two sides write and read.                 *)
(***************************************************************************)
EXTENDS DesktopTasks, FiniteSetTheorems, SequenceTheorems, TLAPS

USE TasksAssumption, NothingAssumption DEF TasksAssumption, NothingAssumption

(* After the exit nothing waits and nothing is asked.                      *)
ExitIsFinal == closing => queue = <<>> /\ ~dialog

(* The event that the application holds is that of a scan under way, even  *)
(* when another scan has lost its own.                                     *)
EventIsOfAScan == ~closing /\ scanEvent # 0 => Pending("scan") > 0

HeldInv ==
    /\ ExitIsFinal
    /\ EventIsOfAScan
    /\ BusyIsCounted /\ ScanIsHeld /\ ExitCancels /\ RefreshIsHeld /\ OneMaintenance

(* What the card of the last scan should say.                              *)
Saved == StatusPresentation(StatusAnswer(lastScan, "valid", 0, 0, Nothing).doc)
Agrees(card) == card \in {"failed", Saved}

(* While no scan is under way, which would be followed by a new reading,   *)
(* and the last reading was begun alone, every reading under way says what *)
(* the last scan has saved, and so does the card when there is none.       *)
Settled == started /\ ~closing /\ ~old /\ Pending("scan") = 0
Agreed ==
    /\ \A t \in Threads : running[t].kind = "status" =>
           running[t].phase \in {"runs", "hangs"} \/ Agrees(running[t].phase)
    /\ \A i \in 1..Len(ready) : ready[i].kind = "status" => Agrees(ready[i].answer)
    /\ Pending("status") = 0 => Agrees(scanCard)
ReadingsAgree == Settled => Agreed
-----------------------------------------------------------------------------
(* Counting. The jobs of a kind in a sequence, or of the threads, are      *)
(* finitely many; they add up when sequences are joined, and change with   *)
(* one thread.                                                             *)
At(jobs, kind) == {i \in DOMAIN jobs : jobs[i].kind = kind}
One(job, kind) == IF job.kind = kind THEN 1 ELSE 0
With(f, t, job) == [f EXCEPT ![t] = job]
Busy(f) == Cardinality({t \in Threads : f[t] # Idle})

LEMMA CountIsOfPlaces == \A jobs, kind : Count(jobs, kind) = Cardinality(At(jobs, kind))
BY DEF Count, At

LEMMA CountOfSequence ==
    ASSUME NEW X, NEW jobs \in Seq(X), NEW kind
    PROVE  /\ IsFiniteSet(At(jobs, kind)) /\ Count(jobs, kind) \in Nat
           /\ \A i \in 1..Len(jobs) : jobs[i].kind = kind => Count(jobs, kind) > 0
           /\ Count(jobs, kind) > 0 => \E i \in 1..Len(jobs) : jobs[i].kind = kind
<1>1. IsFiniteSet(1..Len(jobs)) /\ At(jobs, kind) \subseteq 1..Len(jobs)
  <2>1. DOMAIN jobs = 1..Len(jobs) /\ Len(jobs) \in Nat  BY LenProperties
  <2>2. QED  BY <2>1, FS_Interval DEF At
<1>2. IsFiniteSet(At(jobs, kind))  BY <1>1, FS_Subset
<1>3. Cardinality(At(jobs, kind)) \in Nat /\ (Cardinality(At(jobs, kind)) = 0 <=> At(jobs, kind) = {})
  BY <1>2, FS_CardinalityType, FS_EmptySet
<1>4. \A i \in 1..Len(jobs) : i \in At(jobs, kind) <=> jobs[i].kind = kind  BY LenProperties DEF At
<1>5. Count(jobs, kind) \in Nat /\ (Count(jobs, kind) > 0 <=> At(jobs, kind) # {})
  <2>1. \A n \in Nat : n > 0 <=> ~(n = 0)  OBVIOUS
  <2>2. QED  BY <1>3, <2>1, CountIsOfPlaces
<1>6. QED  BY <1>1, <1>2, <1>4, <1>5

LEMMA CountOfNone == \A kind : Count(<<>>, kind) = 0
BY FS_EmptySet DEF Count

LEMMA CountOfOne == ASSUME NEW job, NEW kind PROVE Count(<<job>>, kind) = One(job, kind)
<1>1. At(<<job>>, kind) = IF job.kind = kind THEN {1} ELSE {}  BY DEF At
<1>2. QED  BY <1>1, FS_EmptySet, FS_Singleton DEF At, Count, One

LEMMA CountOfJoined ==
    ASSUME NEW X, NEW s \in Seq(X), NEW t \in Seq(X), NEW kind
    PROVE  Count(s \o t, kind) = Count(s, kind) + Count(t, kind)
<1> DEFINE A == At(s, kind)
           B == At(t, kind)
           C == {i + Len(s) : i \in B}
           f == [i \in B |-> i + Len(s)]
<1>1. IsFiniteSet(A) /\ IsFiniteSet(B)  BY CountOfSequence
<1>2. A \subseteq 1..Len(s) /\ B \subseteq 1..Len(t) /\ Len(s) \in Nat /\ Len(t) \in Nat  BY DEF At
<1>3. At(s \o t, kind) = A \cup C
  <2>1. ASSUME NEW i \in 1..(Len(s) + Len(t)) PROVE i \in At(s \o t, kind) <=> i \in A \cup C
    <3>1. i \in At(s \o t, kind) <=> (s \o t)[i].kind = kind  BY ConcatProperties DEF At
    <3>2. CASE i <= Len(s)
      <4>1. (s \o t)[i] = s[i]  BY <3>2, ConcatProperties
      <4>2. i \notin C  BY <1>2, <3>2
      <4>3. i \in A <=> s[i].kind = kind  BY <3>2 DEF At
      <4>4. QED  BY <3>1, <4>1, <4>2, <4>3
    <3>3. CASE i > Len(s)
      <4>1. (s \o t)[i] = t[i - Len(s)]  BY <3>3, ConcatProperties
      <4>2. i \notin A  BY <1>2, <3>3
      <4>3. i - Len(s) \in 1..Len(t) /\ i = (i - Len(s)) + Len(s)  BY <3>3
      <4>4. i \in C <=> i - Len(s) \in B  BY <1>2, <4>3
      <4>5. i - Len(s) \in B <=> t[i - Len(s)].kind = kind  BY <4>3 DEF At
      <4>6. QED  BY <3>1, <4>1, <4>2, <4>4, <4>5
    <3>4. QED  BY <3>2, <3>3
  <2>2. At(s \o t, kind) \subseteq 1..(Len(s) + Len(t))  BY ConcatProperties DEF At
  <2>3. A \subseteq 1..(Len(s) + Len(t)) /\ C \subseteq 1..(Len(s) + Len(t))  BY <1>2
  <2>4. QED  BY <2>1, <2>2, <2>3
<1>4. A \cap C = {}  BY <1>2
<1>5. f \in Bijection(B, C)
  <2>1. f \in [B -> C] /\ \A c \in C : \E i \in B : f[i] = c  OBVIOUS
  <2>2. \A i, j \in B : f[i] = f[j] => i = j  BY <1>2
  <2>3. QED
    <3> HIDE DEF f, B, C
    <3>1. f \in Injection(B, C)  BY <2>1, <2>2, Zenon DEF Injection, IsInjective
    <3>2. f \in Surjection(B, C)  BY <2>1, Zenon DEF Surjection
    <3>3. QED  BY <3>1, <3>2, Zenon DEF Bijection
<1>6. IsFiniteSet(C) /\ Cardinality(C) = Cardinality(B)
  BY <1>1, <1>5, FS_Bijection DEF ExistsBijection
<1>7. Cardinality(A \cup C) = Cardinality(A) + Cardinality(C) - 0  BY <1>1, <1>4, <1>6, FS_Union, FS_EmptySet
<1>8. Cardinality(A) \in Nat /\ Cardinality(B) \in Nat  BY <1>1, FS_CardinalityType
<1>9. /\ Count(s \o t, kind) = Cardinality(A \cup C)
      /\ Count(s, kind) = Cardinality(A) /\ Count(t, kind) = Cardinality(B)
  BY <1>3, CountIsOfPlaces
<1> HIDE DEF A, B, C
<1>10. QED  BY <1>6, <1>7, <1>8, <1>9

LEMMA CountOfTail ==
    ASSUME NEW X, NEW s \in Seq(X), s # <<>>, NEW kind
    PROVE  Count(Tail(s), kind) = Count(s, kind) - One(Head(s), kind)
<1>1. s = <<Head(s)>> \o Tail(s) /\ <<Head(s)>> \in Seq(X) /\ Tail(s) \in Seq(X)
  <2> DEFINE h == <<Head(s)>>
             t == Tail(s)
  <2>1. Len(s) \in Nat /\ Len(s) > 0  BY EmptySeq
  <2>2. /\ Head(s) \in X /\ t \in Seq(X) /\ Len(t) = Len(s) - 1
        /\ \A i \in 1..Len(t) : t[i] = s[i + 1]
    BY HeadTailProperties
  <2>3. h \in Seq(X) /\ Len(h) = 1 /\ h[1] = s[1]  BY <2>2
  <2> HIDE DEF h, t
  <2>4. /\ h \o t \in Seq(X) /\ Len(h \o t) = Len(h) + Len(t)
        /\ \A i \in 1..Len(h) + Len(t) : (h \o t)[i] = IF i <= Len(h) THEN h[i] ELSE t[i - Len(h)]
    BY <2>2, <2>3, ConcatProperties
  <2>5. Len(h \o t) = Len(s)  BY <2>1, <2>2, <2>3, <2>4
  <2>6. \A i \in 1..Len(s) : (h \o t)[i] = s[i]  BY <2>1, <2>2, <2>3, <2>4
  <2>7. h \o t = s  BY <2>4, <2>5, <2>6, SeqEqual
  <2>8. QED  BY <2>2, <2>3, <2>7 DEF h, t
<1>2. Count(s, kind) = Count(<<Head(s)>>, kind) + Count(Tail(s), kind)  BY <1>1, CountOfJoined
<1>3. Count(<<Head(s)>>, kind) = One(Head(s), kind)  BY CountOfOne
<1>4. Count(s, kind) \in Nat /\ Count(Tail(s), kind) \in Nat /\ One(Head(s), kind) \in Nat
  BY <1>1, CountOfSequence DEF One
<1>5. QED  BY <1>2, <1>3, <1>4

LEMMA CountOfAppended ==
    ASSUME NEW X, NEW s \in Seq(X), NEW job \in X, NEW kind
    PROVE  Count(Append(s, job), kind) = Count(s, kind) + One(job, kind)
<1>1. Append(s, job) = s \o <<job>>  BY AppendIsConcat
<1> DEFINE last == <<job>>
<1>2. last \in Seq(X)  OBVIOUS
<1>3. Count(last, kind) = One(job, kind)  BY CountOfOne
<1> HIDE DEF last
<1>4. Count(s \o last, kind) = Count(s, kind) + Count(last, kind)  BY <1>2, CountOfJoined
<1>5. QED  BY <1>1, <1>3, <1>4 DEF last

LEMMA CountOfThreads ==
    ASSUME NEW X, NEW f \in [Threads -> X], NEW kind
    PROVE  /\ IsFiniteSet(At(f, kind)) /\ Count(f, kind) \in Nat
           /\ \A t \in Threads : f[t].kind = kind => Count(f, kind) > 0
<1>1. IsFiniteSet(Threads) /\ At(f, kind) \subseteq Threads  BY FS_Interval DEF At, Threads
<1>2. IsFiniteSet(At(f, kind))  BY <1>1, FS_Subset
<1>3. Cardinality(At(f, kind)) \in Nat /\ (Cardinality(At(f, kind)) = 0 <=> At(f, kind) = {})
  BY <1>2, FS_CardinalityType, FS_EmptySet
<1>4. \A t \in Threads : t \in At(f, kind) <=> f[t].kind = kind  BY DEF At
<1>5. Count(f, kind) \in Nat /\ (Count(f, kind) > 0 <=> At(f, kind) # {})
  <2>1. \A n \in Nat : n > 0 <=> ~(n = 0)  OBVIOUS
  <2>2. QED  BY <1>3, <2>1, CountIsOfPlaces
<1>6. QED  BY <1>2, <1>4, <1>5

LEMMA CountOfChanged ==
    ASSUME NEW X, NEW f \in [Threads -> X], NEW t \in Threads, NEW job \in X, NEW kind
    PROVE  Count(With(f, t, job), kind) = Count(f, kind) - One(f[t], kind) + One(job, kind)
<1> DEFINE g == With(f, t, job)
           D == At(f, kind) \ {t}
<1>1. IsFiniteSet(At(f, kind)) /\ Cardinality(At(f, kind)) \in Nat  BY CountOfThreads, FS_CardinalityType
<1>2. IsFiniteSet(D) /\ Cardinality(D) = Cardinality(At(f, kind)) - One(f[t], kind)
  <2>1. t \in At(f, kind) <=> f[t].kind = kind  BY DEF At
  <2>2. IsFiniteSet(D) /\ Cardinality(D) = IF t \in At(f, kind) THEN Cardinality(At(f, kind)) - 1
                                           ELSE Cardinality(At(f, kind))
    BY <1>1, FS_RemoveElement
  <2>3. QED  BY <1>1, <2>1, <2>2 DEF One
<1>3. At(g, kind) = IF job.kind = kind THEN D \cup {t} ELSE D  BY DEF At, With
<1>4. Cardinality(At(g, kind)) = Cardinality(D) + One(job, kind)
  <2>1. t \notin D  OBVIOUS
  <2>2. Cardinality(D) \in Nat  BY <1>2, FS_CardinalityType
  <2>3. Cardinality(D \cup {t}) = Cardinality(D) + 1  BY <1>2, <2>1, FS_AddElement
  <2>4. QED  BY <1>3, <2>2, <2>3 DEF One
<1>5. QED  BY <1>2, <1>4, CountIsOfPlaces

LEMMA BusyIsFinite ==
    \A f : IsFiniteSet({t \in Threads : f[t] # Idle}) /\ Busy(f) \in Nat
<1>1. IsFiniteSet(Threads)  BY FS_Interval DEF Threads
<1>2. \A f : {t \in Threads : f[t] # Idle} \subseteq Threads  OBVIOUS
<1>3. \A f : IsFiniteSet({t \in Threads : f[t] # Idle})  BY <1>1, <1>2, FS_Subset
<1>4. QED  BY <1>3, FS_CardinalityType DEF Busy

LEMMA WorkingOfChanged ==
    ASSUME NEW X, NEW f \in [Threads -> X], NEW t \in Threads, NEW job \in X
    PROVE  Busy(With(f, t, job)) = Busy(f) - (IF f[t] = Idle THEN 0 ELSE 1)
                                           + (IF job = Idle THEN 0 ELSE 1)
<1> DEFINE A == {u \in Threads : f[u] # Idle}
           D == A \ {t}
           B == {u \in Threads : With(f, t, job)[u] # Idle}
<1>1. IsFiniteSet(A)  BY BusyIsFinite
<1>2. IsFiniteSet(D) /\ Cardinality(D) = Cardinality(A) - IF f[t] = Idle THEN 0 ELSE 1
  <2>1. Cardinality(A) \in Nat  BY <1>1, FS_CardinalityType
  <2>2. QED  BY <1>1, <2>1, FS_RemoveElement
<1>3. B = IF job = Idle THEN D ELSE D \cup {t}  BY DEF With
<1>4. Cardinality(B) = Cardinality(D) + IF job = Idle THEN 0 ELSE 1
  <2>1. t \notin D  OBVIOUS
  <2>2. Cardinality(D) \in Nat  BY <1>2, FS_CardinalityType
  <2>3. Cardinality(D \cup {t}) = Cardinality(D) + 1  BY <1>2, <2>1, FS_AddElement
  <2> HIDE DEF B, D
  <2>4. QED  BY <1>3, <2>2, <2>3
<1>5. QED  BY <1>1, <1>2, <1>4, FS_CardinalityType DEF Busy
-----------------------------------------------------------------------------
(* The documents. A scan's summary can be read again, and each side's      *)
(* rules of outcomes and counters agree.                                   *)
LEMMA ScanCounts ==
    ASSUME NEW s \in Scans
    PROVE  /\ s.findings \in 0..2 /\ s.failed \in 0..2 /\ s.observations \in 0..1 /\ s.issues \in 0..1
           /\ s.feed \in Feeds /\ s.failed <= s.findings /\ Issues(s) \in 0..3
BY DEF Scans, Feeds, Issues

LEMMA OutcomeOfScan ==
    ASSUME NEW s \in Scans
    PROVE  /\ Outcome(s) \in Outcomes
           /\ Outcome(s) = "incomplete" <=> Issues(s) > 0 \/ s.feed = "invalid"
           /\ Outcome(s) = "no_configured_rule_matches" <=>
                Issues(s) = 0 /\ s.feed # "invalid" /\ s.findings = 0 /\ s.observations = 0
           /\ Outcome(s) = "configured_rule_matches_detected" <=>
                Issues(s) = 0 /\ s.feed # "invalid" /\ s.findings > 0
           /\ Outcome(s) = "review_observations" <=>
                Issues(s) = 0 /\ s.feed # "invalid" /\ s.findings = 0 /\ s.observations > 0
BY ScanCounts DEF Outcome, Outcomes

(* The answer to check is accepted, and its exit code says what it found.  *)
LEMMA ReportIsAccepted ==
    ASSUME NEW s \in Scans, NEW saved \in BOOLEAN
    PROVE  /\ AcceptsReport(CheckAnswer(s, saved))
           /\ CheckAnswer(s, saved).doc = Report(s, saved)
           /\ CheckAnswer(s, saved).code = IF Report(s, saved).outcome = "incomplete" THEN 2
                                           ELSE IF s.findings > 0 \/ s.observations > 0 THEN 1 ELSE 0
BY OutcomeOfScan DEF AcceptsReport, Accepted, ValidReport, CheckAnswer, Answer, Report, NoDocument,
                     Outcomes

(* Whatever the record of updates holds, what is answered of it is valid.  *)
LEMMA UpdateIsAnswered ==
    ASSUME NEW update \in Updates PROVE ValidUpdate(LoadUpdate(update))
<1>1. Unchecked("never_checked") = LoadUpdate(update) \/ Unchecked("error") = LoadUpdate(update)
      => ValidUpdate(LoadUpdate(update))
  BY DEF Unchecked, ValidUpdate, UpdateStates, SequenceHolds
<1>2. CASE update \in {Nothing, Damaged}  BY <1>1, <1>2, Zenon DEF LoadUpdate
<1>3. CASE update \notin {Nothing, Damaged}
  <2>1. update \in UpdateRecords  BY <1>3 DEF Updates
  <2>2. LoadUpdate(update) = (IF update.state \notin UpdateStates \/ ~SequenceHolds(update.sequence)
                              THEN Unchecked("error")
                              ELSE IF update.own THEN update
                                   ELSE [update EXCEPT !.state = "never_checked", !.own = TRUE])
    BY <1>3, Zenon DEF LoadUpdate
  <2>3. QED  BY <1>1, <2>1, <2>2 DEF ValidUpdate, UpdateRecords, UpdateStates
<1>4. QED  BY <1>2, <1>3

LEMMA NothingIsAnUpdate == Nothing \in Updates
BY DEF Updates

(* What status answers, for what Load has returned.                        *)
LEMMA StatusAnswerOf ==
    ASSUME NEW f, NEW feed, NEW entries, NEW unreadable, NEW update, NEW last, last = Load(f),
           NEW findings, findings = IF last.scan = Nothing THEN 0 ELSE last.scan["findings"],
           NEW observations, observations = IF last.scan = Nothing THEN 0 ELSE last.scan["observations"],
           NEW errors, errors = IF last.scan = Nothing THEN 0 ELSE last.scan["issues"]
    PROVE  StatusAnswer(f, feed, entries, unreadable, update) =
            Answer(IF feed = "invalid" \/ unreadable > 0 \/ last.error THEN 2 ELSE 0,
                   [schema |-> "status", available |-> last.scan # Nothing,
                    dated |-> last.scan # Nothing, error |-> last.error,
                    outcome |-> IF last.scan = Nothing THEN Nothing ELSE last.scan.outcome,
                    findings |-> findings, observations |-> observations, errors |-> errors,
                    feed |-> feed, real_time |-> FALSE, update |-> LoadUpdate(update),
                    quarantine_count |-> entries, entries |-> entries])
BY Zenon DEF StatusAnswer

(* A consistent summary is shown by its outcome, and an absent or damaged  *)
(* one as such.                                                            *)
LEMMA SummaryIsShown ==
    ASSUME NEW f, f # Nothing, f # Damaged, Consistent(f), NEW feed \in Feeds, NEW entries,
           NEW unreadable \in Nat, NEW update \in Updates
    PROVE  LET a == StatusAnswer(f, feed, entries, unreadable, update)
           IN  AcceptsStatus(a) /\ StatusPresentation(a.doc) = ScanRunPresentation(f)
<1> DEFINE code == IF feed = "invalid" \/ unreadable > 0 THEN 2 ELSE 0
           p == [schema |-> "status", available |-> TRUE, dated |-> TRUE, error |-> FALSE,
                 outcome |-> f.outcome, findings |-> f.findings, observations |-> f.observations,
                 errors |-> f.issues, feed |-> feed, real_time |-> FALSE, update |-> LoadUpdate(update),
                 quarantine_count |-> entries, entries |-> entries]
<1>1. Load(f) = [scan |-> f, error |-> FALSE]  BY DEF Load
<1>2. StatusAnswer(f, feed, entries, unreadable, update) = Answer(code, p)
  <2> DEFINE last == [scan |-> f, error |-> FALSE]
  <2>1. last.scan = f /\ last.error = FALSE /\ (f # Nothing) = TRUE  OBVIOUS
  <2>2. last = Load(f)  BY <1>1
  <2> HIDE DEF last
  <2>3. StatusAnswer(f, feed, entries, unreadable, update) =
            Answer(IF feed = "invalid" \/ unreadable > 0 \/ last.error THEN 2 ELSE 0,
                   [schema |-> "status", available |-> last.scan # Nothing,
                    dated |-> last.scan # Nothing, error |-> last.error,
                    outcome |-> IF last.scan = Nothing THEN Nothing ELSE last.scan.outcome,
                    findings |-> f.findings, observations |-> f.observations, errors |-> f.issues,
                    feed |-> feed, real_time |-> FALSE, update |-> LoadUpdate(update),
                    quarantine_count |-> entries, entries |-> entries])
    BY <2>1, <2>2, StatusAnswerOf
  <2>4. QED  BY <2>1, <2>3
<1>3. f.outcome \in Outcomes  BY DEF Consistent
<1>4. /\ f.outcome = "no_configured_rule_matches" => f.findings = 0 /\ f.observations = 0 /\ f.issues = 0
      /\ f.outcome = "configured_rule_matches_detected" => f.findings # 0
      /\ f.outcome = "review_observations" => f.observations # 0 /\ f.findings = 0 /\ f.issues = 0
  BY DEF Consistent
<1>5. AcceptsStatus(Answer(code, p)) /\ Answer(code, p).doc = p
  <2>1. ValidStatus(p)  BY <1>3, <1>4, UpdateIsAnswered DEF ValidStatus, Feeds
  <2>2. p # NoDocument  BY DEF NoDocument
  <2>3. Answer(code, p).doc = p /\ Answer(code, p).code \in {0, 2}  BY DEF Answer
  <2> HIDE DEF p, code
  <2>4. QED  BY <2>1, <2>2, <2>3 DEF AcceptsStatus, Accepted
<1>6. StatusPresentation(p) = ScanRunPresentation(f)
  BY <1>3 DEF StatusPresentation, ScanRunPresentation, Outcomes
<1> HIDE DEF p, code
<1>7. QED  BY <1>2, <1>5, <1>6

LEMMA OtherFileIsShown ==
    ASSUME NEW f, NEW error \in BOOLEAN, Load(f) = [scan |-> Nothing, error |-> error],
           NEW feed \in Feeds, NEW entries, NEW unreadable \in Nat, NEW update \in Updates
    PROVE  LET a == StatusAnswer(f, feed, entries, unreadable, update)
           IN  AcceptsStatus(a) /\ StatusPresentation(a.doc) = IF error THEN "unavailable" ELSE "not_run"
<1> DEFINE code == IF feed = "invalid" \/ unreadable > 0 \/ error THEN 2 ELSE 0
           p == [schema |-> "status", available |-> FALSE, dated |-> FALSE, error |-> error,
                 outcome |-> Nothing, findings |-> 0, observations |-> 0, errors |-> 0,
                 feed |-> feed, real_time |-> FALSE, update |-> LoadUpdate(update),
                 quarantine_count |-> entries, entries |-> entries]
<1>1. StatusAnswer(f, feed, entries, unreadable, update) = Answer(code, p)
  <2> DEFINE last == [scan |-> Nothing, error |-> error]
  <2>1. last.scan = Nothing /\ last.error = error /\ (last.scan # Nothing) = FALSE  OBVIOUS
  <2>2. last = Load(f)  OBVIOUS
  <2> HIDE DEF last
  <2>3. StatusAnswer(f, feed, entries, unreadable, update) =
            Answer(IF feed = "invalid" \/ unreadable > 0 \/ last.error THEN 2 ELSE 0,
                   [schema |-> "status", available |-> last.scan # Nothing,
                    dated |-> last.scan # Nothing, error |-> last.error,
                    outcome |-> IF last.scan = Nothing THEN Nothing ELSE last.scan.outcome,
                    findings |-> 0, observations |-> 0, errors |-> 0,
                    feed |-> feed, real_time |-> FALSE, update |-> LoadUpdate(update),
                    quarantine_count |-> entries, entries |-> entries])
    BY <2>1, <2>2, StatusAnswerOf
  <2>4. QED  BY <2>1, <2>3
<1>2. AcceptsStatus(Answer(code, p)) /\ Answer(code, p).doc = p
  <2>1. ValidStatus(p)  BY UpdateIsAnswered DEF ValidStatus, Feeds, Outcomes
  <2>2. p # NoDocument  BY DEF NoDocument
  <2>3. Answer(code, p).doc = p /\ Answer(code, p).code \in {0, 2}  BY DEF Answer
  <2> HIDE DEF p, code
  <2>4. QED  BY <2>1, <2>2, <2>3 DEF AcceptsStatus, Accepted
<1>3. StatusPresentation(p) = IF error THEN "unavailable" ELSE "not_run"
  BY DEF StatusPresentation
<1> HIDE DEF p, code
<1>4. QED  BY <1>1, <1>2, <1>3

(* The summary of a scan, and whatever else the file may hold.             *)
LEMMA LastScanIsConsistent ==
    ASSUME NEW s \in Scans
    PROVE  /\ LastScan(s) \in Summaries /\ LastScan(s) # Nothing /\ LastScan(s) # Damaged
           /\ Consistent(LastScan(s)) /\ LastScan(s).outcome = Outcome(s)
<1>1. LastScan(s) \in [schema : 1..3, findings : 0..2, issues : 0..3, observations : 0..1,
                       outcome : Outcomes \cup {"unknown"}]
  BY ScanCounts, OutcomeOfScan DEF LastScan
<1>2. LastScan(s) \in Summaries  BY <1>1 DEF Summaries, LastScan
<1>3. LastScan(s) # Damaged  BY DEF LastScan, Damaged
<1>4. Consistent(LastScan(s))
  BY ScanCounts, OutcomeOfScan DEF Consistent, LastScan
<1>5. QED  BY <1>2, <1>3, <1>4 DEF LastScan

LEMMA FilesAreShown ==
    ASSUME NEW f \in Summaries \cup {Nothing, Damaged}, NEW feed \in Feeds, NEW entries,
           NEW unreadable \in Nat, NEW update \in Updates
    PROVE  AcceptsStatus(StatusAnswer(f, feed, entries, unreadable, update))
<1>1. CASE f # Nothing /\ f # Damaged /\ Consistent(f)  BY <1>1, SummaryIsShown
<1>2. CASE f = Nothing
  <2>1. Load(f) = [scan |-> Nothing, error |-> FALSE]  BY <1>2 DEF Load
  <2>2. QED  BY <2>1, OtherFileIsShown
<1>3. CASE f # Nothing /\ (f = Damaged \/ ~Consistent(f))
  <2>1. Load(f) = [scan |-> Nothing, error |-> TRUE]  BY <1>3 DEF Load
  <2>2. QED  BY <2>1, OtherFileIsShown
<1>4. QED  BY <1>1, <1>2, <1>3

LEMMA AllScansAreShown == ShownScans
<1>1. ASSUME NEW s \in Scans, NEW feed \in Feeds, NEW unreadable \in 0..1
      PROVE  LET a == StatusAnswer(LastScan(s), feed, 1, unreadable, Nothing)
             IN  AcceptsStatus(a) /\ StatusPresentation(a.doc) = ScanRunPresentation(Report(s, TRUE))
  <2>1. ScanRunPresentation(Report(s, TRUE)) = ScanRunPresentation(LastScan(s))
    BY LastScanIsConsistent DEF ScanRunPresentation, Report
  <2> DEFINE f == LastScan(s)
  <2>2. f # Nothing /\ f # Damaged /\ Consistent(f) /\ unreadable \in Nat  BY LastScanIsConsistent
  <2> HIDE DEF f
  <2>3. QED  BY <2>1, <2>2, NothingIsAnUpdate, SummaryIsShown DEF f
<1>2. QED  BY <1>1, ReportIsAccepted, FilesAreShown DEF ShownScans

LEMMA SuccessOfScans == WholeSuccess
<1> SUFFICES ASSUME NEW s \in Scans, NEW saved \in BOOLEAN
             PROVE  LET a == CheckAnswer(s, saved) IN
                    /\ a.code = 0 <=> /\ s.findings = 0 /\ s.observations = 0 /\ s.issues = 0
                                      /\ s.feed # "invalid" /\ saved
                    /\ a.code = 2 <=> s.issues > 0 \/ s.failed > 0 \/ s.feed = "invalid" \/ ~saved
                    /\ a.code = 2 => Notified(a.doc)
                    /\ s.findings > 0 => /\ Notified(a.doc)
                                         /\ ScanRunPresentation(a.doc) \in {"matches", "incomplete"}
  BY DEF WholeSuccess
<1> DEFINE a == CheckAnswer(s, saved)
<1>1. Report(s, saved).outcome = IF saved THEN Outcome(s) ELSE "incomplete"  BY DEF Report
<1>2. a.doc = Report(s, saved) /\ a.code = IF Report(s, saved).outcome = "incomplete" THEN 2
                                           ELSE IF s.findings > 0 \/ s.observations > 0 THEN 1 ELSE 0
  BY ReportIsAccepted
<1>3. Issues(s) > 0 <=> s.issues > 0 \/ s.failed > 0  BY ScanCounts DEF Issues
<1> HIDE DEF a
<1>4. a.code = 2 <=> s.issues > 0 \/ s.failed > 0 \/ s.feed = "invalid" \/ ~saved
  BY <1>1, <1>2, <1>3, OutcomeOfScan
<1>5. a.code = 0 <=> /\ s.findings = 0 /\ s.observations = 0 /\ s.issues = 0
                     /\ s.feed # "invalid" /\ saved
  BY <1>1, <1>2, <1>3, OutcomeOfScan, ScanCounts
<1>6. a.code = 2 => Notified(a.doc)  BY <1>2 DEF Notified
<1>7. s.findings > 0 => Notified(a.doc) /\ ScanRunPresentation(a.doc) \in {"matches", "incomplete"}
  BY <1>1, <1>2, <1>3, OutcomeOfScan, ScanCounts DEF Notified, ScanRunPresentation
<1>8. QED  BY <1>4, <1>5, <1>6, <1>7 DEF a

LEMMA ShortSetsAreFinite ==
    ASSUME NEW a, NEW b, NEW c, NEW d, NEW e
    PROVE  IsFiniteSet({a, b}) /\ IsFiniteSet({a, b, c}) /\ IsFiniteSet({a, b, c, d, e})
<1>1. IsFiniteSet({a} \cup {b})  BY FS_Singleton, FS_AddElement
<1>2. {a} \cup {b} = {a, b}  OBVIOUS
<1>3. IsFiniteSet({a, b} \cup {c})  BY <1>1, <1>2, FS_AddElement
<1>4. {a, b} \cup {c} = {a, b, c}  OBVIOUS
<1>5. IsFiniteSet({a, b, c} \cup {d})  BY <1>3, <1>4, FS_AddElement
<1>6. IsFiniteSet(({a, b, c} \cup {d}) \cup {e})  BY <1>5, FS_AddElement
<1>7. ({a, b, c} \cup {d}) \cup {e} = {a, b, c, d, e}  OBVIOUS
<1>8. QED  BY <1>1, <1>2, <1>3, <1>4, <1>6, <1>7

(* The gates, and the drill's checks, are counted by either side alone.    *)
LEMMA ReadinessIsAccepted == ASSUME NEW platform PROVE AcceptsReadiness(ReadinessAnswer(platform))
<1>1. IsFiniteSet(CommonGates) /\ IsFiniteSet(PlatformGates(platform))
  <2>1. \E a, b : PlatformGates(platform) = {a, b}
    <3>1. {"supported_platform"} = {"supported_platform", "supported_platform"}  OBVIOUS
    <3>2. QED  BY <3>1, Zenon DEF PlatformGates
  <2>2. PICK a, b : PlatformGates(platform) = {a, b}  BY <2>1
  <2>3. IsFiniteSet({a, b})  BY ShortSetsAreFinite
  <2>4. IsFiniteSet(CommonGates)  BY ShortSetsAreFinite DEF CommonGates
  <2>5. QED  BY <2>2, <2>3, <2>4
<1>2. CommonGates \cap PlatformGates(platform) = {}  BY DEF CommonGates, PlatformGates
<1> DEFINE all == CommonGates \cup PlatformGates(platform)
<1>3. Cardinality(all) = Cardinality(CommonGates) + Cardinality(PlatformGates(platform))
  <2>1. Cardinality(CommonGates) \in Nat /\ Cardinality(PlatformGates(platform)) \in Nat
    BY <1>1, FS_CardinalityType
  <2>2. Cardinality(all) = Cardinality(CommonGates) + Cardinality(PlatformGates(platform)) - 0
    BY <1>1, <1>2, FS_Union, FS_EmptySet
  <2>3. QED  BY <2>1, <2>2
<1> HIDE DEF all
<1>4. QED  BY <1>3 DEF all, AcceptsReadiness, ReadinessAnswer, Accepted, Answer, ValidReadiness, NoDocument

LEMMA DrillIsAccepted ==
    ASSUME NEW broken \in SUBSET Broken
    PROVE  /\ AcceptsDrill(DrillAnswer(broken, TRUE))
           /\ DrillAnswer(broken, TRUE).doc.passed = (broken = {})
<1> DEFINE good == {c \in DrillChecks : Passes(c, broken)}
           bad == DrillChecks \ good
           p == [schema |-> "drill", passed |-> good = DrillChecks, certified |-> FALSE,
                 checks |-> [c \in DrillChecks |-> c \in good],
                 count |-> Cardinality(good), failed |-> Cardinality(bad)]
           a == Answer(IF good = DrillChecks THEN 0 ELSE 2, p)
<1>1. good = DrillChecks <=> broken = {}
  BY DEF DrillChecks, Passes, Broken
<1>2. IsFiniteSet(DrillChecks)
  BY ShortSetsAreFinite DEF DrillChecks
<1>3. good \subseteq DrillChecks  OBVIOUS
<1>4. DrillAnswer(broken, TRUE) = a  BY DEF DrillAnswer
<1> HIDE DEF good
<1>5. /\ Cardinality(bad) = Cardinality(DrillChecks) - Cardinality(good)
      /\ Cardinality(bad) = 0 <=> good = DrillChecks
  <2>1. DrillChecks \cap good = good /\ (bad = {} <=> good = DrillChecks)  BY <1>3
  <2>2. IsFiniteSet(bad) /\ Cardinality(bad) = Cardinality(DrillChecks) - Cardinality(DrillChecks \cap good)
    BY <1>2, FS_Difference
  <2> HIDE DEF bad
  <2>3. QED  BY <2>1, <2>2, FS_EmptySet
<1>6. p.checks = [c \in DrillChecks |-> c \in good] /\ {c \in DrillChecks : p.checks[c]} = good
  BY <1>3
<1>7. /\ p.schema = "drill" /\ ~p.certified /\ p.passed = (good = DrillChecks)
      /\ p.count = Cardinality(good) /\ p.failed = Cardinality(bad) /\ p # NoDocument
  BY DEF NoDocument
<1>8. DOMAIN p.checks = DrillChecks  BY <1>6
<1> HIDE DEF p
<1>9. ValidDrill(p)  BY <1>5, <1>6, <1>7, <1>8 DEF ValidDrill
<1>10. a.doc = p /\ a.code \in {0, 2} /\ (a.code = 0 <=> good = DrillChecks)  BY DEF Answer
<1> HIDE DEF a
<1>11. AcceptsDrill(a)  BY <1>7, <1>9, <1>10 DEF AcceptsDrill, Accepted
<1>12. QED  BY <1>1, <1>4, <1>7, <1>10, <1>11

LEMMA AllAnswersAreShown == ShownAnswers
<1>1. \A states \in SUBSET {"quarantined", "copy_only", "restored"}, unreadable \in 0..1 :
            AcceptsList(ListAnswer(states, unreadable))
  BY DEF AcceptsList, ListAnswer, Accepted, Answer, ValidList, NoDocument
<1>2. AcceptsRestore(RestoreAnswer("e1"), "e1") /\ ~AcceptsRestore(RestoreAnswer("e2"), "e1")
  BY DEF AcceptsRestore, RestoreAnswer, Accepted, Answer, ValidRestore, NoDocument
<1>3. \A outcome \in {"installed", "unchanged"} : AcceptsFeed(FeedAnswer(outcome, 1))
  BY DEF AcceptsFeed, FeedAnswer, Accepted, Answer, ValidFeed, NoDocument
<1>4. \A action \in Actions, active, succeeds \in BOOLEAN :
            AcceptsAction(ActionAnswer(action, active, succeeds))
  <2> SUFFICES ASSUME NEW action, NEW active \in BOOLEAN, NEW succeeds \in BOOLEAN
               PROVE  AcceptsAction(ActionAnswer(action, active, succeeds))
    OBVIOUS
  <2> DEFINE done == succeeds /\ (action = "UpdateSignatures" => active)
             p == [schema |-> "action", outcome |-> IF done THEN "completed" ELSE "failed",
                   error |-> ~done, evidence |-> done, changed |-> FALSE]
  <2>1. ActionAnswer(action, active, succeeds) = Answer(IF done THEN 0 ELSE 2, p)
    BY Zenon DEF ActionAnswer
  <2> HIDE DEF done
  <2>2. /\ p.schema = "action" /\ ~p.changed /\ p.error = ~done /\ p.evidence = done
        /\ p.outcome = (IF done THEN "completed" ELSE "failed") /\ p # NoDocument
    BY DEF NoDocument
  <2> HIDE DEF p
  <2>3. ValidAction(p)  BY <2>2 DEF ValidAction
  <2>4. QED  BY <2>1, <2>2, <2>3 DEF AcceptsAction, Accepted, Answer
<1>5. QED  BY <1>1, <1>2, <1>3, <1>4, ReadinessIsAccepted, DrillIsAccepted DEF ShownAnswers

(* Green. The three layers and the hand-over rest on accepted evidence.    *)
LEMMA AcceptedEvidence ==
    ASSUME NEW e \in Evidences, ValidDefender(e)
    PROVE  /\ e.confirmed => e.available /\ Required \subseteq e.features
           /\ e.baseline => Features \subseteq e.features
           /\ e.current => e.outdated # "yes"
BY DEF ValidDefender, ConfirmedAgrees, Evidences, Features

LEMMA AllGreenIsEarned == EarnedGreen
<1>1. ASSUME NEW p, ValidCompanion(p), CompanionLayer(p) = "green"
      PROVE  p.installed /\ p.aggregate /\ p.supervised /\ p.integrity = "verified" /\ Beating(p)
  <2>1. p.decision = "healthy_companion"
    BY <1>1 DEF CompanionLayer, CompanionPresentation, Shown
  <2>2. QED  BY <1>1, <2>1 DEF ValidCompanion, Supervised
<1>2. ASSUME NEW p PROVE ScopeLayer(p) # "green"  BY DEF ScopeLayer
<1>3. ASSUME NEW e \in Evidences, NEW good \in BOOLEAN
      PROVE  LET p == [Companion([aggregate |-> IF good THEN "good" ELSE "bad",
                          installed |-> "absent", supervisor |-> "missing", hashes |-> FALSE,
                          heartbeat |-> "absent", schema |-> FALSE, fresh |-> FALSE,
                          process |-> FALSE, session |-> "healthy"], Good) EXCEPT !.defender = e]
             IN  ValidCompanion(p) =>
                    /\ WindowsLayer(p) = "green" => good /\ e.available /\ Required \subseteq e.features
                    /\ \A complete, other \in BOOLEAN : Cutover(p, complete, other) # "blocked" =>
                            good /\ complete /\ Features \subseteq e.features /\ e.outdated # "yes"
  <2> DEFINE m == [aggregate |-> IF good THEN "good" ELSE "bad",
                   installed |-> "absent", supervisor |-> "missing", hashes |-> FALSE,
                   heartbeat |-> "absent", schema |-> FALSE, fresh |-> FALSE,
                   process |-> FALSE, session |-> "healthy"]
             q == [Companion(m, Good) EXCEPT !.defender = e]
  <2>1. q.defender = e /\ q.aggregate = good  BY DEF Companion
  <2> SUFFICES ASSUME ValidCompanion(q)
               PROVE  /\ WindowsLayer(q) = "green" => good /\ e.available /\ Required \subseteq e.features
                      /\ \A complete, other \in BOOLEAN : Cutover(q, complete, other) # "blocked" =>
                            good /\ complete /\ Features \subseteq e.features /\ e.outdated # "yes"
    OBVIOUS
  <2> HIDE DEF q
  <2>2. ValidDefender(e)  BY <2>1 DEF ValidCompanion
  <2>3. QED  BY <2>1, <2>2, AcceptedEvidence DEF WindowsLayer, Cutover, Ready
<1>4. QED  BY <1>1, <1>2, <1>3, Zenon DEF EarnedGreen

LEMMA EvidenceIsAccepted ==
    ASSUME NEW d \in Defenders PROVE ValidDefender(DefenderEvidence(d)) <=> Taken(d)
<1> DEFINE e == DefenderEvidence(d)
           whole == d.available /\ ~d.breaks
           dated == d.available /\ d.outdated # "unknown"
<1>1. /\ d.available \in BOOLEAN /\ d.breaks \in BOOLEAN /\ d.documented \in BOOLEAN
      /\ d.material \in BOOLEAN
  BY DEF Defenders
<1>2. /\ e.available = d.available /\ e.features = (IF d.available THEN d.features ELSE {})
      /\ e.outdated = (IF d.available THEN d.outdated ELSE "unknown")
      /\ e.material = (d.available /\ d.material)
      /\ e.confirmed = (whole /\ Required \subseteq d.features)
      /\ e.baseline = ((whole /\ Required \subseteq d.features) /\ Baseline \subseteq d.features)
      /\ e.current = (dated /\ Current(d))
      /\ e.recommended = (dated /\ (d.outdated = "yes" \/ ~d.material))
      /\ e.documented = (whole => d.documented)
  BY Zenon DEF DefenderEvidence
<1> HIDE DEF e
<1>3. CASE ~d.available
  <2>1. ~(Required \subseteq e.features)  BY <1>2, <1>3 DEF Required
  <2>2. ~e.available /\ ~e.confirmed /\ ~e.baseline /\ e.outdated = "unknown" /\ e.documented
    BY <1>2, <1>3, Zenon
  <2>3. e.confirmed = FALSE /\ e.baseline = FALSE  BY <1>2, <1>3
  <2>4. ValidDefender(e) /\ Taken(d)  BY <1>3, <2>1, <2>2, <2>3 DEF ValidDefender, ConfirmedAgrees, Taken
  <2>5. QED  BY <2>4 DEF e
<1>4. CASE d.available
  <2>1. e.features = d.features /\ e.available /\ e.outdated = d.outdated /\ e.material = d.material
    BY <1>1, <1>2, <1>4
  <2>2. ValidDefender(e) <=> Taken(d)
    BY <1>1, <1>2, <1>4, <2>1 DEF ValidDefender, ConfirmedAgrees, Taken, Current
  <2>3. QED  BY <2>2 DEF e
<1>5. QED  BY <1>1, <1>3, <1>4

(* Whatever the script finds on a machine, its document is taken unless it *)
(* is one of those named, and shown green exactly when nothing is wrong.   *)
LEMMA VerdictIsShown ==
    ASSUME NEW m \in Machines, NEW d \in Defenders
    PROVE  LET p == Companion(m, DefenderEvidence(d))
           IN  /\ ValidCompanion(p) <=> Presentable(m, d)
               /\ CompanionShown(p) = "green" <=> Presentable(m, d) /\ m.installed = "yes" /\ Reasons(m) = {}
<1> DEFINE p == Companion(m, DefenderEvidence(d))
           Readable == p.center = "named" /\ ValidDefender(p.defender)
<1>1. Readable <=> m.aggregate \notin {"unnamed", "unreadable"} /\ Taken(d)
  <2>1. p.defender = DefenderEvidence(d)  BY DEF Companion
  <2>2. p.center = "named" <=> m.aggregate \notin {"unnamed", "unreadable"}
    BY DEF Companion, Machines
  <2>3. QED  BY <2>1, <2>2, EvidenceIsAccepted
<1> DEFINE Goal == /\ ValidCompanion(p) <=> Presentable(m, d)
                   /\ CompanionShown(p) = "green" <=> Presentable(m, d) /\ m.installed = "yes" /\ Reasons(m) = {}
<1>2. CASE ~InOrder(m)
  <2>1. p.decision \in {"not_installed", "degraded"} /\ ~p.healthy /\ (p.decision = "not_installed" => ~p.installed)
    BY <1>2 DEF InOrder, Companion, Machines
  <2>2. Presentable(m, d) <=> Readable  BY <1>1, <1>2, Zenon DEF Presentable
  <2>3. ~(m.installed = "yes" /\ Reasons(m) = {})  BY <1>2 DEF InOrder
  <2> HIDE DEF p
  <2>4. ValidCompanion(p) <=> Readable  BY <2>1 DEF ValidCompanion
  <2>5. CompanionShown(p) # "green"
    BY <2>1 DEF CompanionShown, CompanionLayer, CompanionPresentation, Shown
  <2>6. Goal  BY <2>2, <2>3, <2>4, <2>5
  <2>7. QED  BY <2>6 DEF p
<1>3. CASE InOrder(m) /\ Reasons(m) = {}
  <2>1. /\ m.aggregate = "good" /\ m.supervisor \in {"run_value", "task_running"} /\ m.hashes
        /\ m.heartbeat = "read" /\ m.schema /\ m.fresh /\ m.process /\ m.session = "healthy"
        /\ m.installed = "yes"
    BY <1>3 DEF Reasons, Machines, InOrder
  <2>2. /\ p.decision = "healthy_companion" /\ p.installed /\ p.healthy /\ p.aggregate /\ p.supervised
        /\ p.supervisor = (IF m.supervisor = "run_value" THEN "registered_for_logon" ELSE "Running")
        /\ p.integrity = "verified" /\ p.schema /\ p.fresh /\ p.process
    BY <1>3, <2>1 DEF Companion, Verified, SupervisorState
  <2>3. Presentable(m, d) <=> Readable /\ m.supervisor = "run_value"
    BY <1>1, <1>3, <2>1 DEF Presentable
  <2> HIDE DEF p
  <2>4. ValidCompanion(p) <=> Readable /\ m.supervisor = "run_value"
    BY <2>1, <2>2 DEF ValidCompanion, Supervised, Beating
  <2>5. CompanionShown(p) = "green" <=> ValidCompanion(p)
    BY <2>2 DEF CompanionShown, CompanionLayer, CompanionPresentation, Shown
  <2>6. Goal  BY <1>3, <2>1, <2>3, <2>4, <2>5
  <2>7. QED  BY <2>6 DEF p
<1>4. CASE InOrder(m) /\ Reasons(m) # {}
  <2>1. /\ Reasons(m) = {"inventorying_metadata"} /\ m.installed = "yes"
        /\ m.aggregate = "good" /\ m.supervisor \in {"run_value", "task_running"} /\ m.hashes
        /\ m.heartbeat = "read" /\ m.schema /\ m.fresh /\ m.process /\ m.session = "inventorying_metadata"
    BY <1>4 DEF Reasons, Machines, InOrder
  <2>2. /\ p.decision = "metadata_inventory_in_progress" /\ p.installed /\ ~p.healthy /\ p.aggregate
        /\ p.reasons = {"inventory"} /\ p.supervised
        /\ p.supervisor = (IF m.supervisor = "run_value" THEN "registered_for_logon" ELSE "Running")
        /\ p.integrity = "verified" /\ p.schema /\ p.fresh /\ p.process
        /\ p.session = "inventorying_metadata"
    BY <2>1 DEF Companion, Verified, SupervisorState
  <2>3. Presentable(m, d) <=> Readable /\ m.supervisor = "run_value"
    BY <1>1, <1>4, <2>1 DEF Presentable
  <2> HIDE DEF p
  <2>4. ValidCompanion(p) <=> Readable /\ m.supervisor = "run_value"
    BY <2>1, <2>2 DEF ValidCompanion, Supervised, Beating
  <2>5. CompanionShown(p) # "green"
    BY <2>2 DEF CompanionShown, CompanionLayer, CompanionPresentation, Shown
  <2>6. Goal  BY <1>4, <2>3, <2>4, <2>5
  <2>7. QED  BY <2>6 DEF p
<1>5. QED  BY <1>2, <1>3, <1>4

LEMMA AllVerdictsAreShown == ShownVerdicts
<1>1. Typical \subseteq Defenders  BY DEF Typical
<1>2. QED  BY <1>1, EvidenceIsAccepted, VerdictIsShown DEF ShownVerdicts

(* In every state and for every input: every scan can be shown, the        *)
(* answers of the other commands are taken, success is whole, green is     *)
(* earned, and of the documents of the companion the desktop takes all but *)
(* those that Presentable names, and shows green what is in order.         *)
THEOREM TheDocumentsAgree == Spec => []DocumentsAgree
<1>1. DocumentsAgree
  BY AllScansAreShown, AllAnswersAreShown, SuccessOfScans, AllGreenIsEarned, AllVerdictsAreShown
     DEF DocumentsAgree, ScansAreShown, AnswersAreShown, SuccessIsWhole, GreenIsEarned, VerdictsAreShown
<1>2. QED  BY <1>1, PTL

-----------------------------------------------------------------------------
(* What the steps of the engine's commands have in common. The operation   *)
(* of thread t goes on: it hangs, it has read the summary, or it is a scan *)
(* that has saved one.                                                     *)
GoesOn(t, phase) ==
    /\ t \in Threads /\ running[t].phase = "runs" /\ Changes(t, phase)
    /\ \/ phase = "hangs" /\ UNCHANGED lastScan
       \/ running[t].kind = "status" /\ phase = Saved /\ UNCHANGED lastScan
       \/ running[t].kind = "scan" /\ phase \in Shows /\ \E s \in Samples : lastScan' = LastScan(s)

(* It is over, with an answer that the handler of its kind can show.       *)
IsOver(t, answer, due) ==
    /\ t \in Threads /\ running[t] # Idle /\ Ends(t, answer, due) /\ UNCHANGED lastScan
    /\ \/ answer = "failed" /\ due = FALSE
       \/ running[t].kind \in Reads /\ answer \in Shows /\ due = FALSE
          /\ (running[t].kind = "status" => answer = running[t].phase)
       \/ running[t].kind = "companion" /\ answer \in {"green", "red"} /\ due \in BOOLEAN
       \/ running[t].kind \in Others /\ answer = "done" /\ due = FALSE

LEMMA SamplesAreScans == Samples \subseteq Scans
BY DEF Samples

LEMMA PresentationsAreShows ==
    ASSUME NEW f, f.outcome \in Outcomes PROVE ScanRunPresentation(f) \in Shows
BY DEF ScanRunPresentation, Shows, Outcomes

(* Whatever the summary file holds, status is accepted and shown.          *)
LEMMA SavedIsShown ==
    ASSUME lastScan = Nothing \/ \E s \in Samples : lastScan = LastScan(s)
    PROVE  AcceptsStatus(StatusAnswer(lastScan, "valid", 0, 0, Nothing)) /\ Saved \in Shows
<1>1. CASE lastScan = Nothing
  <2>1. Load(lastScan) = [scan |-> Nothing, error |-> FALSE]  BY <1>1 DEF Load
  <2>2. "valid" \in Feeds /\ 0 \in Nat /\ FALSE \in BOOLEAN  BY DEF Feeds
  <2>3. /\ AcceptsStatus(StatusAnswer(lastScan, "valid", 0, 0, Nothing))
        /\ Saved = IF FALSE THEN "unavailable" ELSE "not_run"
    BY <2>1, <2>2, OtherFileIsShown, NothingIsAnUpdate, Zenon DEF Saved
  <2>4. QED  BY <2>3 DEF Shows
<1>2. ASSUME NEW s \in Samples, lastScan = LastScan(s)
      PROVE  AcceptsStatus(StatusAnswer(lastScan, "valid", 0, 0, Nothing)) /\ Saved \in Shows
  <2>1. /\ LastScan(s) # Nothing /\ LastScan(s) # Damaged /\ Consistent(LastScan(s))
        /\ LastScan(s).outcome \in Outcomes
    BY SamplesAreScans, LastScanIsConsistent, OutcomeOfScan
  <2>2. lastScan # Nothing /\ lastScan # Damaged /\ Consistent(lastScan) /\ lastScan.outcome \in Outcomes
    BY <1>2, <2>1
  <2>3. ScanRunPresentation(lastScan) \in Shows  BY <2>2, PresentationsAreShows
  <2>4. QED  BY <2>2, <2>3, NothingIsAnUpdate, SummaryIsShown DEF Saved, Feeds
<1>3. QED  BY <1>1, <1>2

LEMMA ReportIsShown ==
    ASSUME NEW s \in Samples
    PROVE  LET a == CheckAnswer(s, TRUE) IN AcceptsReport(a) /\ ScanRunPresentation(a.doc) \in Shows
<1>1. s \in Scans  BY SamplesAreScans
<1>2. Report(s, TRUE).outcome \in Outcomes  BY <1>1, OutcomeOfScan DEF Report
<1>3. QED  BY <1>1, <1>2, ReportIsAccepted, PresentationsAreShows

LEMMA EngineSteps ==
    ASSUME TypeOK, Engine
    PROVE  \/ \E t, phase : GoesOn(t, phase)
           \/ \E t, answer, due : IsOver(t, answer, due)
<1>1. ASSUME NEW t \in Threads, running[t] # Idle
      PROVE  /\ running[t].kind \in Kinds
             /\ running[t].phase \notin {"runs", "hangs"} =>
                    running[t].phase \in Shows /\ running[t].kind \in Reads
  BY <1>1 DEF TypeOK, Begun, Kinds, Reads
<1>2. \A kind : \A t \in Runs(kind) : kind # "none" =>
            t \in Threads /\ running[t] # Idle /\ running[t].kind = kind /\ running[t].phase = "runs"
  BY DEF Runs, Idle
<1>3. ASSUME StatusReads PROVE \E t, phase : GoesOn(t, phase)
  <2>1. PICK t \in Runs("status") :
            /\ LET a == StatusAnswer(lastScan, "valid", 0, 0, Nothing) IN
               Changes(t, IF AcceptsStatus(a) THEN StatusPresentation(a.doc) ELSE "failed")
            /\ UNCHANGED <<lastScan, faults>>
    BY <1>3, Zenon DEF StatusReads
  <2>2. Changes(t, Saved)
    <3>1. AcceptsStatus(StatusAnswer(lastScan, "valid", 0, 0, Nothing))  BY SavedIsShown DEF TypeOK
    <3>2. QED  BY <2>1, <3>1, Zenon DEF Saved
  <2>3. GoesOn(t, Saved)  BY <1>2, <2>1, <2>2 DEF GoesOn
  <2>4. QED  BY <2>3, Zenon
<1>4. ASSUME ScanSaves PROVE \E t, phase : GoesOn(t, phase)
  <2>1. PICK t \in Runs("scan"), s \in Samples :
            /\ lastScan' = LastScan(s)
            /\ LET a == CheckAnswer(s, TRUE) IN
               Changes(t, IF AcceptsReport(a) THEN ScanRunPresentation(a.doc) ELSE "failed")
    BY <1>4, Zenon DEF ScanSaves
  <2> DEFINE phase == ScanRunPresentation(CheckAnswer(s, TRUE).doc)
  <2>2. phase \in Shows /\ AcceptsReport(CheckAnswer(s, TRUE))  BY ReportIsShown
  <2>3. Changes(t, phase)  BY <2>1, <2>2, Zenon
  <2> HIDE DEF phase
  <2>4. GoesOn(t, phase)  BY <1>2, <2>1, <2>2, <2>3 DEF GoesOn
  <2>5. QED  BY <2>4, Zenon
<1>5. ASSUME Hang PROVE \E t, phase : GoesOn(t, phase)
  <2>1. PICK t \in Working : running[t].phase = "runs" /\ Changes(t, "hangs") /\ UNCHANGED lastScan
    BY <1>5, Zenon DEF Hang
  <2>2. GoesOn(t, "hangs")  BY <2>1 DEF GoesOn, Working
  <2>3. QED  BY <2>2, Zenon
<1>6. ASSUME AnswerEnds PROVE \E t, answer, due : IsOver(t, answer, due)
  <2>1. PICK t \in Working : /\ running[t].phase \notin {"runs", "hangs"}
                             /\ Ends(t, running[t].phase, FALSE) /\ UNCHANGED lastScan
    BY <1>6, Zenon DEF AnswerEnds
  <2>2. t \in Threads /\ running[t] # Idle  BY DEF Working
  <2>3. running[t].phase \in Shows /\ running[t].kind \in Reads  BY <1>1, <2>1, <2>2
  <2>4. IsOver(t, running[t].phase, FALSE)  BY <2>1, <2>2, <2>3, Zenon DEF IsOver
  <2>5. QED  BY <2>4, Zenon
<1>7. ASSUME ScanUnsaved PROVE \E t, answer, due : IsOver(t, answer, due)
  <2>1. PICK t \in Runs("scan") : Ends(t, "incomplete", FALSE) /\ UNCHANGED lastScan
    BY <1>7, Zenon DEF ScanUnsaved
  <2>2. IsOver(t, "incomplete", FALSE)  BY <1>2, <2>1 DEF IsOver, Reads, Shows
  <2>3. QED  BY <2>2, Zenon
<1>8. ASSUME NEW t \in Threads, running[t] # Idle, Ends(t, "failed", FALSE), UNCHANGED lastScan
      PROVE  \E u, answer, due : IsOver(u, answer, due)
  <2>1. IsOver(t, "failed", FALSE)  BY <1>8, Zenon DEF IsOver
  <2>2. QED  BY <2>1, Zenon
<1>9. ASSUME ScanStops PROVE \E t, answer, due : IsOver(t, answer, due)
  <2>1. PICK t \in Threads : running[t].kind = "scan" /\ Ends(t, "failed", FALSE) /\ UNCHANGED lastScan
    BY <1>9, Zenon DEF ScanStops
  <2>2. running[t] # Idle  BY <2>1 DEF Idle
  <2>3. QED  BY <1>8, <2>1, <2>2
<1>10. ASSUME Fail PROVE \E t, answer, due : IsOver(t, answer, due)
  <2>1. PICK t \in Working : Ends(t, "failed", FALSE) /\ UNCHANGED lastScan  BY <1>10, Zenon DEF Fail
  <2>2. QED  BY <1>8, <2>1 DEF Working
<1>11. ASSUME Expire PROVE \E t, answer, due : IsOver(t, answer, due)
  <2>1. PICK t \in Threads : TimesOut(t) /\ Ends(t, "failed", FALSE) /\ UNCHANGED lastScan
    BY <1>11, Zenon DEF Expire
  <2>2. running[t] # Idle  BY <2>1 DEF Idle, TimesOut
  <2>3. QED  BY <1>8, <2>1, <2>2
<1>12. ASSUME CompanionEnds PROVE \E t, answer, due : IsOver(t, answer, due)
  <2>1. PICK t \in Runs("companion"), p \in Found :
            /\ IF ValidCompanion(p) THEN Ends(t, WindowsCard(p), Maintainable(p))
               ELSE Ends(t, "failed", FALSE)
            /\ UNCHANGED lastScan
    BY <1>12, Zenon DEF CompanionEnds
  <2>2. t \in Threads /\ running[t] # Idle /\ running[t].kind = "companion"  BY <1>2
  <2>3. CASE ~ValidCompanion(p)  BY <1>8, <2>1, <2>2, <2>3
  <2>4. CASE ValidCompanion(p)
    <3>1. WindowsCard(p) \in {"green", "red"}  BY DEF WindowsCard
    <3>2. Maintainable(p) \in BOOLEAN  BY Zenon DEF Maintainable
    <3>3. IsOver(t, WindowsCard(p), Maintainable(p))
      BY <2>1, <2>2, <2>4, <3>1, <3>2, Zenon DEF IsOver
    <3>4. QED  BY <3>3, Zenon
  <2>5. QED  BY <2>3, <2>4
<1>13. ASSUME OtherEnds PROVE \E t, answer, due : IsOver(t, answer, due)
  <2>1. PICK kind \in {"action", "maintain", "intelligence", "feed", "restore", "panel"} :
            \E t \in Runs(kind) : Ends(t, "done", FALSE) /\ UNCHANGED lastScan
    BY <1>13, Zenon DEF OtherEnds
  <2>2. PICK t \in Runs(kind) : Ends(t, "done", FALSE) /\ UNCHANGED lastScan  BY <2>1
  <2>3. kind \in Others /\ kind # "none"  BY DEF Others, Kinds, Reads
  <2>4. IsOver(t, "done", FALSE)  BY <1>2, <2>2, <2>3 DEF IsOver
  <2>5. QED  BY <2>4, Zenon
<1>14. QED
  BY <1>3, <1>4, <1>5, <1>6, <1>7, <1>9, <1>10, <1>11, <1>12, <1>13 DEF Engine

-----------------------------------------------------------------------------
(* The types, by what they are about.                                      *)
Flags ==
    /\ closing \in BOOLEAN /\ started \in BOOLEAN /\ dialog \in BOOLEAN
    /\ statusResolved \in BOOLEAN /\ companionResolved \in BOOLEAN /\ deadline \in BOOLEAN
    /\ latestStatus \in BOOLEAN /\ latestCompanion \in BOOLEAN /\ inflight \in BOOLEAN
    /\ buttons \in BOOLEAN /\ maintaining \in BOOLEAN /\ lost \in BOOLEAN /\ old \in BOOLEAN
ExecutorTypes ==
    queue \in Seq(Waits) /\ running \in [Threads -> Begun \cup {Idle}] /\ ready \in Seq(Answers)
    /\ busy \in Int
ScanTypes ==
    /\ scanEvent \in 0..scans /\ cancelled \subseteq 1..scans /\ scans \in 0..MaxScans
    /\ panel \in {"idle", "active", "cancelling", "failed"} \cup Shows
CardTypes ==
    /\ scanCard \in {"checking", "slow", "failed"} \cup Shows
    /\ windowsCard \in {"checking", "slow", "green", "red", "unavailable"}
    /\ hour \in {"never", "recent", "old"}
SummaryTypes == lastScan = Nothing \/ \E s \in Samples : lastScan = LastScan(s)

LEMMA TypeParts ==
    /\ TypeOK <=> Flags /\ ExecutorTypes /\ ScanTypes /\ CardTypes /\ SummaryTypes
    /\ TypeOK' <=> Flags' /\ ExecutorTypes' /\ ScanTypes' /\ CardTypes' /\ SummaryTypes'
<1> DEFINE f == {closing, started, dialog, deadline} \subseteq BOOLEAN
           g == {statusResolved, companionResolved, latestStatus, latestCompanion} \subseteq BOOLEAN
           h == {inflight, buttons, maintaining, lost, old} \subseteq BOOLEAN
<1>1. f <=> closing \in BOOLEAN /\ started \in BOOLEAN /\ dialog \in BOOLEAN /\ deadline \in BOOLEAN
  BY Zenon
<1>2. g <=> /\ statusResolved \in BOOLEAN /\ companionResolved \in BOOLEAN
            /\ latestStatus \in BOOLEAN /\ latestCompanion \in BOOLEAN
  BY Zenon
<1>3. h <=> /\ inflight \in BOOLEAN /\ buttons \in BOOLEAN /\ maintaining \in BOOLEAN
            /\ lost \in BOOLEAN /\ old \in BOOLEAN
  BY Zenon
<1>4. f' <=> closing' \in BOOLEAN /\ started' \in BOOLEAN /\ dialog' \in BOOLEAN /\ deadline' \in BOOLEAN
  BY Zenon
<1>5. g' <=> /\ statusResolved' \in BOOLEAN /\ companionResolved' \in BOOLEAN
             /\ latestStatus' \in BOOLEAN /\ latestCompanion' \in BOOLEAN
  BY Zenon
<1>6. h' <=> /\ inflight' \in BOOLEAN /\ buttons' \in BOOLEAN /\ maintaining' \in BOOLEAN
             /\ lost' \in BOOLEAN /\ old' \in BOOLEAN
  BY Zenon
<1>7. TypeOK <=> f /\ g /\ h /\ ExecutorTypes /\ ScanTypes /\ CardTypes /\ SummaryTypes
  BY Zenon DEF TypeOK, ExecutorTypes, ScanTypes, CardTypes, SummaryTypes
<1>8. TypeOK' <=> f' /\ g' /\ h' /\ ExecutorTypes' /\ ScanTypes' /\ CardTypes' /\ SummaryTypes'
  BY Zenon DEF TypeOK, ExecutorTypes, ScanTypes, CardTypes, SummaryTypes
<1> HIDE DEF f, g, h
<1>9. QED  BY <1>1, <1>2, <1>3, <1>4, <1>5, <1>6, <1>7, <1>8, Zenon DEF Flags

LEMMA JobsWait ==
    /\ <<>> \in Seq(Waits) /\ StatusJob \in Seq(Waits) /\ PanelJob \in Seq(Waits)
    /\ CompanionJob \in Seq(Waits) /\ StatusJob \o CompanionJob \in Seq(Waits)
    /\ \A kind \in Kinds : <<Job(kind)>> \in Seq(Waits)
<1>1. \A kind \in Kinds : Job(kind) \in Waits  BY DEF Job, Waits
<1>2. \A kind \in Kinds : <<Job(kind)>> \in Seq(Waits)  BY <1>1
<1>3. <<>> \in Seq(Waits)  OBVIOUS
<1>4. StatusJob \in Seq(Waits)  BY <1>2 DEF StatusJob, Kinds
<1>5. PanelJob \in Seq(Waits)  BY <1>2 DEF PanelJob, Kinds
<1>6. CompanionJob \in Seq(Waits)
  <2>1. "companion" \in Kinds  BY DEF Kinds
  <2>2. QED  BY <1>2, <1>3, <2>1, Zenon DEF CompanionJob
<1>7. StatusJob \o CompanionJob \in Seq(Waits)  BY <1>4, <1>6, ConcatProperties
<1>8. QED  BY <1>2, <1>3, <1>4, <1>5, <1>6, <1>7

(* Handlers, timers and the user submit jobs that wait, or nothing; they   *)
(* leave the threads alone. The handler of a failed scan submits nothing,  *)
(* and leaves a card that may be old.                                      *)
Submitted(jobs) == Submits(jobs, 1) \/ (jobs = <<>> /\ Enqueues(<<>>, 1) /\ old' = TRUE)
Asks(jobs) == jobs \in Seq(Waits) /\ Submits(jobs, 0) /\ UNCHANGED <<running, ready>>
Answered(a, jobs) ==
    /\ ready # <<>> /\ a = Head(ready) /\ ready' = Tail(ready)
    /\ jobs \in Seq(Waits) /\ Submitted(jobs) /\ UNCHANGED running
Leaves == UNCHANGED <<executor, old>>

(* A handler of each answer, at the head of the posted ones.               *)
Handles(a) ==
    \/ a.kind = "status" /\ StatusDelivered(a)
    \/ a.kind = "companion" /\ (CompanionRendered(a) \/ CompanionFailed(a))
    \/ a.kind = "scan" /\ (ScanComplete(a) \/ ScanFailed(a))
    \/ a.kind = "action" /\ ActionDelivered
    \/ a.kind = "maintain" /\ MaintenanceFinished(a)
    \/ a.kind = "intelligence" /\ IntelligenceFinished
    \/ a.kind \in {"feed", "restore", "panel"} /\ FileDelivered(a)

LEMMA DeliverSteps ==
    ASSUME TypeOK, Deliver
    PROVE  \E a \in Answers :
              /\ ready # <<>> /\ a = Head(ready) /\ ready' = Tail(ready) /\ Handles(a)
              /\ ~closing /\ UNCHANGED <<running, life, lastScan, counts>>
<1>1. ready # <<>> /\ ready' = Tail(ready) /\ ~closing /\ UNCHANGED <<running, life, lastScan, counts>>
  BY Zenon DEF Deliver
<1>2. Handles(Head(ready))  BY Zenon DEF Deliver, Handles
<1>3. Head(ready) \in Answers  BY <1>1, HeadTailProperties DEF TypeOK
<1>4. QED  BY <1>1, <1>2, <1>3, Zenon

LEMMA TkSteps ==
    ASSUME TypeOK, Deliver \/ User \/ Timers
    PROVE  /\ lastScan' = lastScan
           /\ \/ \E jobs : Asks(jobs)
              \/ \E a, jobs : Answered(a, jobs)
              \/ Leaves
              \/ Exit
<1>1. ASSUME Deliver PROVE lastScan' = lastScan /\ \E a, jobs : Answered(a, jobs)
  <2>1. PICK a \in Answers :
              /\ ready # <<>> /\ a = Head(ready) /\ ready' = Tail(ready) /\ Handles(a)
              /\ UNCHANGED <<running, life, lastScan, counts>>
    BY <1>1, DeliverSteps
  <2>2. \E jobs \in Seq(Waits) : Submitted(jobs)
    <3>1. ASSUME StatusDelivered(a) PROVE Submits(<<>>, 1)  BY <3>1, Zenon DEF StatusDelivered
    <3>2. ASSUME CompanionRendered(a) PROVE Submits(<<Job("maintain")>>, 1) \/ Submits(<<>>, 1)
      BY <3>2, Zenon DEF CompanionRendered
    <3>3. ASSUME CompanionFailed(a) PROVE Submits(<<>>, 1)  BY <3>3, Zenon DEF CompanionFailed
    <3>4. ASSUME ScanComplete(a) PROVE Submits(StatusJob, 1)  BY <3>4, Zenon DEF ScanComplete
    <3>5. ASSUME ScanFailed(a) PROVE Submitted(<<>>)  BY <3>5, Zenon DEF ScanFailed, Submitted
    <3>6. ASSUME ActionDelivered PROVE Submits(CompanionJob, 1)  BY <3>6, Zenon DEF ActionDelivered
    <3>7. ASSUME MaintenanceFinished(a) PROVE Submits(CompanionJob, 1) \/ Submits(<<>>, 1)
      BY <3>7, Zenon DEF MaintenanceFinished
    <3>8. ASSUME IntelligenceFinished PROVE Submits(StatusJob, 1)  BY <3>8, Zenon DEF IntelligenceFinished
    <3>9. ASSUME FileDelivered(a)
          PROVE  Submits(<<>>, 1) \/ Submits(StatusJob, 1) \/ Submits(PanelJob, 1)
      <4> DEFINE jobs == IF a.answer = "failed" THEN <<>>
                         ELSE CASE a.kind = "feed" -> StatusJob [] a.kind = "restore" -> PanelJob
                                [] OTHER -> <<>>
      <4>1. Submits(jobs, 1)  BY <3>9, Zenon DEF FileDelivered
      <4>2. jobs = <<>> \/ jobs = StatusJob \/ jobs = PanelJob  OBVIOUS
      <4> HIDE DEF jobs
      <4>3. QED  BY <4>1, <4>2
    <3>10. <<Job("maintain")>> \in Seq(Waits)  BY JobsWait DEF Kinds
    <3>11. \A jobs : Submits(jobs, 1) => Submitted(jobs)  BY Zenon DEF Submitted
    <3>12. QED
      BY <2>1, <3>1, <3>2, <3>3, <3>4, <3>5, <3>6, <3>7, <3>8, <3>9, <3>10, <3>11, JobsWait, Zenon DEF Handles
  <2>3. QED  BY <2>1, <2>2, Zenon DEF Answered
<1>2. ASSUME NEW jobs \in Seq(Waits), Submits(jobs, 0), Untouched
      PROVE  lastScan' = lastScan /\ \E j : Asks(j)
  BY <1>2, Zenon DEF Untouched, Asks
<1>3. ASSUME Untouched, UNCHANGED <<queue, busy, old>> PROVE lastScan' = lastScan /\ Leaves
  BY <1>3 DEF Untouched, Leaves, executor
<1>4. ASSUME Begins PROVE lastScan' = lastScan /\ \E j : Asks(j)
  <2>1. Submits(<<Job("scan")>>, 0) /\ Untouched  BY <1>4, Zenon DEF Begins
  <2>2. <<Job("scan")>> \in Seq(Waits)  BY JobsWait DEF Kinds
  <2>3. QED  BY <1>2, <2>1, <2>2
<1>5. ASSUME RefreshesAll, Untouched PROVE lastScan' = lastScan /\ \E j : Asks(j)
  <2>1. Submits(StatusJob \o CompanionJob, 0)  BY <1>5, Zenon DEF RefreshesAll
  <2>2. QED  BY <1>2, <1>5, <2>1, JobsWait, Zenon
<1>6. ASSUME Timers
      PROVE  lastScan' = lastScan /\ ((\E j : Asks(j)) \/ Leaves)
  <2>1. CASE FirstRefresh  BY <1>5, <2>1, Zenon DEF FirstRefresh
  <2>2. CASE Deadline  BY <2>2, Zenon DEF Deadline, Leaves
  <2>3. CASE Periodic  BY <1>2, <2>3, JobsWait, Zenon DEF Periodic
  <2>4. CASE RefreshIntelligence
    <3>1. <<Job("intelligence")>> \in Seq(Waits)  BY JobsWait DEF Kinds
    <3>2. QED  BY <1>2, <2>4, <3>1, Zenon DEF RefreshIntelligence
  <2>5. CASE HourPasses
    <3>1. Untouched /\ UNCHANGED <<queue, busy, old>>  BY <2>5 DEF HourPasses
    <3>2. QED  BY <1>3, <3>1, Zenon
  <2>6. QED  BY <1>6, <2>1, <2>2, <2>3, <2>4, <2>5, Zenon DEF Timers
<1>7. ASSUME User
      PROVE  Exit \/ (lastScan' = lastScan /\ ((\E j : Asks(j)) \/ Leaves))
  <2>1. CASE ClickRefresh  BY <1>5, <2>1, Zenon DEF ClickRefresh
  <2>2. CASE ClickScan \/ AnswerYes \/ TrayScan
    <3>1. Begins  BY <2>2, Zenon DEF ClickScan, AnswerYes, TrayScan
    <3>2. QED  BY <1>4, <3>1
  <2>3. CASE ClickScanQuarantine \/ AnswerNo \/ CancelScan
    <3>1. Untouched /\ UNCHANGED <<queue, busy, old>>
      BY <2>3 DEF ClickScanQuarantine, AnswerNo, CancelScan
    <3>2. QED  BY <1>3, <3>1, Zenon
  <2>4. CASE ClickAction
    <3>1. <<Job("action")>> \in Seq(Waits)  BY JobsWait DEF Kinds
    <3>2. QED  BY <1>2, <2>4, <3>1, Zenon DEF ClickAction
  <2>5. CASE ClickFile
    <3>1. {"feed", "restore", "panel"} \subseteq Kinds  BY DEF Kinds
    <3>2. \A kind \in {"feed", "restore", "panel"} : <<Job(kind)>> \in Seq(Waits)
      BY <3>1, JobsWait, Zenon
    <3>3. (\E kind \in {"feed", "restore", "panel"} : Submits(<<Job(kind)>>, 0)) /\ Untouched
      BY <2>5, Zenon DEF ClickFile
    <3>4. QED  BY <1>2, <3>2, <3>3, Zenon
  <2>6. QED  BY <1>7, <2>1, <2>2, <2>3, <2>4, <2>5, Zenon DEF User
<1>8. Exit => lastScan' = lastScan  BY DEF Exit
<1>9. QED  BY <1>1, <1>6, <1>7, <1>8, Zenon

LEMMA SubmitsTypes ==
    ASSUME ExecutorTypes, Flags, NEW jobs \in Seq(Waits), Submits(jobs, 0) \/ Submitted(jobs)
    PROVE  queue' \in Seq(Waits) /\ busy' \in Int /\ old' \in BOOLEAN
<1>1. queue' = queue \o jobs /\ (busy' = busy + Len(jobs) - 0 \/ busy' = busy + Len(jobs) - 1)
  BY Zenon DEF Submitted, Submits, Enqueues
<1>2. queue' \in Seq(Waits)  BY <1>1, ConcatProperties DEF ExecutorTypes
<1>3. Len(jobs) \in Nat  BY LenProperties
<1>4. busy' \in Int  BY <1>1, <1>3 DEF ExecutorTypes
<1>5. old' \in BOOLEAN
  <2> DEFINE other == Pending("status") > 0
  <2>1. other \in BOOLEAN  OBVIOUS
  <2>2. old' = TRUE \/ old' = old \/ old' = other  BY Zenon DEF Submitted, Submits
  <2> HIDE DEF other
  <2>3. QED  BY <2>1, <2>2 DEF Flags
<1>6. QED  BY <1>2, <1>4, <1>5

LEMMA RunningTypes ==
    ASSUME ExecutorTypes, NEW t \in Threads, running[t] # Idle
    PROVE  /\ running[t] \in Begun /\ running[t].kind \in Kinds /\ running[t].n \in Numbers
           /\ running[t].phase \notin {"runs", "hangs"} =>
                  running[t].phase \in Shows /\ running[t].kind \in Reads
BY DEF ExecutorTypes, Begun, Kinds, Reads

LEMMA GoesOnTypes ==
    ASSUME TypeOK, NEW t, NEW phase, GoesOn(t, phase)
    PROVE  /\ running[t] # Idle /\ [running[t] EXCEPT !.phase = phase] \in Begun
           /\ running' = [running EXCEPT ![t] = [running[t] EXCEPT !.phase = phase]]
           /\ phase = "hangs" \/ (phase \in Shows /\ running[t].kind \in Reads)
<1>1. t \in Threads /\ running[t].phase = "runs" /\ running' = [running EXCEPT ![t].phase = phase]
  BY DEF GoesOn, Changes
<1>2. running[t] # Idle  BY <1>1 DEF Idle
<1>3. phase = "hangs" \/ (phase \in Shows /\ running[t].kind \in Reads)
  BY TypeParts, SavedIsShown DEF GoesOn, SummaryTypes, Reads
<1>4. running[t] \in Begun  BY <1>1, <1>2 DEF TypeOK
<1>5. [running[t] EXCEPT !.phase = phase] \in Begun
  <2>1. running[t] \in [kind : Kinds, n : Numbers, phase : {"runs", "hangs"} \cup Shows]
    BY <1>4 DEF Begun, Kinds, Reads
  <2>2. CASE phase = "hangs"  BY <2>1, <2>2 DEF Begun
  <2>3. CASE phase \in Shows /\ running[t].kind \in Reads  BY <2>1, <2>3 DEF Begun
  <2>4. QED  BY <1>3, <2>2, <2>3
<1>6. QED  BY <1>1, <1>2, <1>3, <1>5

LEMMA IsOverTypes ==
    ASSUME TypeOK, NEW t, NEW answer, NEW due, IsOver(t, answer, due)
    PROVE  Posted(running[t], answer, due) \in Answers
<1>1. running[t].kind \in Kinds /\ running[t].n \in Numbers
  BY TypeParts, RunningTypes DEF IsOver
<1>2. CASE running[t].kind \in Reads  BY <1>1, <1>2 DEF IsOver, Posted, Answers, Others, Reads
<1>3. CASE running[t].kind = "companion"  BY <1>1, <1>3 DEF IsOver, Posted, Answers, Others, Reads
<1>4. CASE running[t].kind \in Others  BY <1>1, <1>4 DEF IsOver, Posted, Answers, Others, Reads
<1>5. QED  BY <1>1, <1>2, <1>3, <1>4 DEF Others

LEMMA StartTypes ==
    ASSUME TypeOK, Start
    PROVE  \E t \in Threads :
              /\ queue # <<>> /\ queue' = Tail(queue) /\ Head(queue) \in Waits
              /\ running[t] = Idle /\ Resolve(Head(queue)) \in Begun
              /\ running' = [running EXCEPT ![t] = Resolve(Head(queue))]
<1>1. PICK t \in Threads : running[t] = Idle /\ running' = [running EXCEPT ![t] = Resolve(Head(queue))]
  BY Zenon DEF Start
<1>2. queue # <<>> /\ queue' = Tail(queue) /\ Head(queue) \in Waits
  BY HeadTailProperties DEF Start, TypeOK
<1>3. scanEvent \in Numbers /\ 0 \in Numbers  BY DEF TypeOK, Numbers
<1>4. Resolve(Head(queue)) \in Begun  BY <1>2, <1>3 DEF Resolve, Waits, Begun
<1>5. QED  BY <1>1, <1>2, <1>4

LEMMA ExecutorStep == ASSUME TypeOK, [Next]_vars PROVE ExecutorTypes'
<1>0. ExecutorTypes /\ Flags  BY TypeParts
<1>1. CASE Start
  <2>1. PICK t \in Threads :
              /\ queue # <<>> /\ queue' = Tail(queue) /\ Resolve(Head(queue)) \in Begun
              /\ running' = [running EXCEPT ![t] = Resolve(Head(queue))]
    BY <1>1, StartTypes
  <2>2. UNCHANGED <<ready, busy>>  BY <1>1 DEF Start
  <2>3. queue' \in Seq(Waits)  BY <1>0, <2>1, HeadTailProperties DEF ExecutorTypes
  <2>4. running' \in [Threads -> Begun \cup {Idle}]  BY <1>0, <2>1 DEF ExecutorTypes
  <2>5. QED  BY <1>0, <2>2, <2>3, <2>4 DEF ExecutorTypes
<1>2. ASSUME NEW t, NEW phase, GoesOn(t, phase) PROVE ExecutorTypes'
  <2>1. UNCHANGED <<queue, ready, busy>>  BY <1>2 DEF GoesOn, Changes
  <2>2. running' \in [Threads -> Begun \cup {Idle}]  BY <1>0, <1>2, GoesOnTypes DEF ExecutorTypes
  <2>3. QED  BY <1>0, <2>1, <2>2 DEF ExecutorTypes
<1>3. ASSUME NEW t, NEW answer, NEW due, IsOver(t, answer, due) PROVE ExecutorTypes'
  <2>1. /\ running' = [running EXCEPT ![t] = Idle] /\ UNCHANGED <<queue, busy>>
        /\ ready' = IF closing THEN ready ELSE Append(ready, Posted(running[t], answer, due))
    BY <1>3 DEF IsOver, Ends
  <2>2. ready' \in Seq(Answers)  BY <1>0, <1>3, <2>1, IsOverTypes, AppendProperties DEF ExecutorTypes
  <2>3. running' \in [Threads -> Begun \cup {Idle}]  BY <1>0, <2>1 DEF ExecutorTypes
  <2>4. QED  BY <1>0, <2>1, <2>2, <2>3 DEF ExecutorTypes
<1>4. ASSUME NEW jobs, Asks(jobs) PROVE ExecutorTypes'
  <2>1. jobs \in Seq(Waits) /\ Submits(jobs, 0) /\ UNCHANGED <<running, ready>>  BY <1>4 DEF Asks
  <2>2. QED  BY <1>0, <2>1, SubmitsTypes DEF ExecutorTypes
<1>5. ASSUME NEW a, NEW jobs, Answered(a, jobs) PROVE ExecutorTypes'
  <2>1. /\ jobs \in Seq(Waits) /\ Submitted(jobs) /\ UNCHANGED running
        /\ ready # <<>> /\ ready' = Tail(ready)
    BY <1>5 DEF Answered
  <2>2. ready' \in Seq(Answers)  BY <1>0, <2>1, HeadTailProperties DEF ExecutorTypes
  <2>3. QED  BY <1>0, <2>1, <2>2, SubmitsTypes DEF ExecutorTypes
<1>6. CASE Leaves \/ UNCHANGED vars  BY <1>0, <1>6 DEF Leaves, executor, vars, ExecutorTypes
<1>7. CASE Exit
  <2>1. queue' = <<>> /\ ready' = <<>> /\ UNCHANGED <<running, busy>>  BY <1>7 DEF Exit
  <2>2. QED  BY <1>0, <2>1 DEF ExecutorTypes
<1>8. QED
  BY <1>1, <1>2, <1>3, <1>4, <1>5, <1>6, <1>7, EngineSteps, TkSteps, Zenon DEF Next

(* What the engine and the pool never touch.                               *)
View == <<scanEvent, cancelled, scans, dialog, panel, lost, scanCard, statusResolved, latestStatus,
          windowsCard, companionResolved, latestCompanion, buttons, inflight, maintaining, hour,
          closing, started, deadline, old>>

LEMMA BackgroundSteps == ASSUME TypeOK, Start \/ Engine PROVE UNCHANGED View
<1>1. ASSUME NEW t, NEW phase, GoesOn(t, phase) PROVE UNCHANGED View
  BY <1>1 DEF GoesOn, Changes, scanning, statusView, companionView, upkeep, life, View
<1>2. ASSUME NEW t, NEW answer, NEW due, IsOver(t, answer, due) PROVE UNCHANGED View
  BY <1>2 DEF IsOver, Ends, scanning, statusView, companionView, upkeep, life, View
<1>3. CASE Start
  BY <1>3 DEF Start, scanning, statusView, companionView, upkeep, life, View
<1>4. QED  BY <1>1, <1>2, <1>3, EngineSteps

LEMMA FlagsStep == ASSUME TypeOK, [Next]_vars PROVE Flags'
<1>0. ExecutorTypes /\ Flags  BY TypeParts
<1>1. CASE Start \/ Engine
  <2>1. UNCHANGED View  BY <1>1, BackgroundSteps
  <2>2. QED  BY <1>0, <2>1 DEF View, Flags
<1>2. CASE UNCHANGED vars
  BY <1>0, <1>2 DEF vars, scanning, statusView, companionView, upkeep, life, Flags
<1>3. old' \in BOOLEAN
  <2>1. CASE UNCHANGED vars \/ Leaves  BY <1>0, <2>1 DEF Leaves, vars, Flags
  <2>2. CASE Start \/ Engine
    <3>1. UNCHANGED View  BY <2>2, BackgroundSteps
    <3>2. QED  BY <1>0, <3>1 DEF View, Flags
  <2>3. ASSUME NEW jobs, Asks(jobs) PROVE old' \in BOOLEAN
    BY <1>0, <2>3, SubmitsTypes DEF Asks
  <2>4. ASSUME NEW a, NEW jobs, Answered(a, jobs) PROVE old' \in BOOLEAN
    BY <1>0, <2>4, SubmitsTypes DEF Answered
  <2>5. CASE Exit  BY <1>0, <2>5 DEF Exit, Flags
  <2>6. QED  BY <2>1, <2>2, <2>3, <2>4, <2>5, TkSteps, Zenon DEF Next
<1>4. ASSUME Deliver PROVE Flags'
  <2>1. PICK a \in Answers : Handles(a) /\ UNCHANGED life  BY <1>4, DeliverSteps
  <2>2. closing' \in BOOLEAN /\ started' \in BOOLEAN  BY <1>0, <2>1 DEF life, Flags
  <2>3. deadline' \in BOOLEAN
    <3>1. deadline' = deadline \/ deadline' = (deadline /\ ~(statusResolved' /\ companionResolved'))
      BY <2>1, Zenon DEF Handles, StatusDelivered, CompanionRendered, CompanionFailed, ScanComplete, ScanFailed,
         ActionDelivered, MaintenanceFinished, IntelligenceFinished, FileDelivered, Resolved
    <3>2. QED  BY <1>0, <3>1, Zenon DEF Flags
  <2>4. CASE StatusDelivered(a)
    <3>1. latestStatus' \in BOOLEAN  BY <2>4, Zenon DEF StatusDelivered, Exported
    <3>2. QED
      BY <1>0, <1>3, <2>2, <2>3, <2>4, <3>1 DEF StatusDelivered, companionView, scanning, upkeep, Flags
  <2>5. CASE CompanionRendered(a)
    BY <1>0, <1>3, <2>2, <2>3, <2>5 DEF CompanionRendered, FinishRefresh, statusView, scanning, Flags
  <2>6. CASE CompanionFailed(a)
    BY <1>0, <1>3, <2>2, <2>3, <2>6 DEF CompanionFailed, FinishRefresh, statusView, scanning, upkeep, Flags
  <2>7. CASE ScanComplete(a) \/ ScanFailed(a)
    BY <1>0, <1>3, <2>2, <2>7 DEF ScanComplete, ScanFailed, statusView, companionView, upkeep, Flags
  <2>8. CASE ActionDelivered \/ IntelligenceFinished \/ FileDelivered(a)
    BY <1>0, <1>3, <2>2, <2>8 DEF ActionDelivered, IntelligenceFinished, FileDelivered, AsksCompanion,
       scanning, statusView, companionView, upkeep, Flags
  <2>9. CASE MaintenanceFinished(a)
    BY <1>0, <1>3, <2>2, <2>9 DEF MaintenanceFinished, AsksCompanion, scanning, statusView, companionView, Flags
  <2>10. QED  BY <2>1, <2>4, <2>5, <2>6, <2>7, <2>8, <2>9, Zenon DEF Handles
<1>5. ASSUME Begins, dialog' \in BOOLEAN PROVE Flags'
  <2>1. lost' \in BOOLEAN
    <3>1. lost' = (Pending("scan") > 0)  BY <1>5, Zenon DEF Begins
    <3>2. QED  BY <3>1
  <2>2. QED
    BY <1>0, <1>3, <1>5, <2>1 DEF Begins, Untouched, statusView, companionView, upkeep, Flags
<1>6. CASE ClickScan \/ TrayScan  BY <1>0, <1>5, <1>6 DEF ClickScan, TrayScan, Flags
<1>7. CASE AnswerYes  BY <1>5, <1>7 DEF AnswerYes
<1>8. CASE FirstRefresh \/ ClickRefresh
  BY <1>0, <1>3, <1>8 DEF FirstRefresh, ClickRefresh, RefreshesAll, AsksCompanion, Untouched, scanning,
     statusView, companionView, upkeep, Flags
<1>9. CASE Deadline  BY <1>0, <1>9 DEF Deadline, scanning, upkeep, life, Flags
<1>10. ASSUME UNCHANGED <<scanning, statusView, companionView, maintaining, deadline, started>>, Untouched,
              inflight' \in BOOLEAN
       PROVE  Flags'
  BY <1>0, <1>3, <1>10 DEF Untouched, scanning, statusView, companionView, Flags
<1>11. CASE Periodic
  <2>1. inflight' = TRUE  BY <1>11, Zenon DEF Periodic, AsksCompanion
  <2>2. QED  BY <1>10, <1>11, <2>1 DEF Periodic, upkeep
<1>12. CASE RefreshIntelligence
  <2>1. inflight' \in BOOLEAN  BY <1>0, <1>12 DEF RefreshIntelligence, Flags
  <2>2. QED  BY <1>10, <1>12, <2>1 DEF RefreshIntelligence, upkeep
<1>13. CASE ClickFile
  <2>1. inflight' \in BOOLEAN  BY <1>0, <1>13 DEF ClickFile, Flags
  <2>2. QED  BY <1>10, <1>13, <2>1 DEF ClickFile, upkeep
<1>14. CASE HourPasses
  <2>1. inflight' \in BOOLEAN  BY <1>0, <1>14 DEF HourPasses, Flags
  <2>2. QED  BY <1>10, <1>14, <2>1 DEF HourPasses
<1>15. ASSUME UNCHANGED <<lost, statusView, companionView, inflight, upkeep, deadline, started>>, Untouched,
              dialog' \in BOOLEAN
       PROVE  Flags'
  BY <1>0, <1>3, <1>15 DEF Untouched, statusView, companionView, upkeep, Flags
<1>16. CASE ClickScanQuarantine  BY <1>15, <1>16 DEF ClickScanQuarantine
<1>17. CASE AnswerNo  BY <1>15, <1>17 DEF AnswerNo
<1>18. CASE CancelScan
  <2>1. dialog' \in BOOLEAN  BY <1>0, <1>18 DEF CancelScan, Flags
  <2>2. QED  BY <1>15, <1>18, <2>1 DEF CancelScan
<1>19. CASE ClickAction
  BY <1>0, <1>3, <1>19 DEF ClickAction, Untouched, scanning, statusView, upkeep, Flags
<1>20. CASE Exit
  BY <1>0, <1>20 DEF Exit, statusView, companionView, upkeep, Flags
<1>21. QED
  BY <1>1, <1>2, <1>4, <1>6, <1>7, <1>8, <1>9, <1>11, <1>12, <1>13, <1>14, <1>16, <1>17, <1>18,
     <1>19, <1>20, Zenon DEF Next, User, Timers

(* Who changes what the scans are held by.                                 *)
LEMMA ScanSteps ==
    ASSUME TypeOK, [Next]_vars
    PROVE  \/ UNCHANGED <<scanEvent, cancelled, scans, panel, lost>>
           \/ Begins
           \/ \E a \in Answers : /\ a = Head(ready) /\ ready # <<>> /\ a.kind = "scan"
                                 /\ ScanComplete(a) \/ ScanFailed(a)
           \/ CancelScan
           \/ Exit
<1>1. CASE Start \/ Engine  BY <1>1, BackgroundSteps DEF View
<1>2. CASE UNCHANGED vars  BY <1>2 DEF vars, scanning
<1>3. ASSUME Deliver
      PROVE  \/ UNCHANGED <<scanEvent, cancelled, scans, panel, lost>>
             \/ \E a \in Answers : /\ a = Head(ready) /\ ready # <<>> /\ a.kind = "scan"
                                   /\ ScanComplete(a) \/ ScanFailed(a)
  <2>1. PICK a \in Answers : a = Head(ready) /\ ready # <<>> /\ Handles(a)  BY <1>3, DeliverSteps
  <2>2. CASE a.kind = "scan"  BY <2>1, <2>2 DEF Handles
  <2>3. CASE a.kind # "scan"
    <3>1. UNCHANGED scanning
      BY <2>1, <2>3, Zenon DEF Handles, StatusDelivered, CompanionRendered, CompanionFailed,
         ActionDelivered, MaintenanceFinished, IntelligenceFinished, FileDelivered
    <3>2. QED  BY <3>1 DEF scanning
  <2>4. QED  BY <2>2, <2>3
<1>4. CASE ClickScan \/ AnswerYes \/ TrayScan  BY <1>4, Zenon DEF ClickScan, AnswerYes, TrayScan
<1>5. CASE FirstRefresh \/ ClickRefresh \/ Deadline \/ Periodic \/ RefreshIntelligence \/ ClickAction
           \/ ClickFile \/ HourPasses
  <2>1. UNCHANGED scanning
    BY <1>5, Zenon DEF FirstRefresh, ClickRefresh, RefreshesAll, Deadline, Periodic, RefreshIntelligence,
       ClickAction, ClickFile, HourPasses
  <2>2. QED  BY <2>1 DEF scanning
<1>6. CASE ClickScanQuarantine  BY <1>6 DEF ClickScanQuarantine
<1>7. CASE AnswerNo  BY <1>7 DEF AnswerNo
<1>8. QED  BY <1>1, <1>2, <1>3, <1>4, <1>5, <1>6, <1>7, Zenon DEF Next, User, Timers

LEMMA ScanTypesStep == ASSUME TypeOK, [Next]_vars PROVE ScanTypes'
<1>0. ScanTypes  BY TypeParts
<1>1. CASE UNCHANGED <<scanEvent, cancelled, scans, panel, lost>>  BY <1>0, <1>1 DEF ScanTypes
<1>2. CASE Begins
  <2>1. scans < MaxScans /\ scans' = scans + 1 /\ scanEvent' = scans' /\ panel' = "active" /\ cancelled' = cancelled
    BY <1>2 DEF Begins
  <2>2. scans' \in 0..MaxScans /\ scanEvent' \in 0..scans' /\ \A n \in 1..scans : n \in 1..scans'
    BY <1>0, <2>1 DEF ScanTypes
  <2>3. QED  BY <1>0, <2>1, <2>2 DEF ScanTypes
<1>3. ASSUME NEW a \in Answers, a.kind = "scan", ScanComplete(a) \/ ScanFailed(a) PROVE ScanTypes'
  <2>1. a.answer \in Shows \cup {"failed"}  BY <1>3 DEF Answers, Others, Reads
  <2>2. scanEvent' = 0 /\ UNCHANGED <<cancelled, scans>> /\ panel' \in Shows \cup {"failed"}
    BY <1>3, <2>1 DEF ScanComplete, ScanFailed
  <2>3. QED  BY <1>0, <2>2 DEF ScanTypes
<1>4. CASE CancelScan
  <2>1. /\ cancelled' = cancelled \cup {scanEvent} /\ scanEvent # 0 /\ panel' = "cancelling"
        /\ UNCHANGED <<scanEvent, scans>>
    BY <1>4 DEF CancelScan
  <2>2. QED  BY <1>0, <2>1 DEF ScanTypes
<1>5. CASE Exit
  <2>1. cancelled' = (IF scanEvent = 0 THEN cancelled ELSE cancelled \cup {scanEvent})
        /\ UNCHANGED <<scanEvent, scans, panel>>
    BY <1>5 DEF Exit, CancelsScan
  <2>2. QED  BY <1>0, <2>1 DEF ScanTypes
<1>6. QED  BY <1>1, <1>2, <1>3, <1>4, <1>5, ScanSteps

(* Who changes the cards.                                                  *)
LEMMA CardSteps ==
    ASSUME TypeOK, [Next]_vars
    PROVE  \/ UNCHANGED <<scanCard, statusResolved, latestStatus, windowsCard, companionResolved,
                          latestCompanion>>
           \/ \E a \in Answers : /\ ready # <<>> /\ a = Head(ready)
                                 /\ \/ a.kind = "status" /\ StatusDelivered(a)
                                    \/ a.kind = "companion" /\ (CompanionRendered(a) \/ CompanionFailed(a))
           \/ Deadline
<1> DEFINE Kept == UNCHANGED <<scanCard, statusResolved, latestStatus, windowsCard, companionResolved,
                               latestCompanion>>
<1>1. CASE Start \/ Engine  BY <1>1, BackgroundSteps DEF View
<1>2. ASSUME UNCHANGED <<statusView, companionView>> PROVE Kept
  BY <1>2 DEF statusView, companionView
<1>3. ASSUME Deliver
      PROVE  \/ Kept
             \/ \E a \in Answers : /\ ready # <<>> /\ a = Head(ready)
                                   /\ \/ a.kind = "status" /\ StatusDelivered(a)
                                      \/ a.kind = "companion" /\ (CompanionRendered(a) \/ CompanionFailed(a))
  <2>1. PICK a \in Answers : a = Head(ready) /\ ready # <<>> /\ Handles(a)  BY <1>3, DeliverSteps
  <2>2. CASE a.kind \in {"status", "companion"}  BY <2>1, <2>2 DEF Handles
  <2>3. CASE a.kind \notin {"status", "companion"}
    <3>1. UNCHANGED <<statusView, companionView>>
      BY <2>1, <2>3, Zenon DEF Handles, ScanComplete, ScanFailed, ActionDelivered, MaintenanceFinished,
         IntelligenceFinished, FileDelivered
    <3>2. QED  BY <1>2, <3>1
  <2>4. QED  BY <2>2, <2>3
<1>4. CASE ClickScan \/ AnswerYes \/ TrayScan
  <2>1. Begins  BY <1>4, Zenon DEF ClickScan, AnswerYes, TrayScan
  <2>2. QED  BY <1>2, <2>1, Zenon DEF Begins
<1>5. CASE FirstRefresh \/ ClickRefresh \/ Periodic \/ RefreshIntelligence \/ ClickFile \/ HourPasses
           \/ ClickScanQuarantine \/ AnswerNo \/ CancelScan \/ Exit
  <2>1. UNCHANGED <<statusView, companionView>>
    BY <1>5, Zenon DEF FirstRefresh, ClickRefresh, RefreshesAll, Periodic, RefreshIntelligence,
       ClickFile, HourPasses, ClickScanQuarantine, AnswerNo, CancelScan, Exit
  <2>2. QED  BY <1>2, <2>1
<1>6. CASE ClickAction  BY <1>6 DEF ClickAction, statusView
<1>7. CASE UNCHANGED vars  BY <1>2, <1>7, Zenon DEF vars
<1>8. QED  BY <1>1, <1>3, <1>4, <1>5, <1>6, <1>7, Zenon DEF Next, User, Timers

LEMMA HourStep == ASSUME TypeOK, [Next]_vars PROVE hour' \in {"never", "recent", "old"}
<1>0. hour \in {"never", "recent", "old"}  BY DEF TypeOK
<1>1. hour' = hour \/ hour' \in {"recent", "old"}
  <2>1. CASE Start \/ Engine  BY <2>1, BackgroundSteps DEF View
  <2>2. CASE UNCHANGED upkeep \/ hour' = hour \/ hour' = "recent"  BY <2>2 DEF upkeep
  <2>3. CASE HourPasses  BY <2>3 DEF HourPasses
  <2>4. CASE Deliver
    <3>1. PICK a \in Answers : Handles(a)  BY <2>4, DeliverSteps
    <3>2. UNCHANGED upkeep \/ hour' = hour \/ hour' = "recent"
      BY <3>1, Zenon DEF Handles, StatusDelivered, CompanionRendered, CompanionFailed, ScanComplete, ScanFailed,
         ActionDelivered, MaintenanceFinished, IntelligenceFinished, FileDelivered
    <3>3. QED  BY <2>2, <3>2
  <2>5. CASE ClickScan \/ AnswerYes \/ TrayScan
    <3>1. Begins  BY <2>5, Zenon DEF ClickScan, AnswerYes, TrayScan
    <3>2. QED  BY <2>2, <3>1, Zenon DEF Begins
  <2>6. CASE FirstRefresh \/ ClickRefresh \/ Deadline \/ Periodic \/ RefreshIntelligence \/ ClickFile
             \/ ClickAction \/ ClickScanQuarantine \/ AnswerNo \/ CancelScan \/ Exit
    <3>1. UNCHANGED upkeep
      BY <2>6, Zenon DEF FirstRefresh, ClickRefresh, RefreshesAll, Deadline, Periodic, RefreshIntelligence,
         ClickFile, ClickAction, ClickScanQuarantine, AnswerNo, CancelScan, Exit
    <3>2. QED  BY <2>2, <3>1
  <2>7. CASE UNCHANGED vars  BY <2>2, <2>7, Zenon DEF vars
  <2>8. QED  BY <2>1, <2>3, <2>4, <2>5, <2>6, <2>7, Zenon DEF Next, User, Timers
<1>2. QED  BY <1>0, <1>1

LEMMA CardStep ==
    ASSUME TypeOK, WaitIsHonest, ExportIsShown, [Next]_vars
    PROVE  CardTypes' /\ WaitIsHonest' /\ ExportIsShown'
<1>0. CardTypes /\ Flags  BY TypeParts
<1>h. hour' \in {"never", "recent", "old"}  BY HourStep
<1>1. CASE UNCHANGED <<scanCard, statusResolved, latestStatus, windowsCard, companionResolved, latestCompanion>>
  BY <1>0, <1>h, <1>1 DEF CardTypes, WaitIsHonest, ExportIsShown
<1>2. ASSUME NEW a \in Answers, a.kind = "status", StatusDelivered(a)
      PROVE  CardTypes' /\ WaitIsHonest' /\ ExportIsShown'
  <2>1. a.answer \in Shows \cup {"failed"}  BY <1>2 DEF Answers, Others, Reads
  <2>2. /\ scanCard' = a.answer /\ statusResolved' = TRUE /\ (latestStatus' <=> a.answer # "failed")
        /\ UNCHANGED <<windowsCard, companionResolved, latestCompanion>>
    BY <1>2 DEF StatusDelivered, Exported, companionView
  <2>3. \A x \in Shows : x \notin {"failed", "checking", "slow"}  BY DEF Shows
  <2>4. QED  BY <1>0, <1>h, <2>1, <2>2, <2>3 DEF CardTypes, WaitIsHonest, ExportIsShown
<1>3. ASSUME NEW a \in Answers, a.kind = "companion", CompanionRendered(a)
      PROVE  CardTypes' /\ WaitIsHonest' /\ ExportIsShown'
  <2>1. a.answer \in {"green", "red"}  BY <1>3 DEF Answers, Others, Reads, CompanionRendered
  <2>2. /\ windowsCard' = a.answer /\ companionResolved' = TRUE /\ latestCompanion' = TRUE
        /\ UNCHANGED <<scanCard, statusResolved, latestStatus>>
    BY <1>3 DEF CompanionRendered, statusView
  <2>3. QED  BY <1>0, <1>h, <2>1, <2>2 DEF CardTypes, WaitIsHonest, ExportIsShown
<1>4. ASSUME NEW a \in Answers, CompanionFailed(a)
      PROVE  CardTypes' /\ WaitIsHonest' /\ ExportIsShown'
  <2>1. /\ windowsCard' = "unavailable" /\ companionResolved' = TRUE /\ latestCompanion' = FALSE
        /\ UNCHANGED <<scanCard, statusResolved, latestStatus>>
    BY <1>4 DEF CompanionFailed, statusView
  <2>2. QED  BY <1>0, <1>h, <2>1 DEF CardTypes, WaitIsHonest, ExportIsShown
<1>5. CASE Deadline
  <2>1. /\ scanCard' = IF statusResolved THEN scanCard ELSE "slow"
        /\ windowsCard' = IF companionResolved THEN windowsCard ELSE "slow"
        /\ UNCHANGED <<statusResolved, latestStatus, companionResolved, latestCompanion>>
    BY <1>5 DEF Deadline, Waiting
  <2>2. "checking" \notin Shows /\ "slow" \notin Shows  BY DEF Shows
  <2>3. scanCard' \in {"checking", "slow"} <=> ~statusResolved'
    BY <2>1 DEF WaitIsHonest
  <2>4. windowsCard' \in {"checking", "slow"} <=> ~companionResolved'
    BY <2>1 DEF WaitIsHonest
  <2>5. latestStatus' <=> scanCard' \in Shows
    BY <2>1, <2>2 DEF WaitIsHonest, ExportIsShown
  <2>6. latestCompanion' <=> windowsCard' \in {"green", "red"}
    BY <2>1 DEF WaitIsHonest, ExportIsShown
  <2>7. CardTypes'  BY <1>0, <1>h, <2>1 DEF CardTypes
  <2>8. QED  BY <2>3, <2>4, <2>5, <2>6, <2>7 DEF WaitIsHonest, ExportIsShown
<1>6. QED  BY <1>1, <1>2, <1>3, <1>4, <1>5, CardSteps

LEMMA SummaryStep == ASSUME TypeOK, [Next]_vars PROVE SummaryTypes'
<1>0. SummaryTypes  BY TypeParts
<1>1. CASE lastScan' = lastScan  BY <1>0, <1>1 DEF SummaryTypes
<1>2. ASSUME NEW t, NEW phase, GoesOn(t, phase) PROVE SummaryTypes'
  BY <1>0, <1>2 DEF GoesOn, SummaryTypes
<1>3. ASSUME NEW t, NEW answer, NEW due, IsOver(t, answer, due) PROVE SummaryTypes'
  BY <1>1, <1>3 DEF IsOver
<1>4. CASE Start \/ UNCHANGED vars  BY <1>1, <1>4 DEF Start, vars
<1>5. QED  BY <1>1, <1>2, <1>3, <1>4, EngineSteps, TkSteps, Zenon DEF Next

(* Types, and what the cards say of the evidence, hold from the start.     *)
TypeInv == TypeOK /\ WaitIsHonest /\ ExportIsShown

LEMMA TypeInit == Init => TypeInv
<1> SUFFICES ASSUME Init PROVE TypeInv  OBVIOUS
<1>1. Flags  BY DEF Init, Flags
<1>2. ExecutorTypes  BY DEF Init, ExecutorTypes
<1>3. ScanTypes  BY DEF Init, ScanTypes
<1>4. CardTypes  BY DEF Init, CardTypes
<1>5. SummaryTypes  BY DEF Init, SummaryTypes
<1>6. WaitIsHonest /\ ExportIsShown  BY DEF Init, WaitIsHonest, ExportIsShown, Shows
<1>7. QED  BY <1>1, <1>2, <1>3, <1>4, <1>5, <1>6, TypeParts DEF TypeInv

LEMMA TypeStep == TypeInv /\ [Next]_vars => TypeInv'
BY TypeParts, FlagsStep, ExecutorStep, ScanTypesStep, CardStep, SummaryStep DEF TypeInv

LEMMA TypesHold == Spec => []TypeInv
BY TypeInit, TypeStep, PTL DEF Spec

(* Every answer that is posted has a form its handler can show, whatever   *)
(* the commands answer and however they end.                               *)
THEOREM TypesAreRight == Spec => []TypeOK
<1>1. TypeInv => TypeOK  BY DEF TypeInv
<1>2. QED  BY <1>1, TypesHold, PTL

-----------------------------------------------------------------------------
(* What is under way. The counts are those of the three places.            *)
LEMMA PendingCounts ==
    ASSUME TypeOK, NEW kind \in Kinds
    PROVE  /\ Pending(kind) \in Nat /\ Count(queue, kind) \in Nat /\ Count(running, kind) \in Nat
           /\ Count(ready, kind) \in Nat
           /\ \A i \in 1..Len(queue) : queue[i].kind = kind => Pending(kind) > 0
           /\ \A t \in Threads : running[t].kind = kind => Pending(kind) > 0
           /\ \A i \in 1..Len(ready) : ready[i].kind = kind => Pending(kind) > 0
<1>1. /\ queue \in Seq(Waits) /\ ready \in Seq(Answers) /\ running \in [Threads -> Begun \cup {Idle}]
  BY DEF TypeOK
<1>2. /\ Count(queue, kind) \in Nat /\ \A i \in 1..Len(queue) : queue[i].kind = kind => Count(queue, kind) > 0
  BY <1>1, CountOfSequence
<1>3. /\ Count(ready, kind) \in Nat /\ \A i \in 1..Len(ready) : ready[i].kind = kind => Count(ready, kind) > 0
  BY <1>1, CountOfSequence
<1>4. /\ Count(running, kind) \in Nat /\ \A t \in Threads : running[t].kind = kind => Count(running, kind) > 0
  BY <1>1, CountOfThreads
<1>5. \A x, y, z \in Nat : /\ x + y + z \in Nat
                           /\ x > 0 \/ y > 0 \/ z > 0 => x + y + z > 0
  OBVIOUS
<1>6. Pending(kind) = Count(queue, kind) + Count(running, kind) + Count(ready, kind)  BY DEF Pending
<1>7. /\ Pending(kind) \in Nat
      /\ Count(queue, kind) > 0 \/ Count(running, kind) > 0 \/ Count(ready, kind) > 0 => Pending(kind) > 0
  BY <1>2, <1>3, <1>4, <1>5, <1>6
<1>8. QED  BY <1>2, <1>3, <1>4, <1>7, Zenon

LEMMA UnderWayCounts ==
    ASSUME TypeOK PROVE UnderWay \in Nat /\ Cardinality(Working) \in Nat
<1>1. Cardinality(Working) = Busy(running)  BY DEF Working, Busy
<1>2. Len(queue) \in Nat /\ Len(ready) \in Nat  BY LenProperties DEF TypeOK
<1>3. Cardinality(Working) \in Nat  BY <1>1, BusyIsFinite, Zenon
<1>4. QED  BY <1>2, <1>3 DEF UnderWay

LEMMA PoolCounts ==
    ASSUME TypeOK, NEW t \in Threads, NEW job \in Begun \cup {Idle}, running' = [running EXCEPT ![t] = job]
    PROVE  /\ \A kind \in Kinds :
                Count(running', kind) = Count(running, kind) - One(running[t], kind) + One(job, kind)
           /\ running[t] # Idle /\ job # Idle => Cardinality(Working)' = Cardinality(Working)
           /\ running[t] # Idle /\ job = Idle => Cardinality(Working)' = Cardinality(Working) - 1
           /\ running[t] = Idle /\ job # Idle => Cardinality(Working)' = Cardinality(Working) + 1
<1> DEFINE X == Begun \cup {Idle}
<1>1. running \in [Threads -> X] /\ job \in X  BY DEF TypeOK
<1>2. running' = With(running, t, job)  BY DEF With
<1> HIDE DEF X
<1>3. ASSUME NEW kind \in Kinds
      PROVE  Count(running', kind) = Count(running, kind) - One(running[t], kind) + One(job, kind)
  <2>1. Count(With(running, t, job), kind) = Count(running, kind) - One(running[t], kind) + One(job, kind)
    BY <1>1, CountOfChanged
  <2>2. QED  BY <1>2, <2>1, Zenon
<1>4. Busy(running') = Busy(running) - (IF running[t] = Idle THEN 0 ELSE 1) + (IF job = Idle THEN 0 ELSE 1)
  <2>1. Busy(With(running, t, job)) = Busy(running) - (IF running[t] = Idle THEN 0 ELSE 1)
                                                    + (IF job = Idle THEN 0 ELSE 1)
    BY <1>1, WorkingOfChanged
  <2>2. QED  BY <1>2, <2>1, Zenon
<1>5. Cardinality(Working) = Busy(running) /\ Cardinality(Working)' = Busy(running')  BY Zenon DEF Working, Busy
<1> DEFINE before == Busy(running)
           after == Busy(running')
<1>6. before \in Nat  BY BusyIsFinite
<1>7. after = before - (IF running[t] = Idle THEN 0 ELSE 1) + (IF job = Idle THEN 0 ELSE 1)  BY <1>4
<1>8. Cardinality(Working) = before /\ Cardinality(Working)' = after  BY <1>5
<1> HIDE DEF before, after
<1>9. /\ running[t] # Idle /\ job # Idle => after = before
      /\ running[t] # Idle /\ job = Idle => after = before - 1
      /\ running[t] = Idle /\ job # Idle => after = before + 1
  BY <1>6, <1>7
<1>10. QED  BY <1>3, <1>8, <1>9, Zenon

(* The thread that starts a job takes it from the queue; one that ends it  *)
(* posts it, unless the window closes.                                     *)
LEMMA StartCounts ==
    ASSUME TypeOK, Start
    PROVE  (\A kind \in Kinds : Pending(kind)' = Pending(kind)) /\ UnderWay' = UnderWay
<1>1. PICK t \in Threads :
              /\ queue # <<>> /\ queue' = Tail(queue) /\ Head(queue) \in Waits
              /\ running[t] = Idle /\ Resolve(Head(queue)) \in Begun
              /\ running' = [running EXCEPT ![t] = Resolve(Head(queue))]
  BY StartTypes
<1> DEFINE job == Resolve(Head(queue))
<1>2. ready' = ready  BY DEF Start
<1>3. queue \in Seq(Waits) /\ running \in [Threads -> Begun \cup {Idle}]  BY DEF TypeOK
<1>4. job.kind = Head(queue).kind  BY <1>1 DEF Resolve, Waits
<1>5. ASSUME NEW kind \in Kinds PROVE Pending(kind)' = Pending(kind)
  <2>1. Count(Tail(queue), kind) = Count(queue, kind) - One(Head(queue), kind)
    BY <1>1, <1>3, CountOfTail
  <2>2. job \in Begun \cup {Idle}  BY <1>1
  <2>9. running' = [running EXCEPT ![t] = job]  BY <1>1
  <2> HIDE DEF job
  <2>3. Count(running', kind) = Count(running, kind) - One(running[t], kind) + One(job, kind)
    BY <2>2, <2>9, PoolCounts
  <2>4. One(running[t], kind) = 0 /\ One(job, kind) = One(Head(queue), kind) /\ One(job, kind) \in Nat
    BY <1>1, <1>4 DEF One, Idle, Kinds
  <2>5. Count(queue, kind) \in Nat /\ Count(running, kind) \in Nat /\ Count(ready, kind) \in Nat
    BY PendingCounts
  <2>6. Pending(kind)' = Count(queue', kind) + Count(running', kind) + Count(ready', kind)
    BY DEF Pending
  <2>7. /\ Count(queue', kind) = Count(queue, kind) - One(Head(queue), kind)
        /\ Count(running', kind) = Count(running, kind) - One(running[t], kind) + One(job, kind)
        /\ Count(ready', kind) = Count(ready, kind)
    BY <1>1, <1>2, <2>1, <2>3 DEF job
  <2>8. QED  BY <2>4, <2>5, <2>6, <2>7 DEF Pending
<1>6. UnderWay' = UnderWay
  <2>1. job \in Begun \cup {Idle} /\ job # Idle  BY <1>1 DEF Begun, Idle, Kinds, Reads
  <2>2. running' = [running EXCEPT ![t] = job]  BY <1>1
  <2> HIDE DEF job
  <2>3. Cardinality(Working)' = Cardinality(Working) + 1
    BY <1>1, <2>1, <2>2, PoolCounts, UnderWayCounts
  <2>4. Len(queue') = Len(queue) - 1 /\ Len(queue) \in Nat /\ Len(ready) \in Nat
    BY <1>1, <1>3, HeadTailProperties, LenProperties DEF TypeOK
  <2>5. QED  BY <1>2, <2>3, <2>4, UnderWayCounts DEF UnderWay
<1>7. QED  BY <1>5, <1>6

LEMMA GoesOnCounts ==
    ASSUME TypeOK, NEW t, NEW phase, GoesOn(t, phase)
    PROVE  (\A kind \in Kinds : Pending(kind)' = Pending(kind)) /\ UnderWay' = UnderWay
<1> DEFINE job == [running[t] EXCEPT !.phase = phase]
<1>1. job \in Begun /\ running[t] # Idle /\ running' = [running EXCEPT ![t] = job] /\ t \in Threads
  BY GoesOnTypes DEF GoesOn
<1>2. UNCHANGED <<queue, ready>>  BY DEF GoesOn, Changes
<1>3. running \in [Threads -> Begun \cup {Idle}] /\ job \in Begun \cup {Idle}  BY <1>1 DEF TypeOK
<1>4. job.kind = running[t].kind
  <2>1. running[t] \in Begun  BY <1>1, <1>3
  <2>2. QED  BY <2>1 DEF Begun
<1>5. job # Idle  BY <1>1 DEF Begun, Idle, Kinds, Reads
<1> HIDE DEF job
<1>6. ASSUME NEW kind \in Kinds PROVE Pending(kind)' = Pending(kind)
  <2>1. Count(running', kind) = Count(running, kind) - One(running[t], kind) + One(job, kind)
    BY <1>1, <1>3, PoolCounts
  <2>2. One(job, kind) = One(running[t], kind) /\ One(job, kind) \in Nat  BY <1>4 DEF One
  <2>3. Count(running', kind) = Count(running, kind)  BY <1>1, <2>1, <2>2, PendingCounts
  <2>4. Pending(kind)' = Count(queue', kind) + Count(running', kind) + Count(ready', kind)
    BY DEF Pending
  <2>5. QED  BY <1>2, <2>3, <2>4 DEF Pending
<1>7. UnderWay' = UnderWay
  <2>1. Cardinality(Working)' = Cardinality(Working)
    BY <1>1, <1>3, <1>5, PoolCounts, UnderWayCounts
  <2>2. QED  BY <1>2, <2>1 DEF UnderWay
<1>8. QED  BY <1>6, <1>7

LEMMA IsOverCounts ==
    ASSUME TypeOK, ~closing, NEW t, NEW answer, NEW due, IsOver(t, answer, due)
    PROVE  (\A kind \in Kinds : Pending(kind)' = Pending(kind)) /\ UnderWay' = UnderWay
<1> DEFINE post == Posted(running[t], answer, due)
<1>1. /\ running' = [running EXCEPT ![t] = Idle] /\ queue' = queue /\ ready' = Append(ready, post)
      /\ t \in Threads /\ running[t] # Idle
  BY DEF IsOver, Ends
<1>2. post \in Answers /\ post.kind = running[t].kind  BY IsOverTypes DEF Posted
<1>3. ready \in Seq(Answers) /\ running \in [Threads -> Begun \cup {Idle}] /\ Idle \in Begun \cup {Idle}
  BY DEF TypeOK
<1> HIDE DEF post
<1>4. ASSUME NEW kind \in Kinds PROVE Pending(kind)' = Pending(kind)
  <2>1. Count(running', kind) = Count(running, kind) - One(running[t], kind) + One(Idle, kind)
    BY <1>1, <1>3, PoolCounts
  <2>2. Count(Append(ready, post), kind) = Count(ready, kind) + One(post, kind)
    BY <1>2, <1>3, CountOfAppended
  <2>3. One(Idle, kind) = 0 /\ One(post, kind) = One(running[t], kind) /\ One(post, kind) \in Nat
    BY <1>2 DEF One, Idle, Kinds
  <2>4. Pending(kind)' = Count(queue', kind) + Count(running', kind) + Count(ready', kind)
    BY DEF Pending
  <2>5. /\ Count(running', kind) = Count(running, kind) - One(post, kind)
        /\ Count(ready', kind) = Count(ready, kind) + One(post, kind)
    BY <1>1, <2>1, <2>2, <2>3, PendingCounts
  <2>6. QED  BY <1>1, <2>3, <2>4, <2>5, PendingCounts DEF Pending
<1>5. UnderWay' = UnderWay
  <2>2. Cardinality(Working)' = Cardinality(Working) - 1
    BY <1>1, <1>3, PoolCounts, UnderWayCounts
  <2>3. Len(ready') = Len(ready) + 1 /\ Len(ready) \in Nat /\ Len(queue) \in Nat
    BY <1>1, <1>2, <1>3, AppendProperties, LenProperties DEF TypeOK
  <2>4. Len(queue') = Len(queue)  BY <1>1
  <2>5. UnderWay' = Len(queue') + Cardinality(Working)' + Len(ready')  BY DEF UnderWay
  <2>6. Cardinality(Working) \in Nat  BY UnderWayCounts
  <2>7. QED  BY <2>2, <2>3, <2>4, <2>5, <2>6 DEF UnderWay
<1>6. QED  BY <1>4, <1>5

(* What the operations that are submitted together count for.              *)
Asked(jobs, status, companion, scan, maintain) ==
    /\ jobs \in Seq(Waits)
    /\ Count(jobs, "status") = status /\ Count(jobs, "companion") = companion
    /\ Count(jobs, "scan") = scan /\ Count(jobs, "maintain") = maintain

LEMMA JobCounts ==
    /\ Asked(<<>>, 0, 0, 0, 0) /\ Asked(StatusJob, 1, 0, 0, 0) /\ Asked(PanelJob, 0, 0, 0, 0)
    /\ Asked(CompanionJob, 0, IF inflight THEN 0 ELSE 1, 0, 0)
    /\ Asked(StatusJob \o CompanionJob, 1, IF inflight THEN 0 ELSE 1, 0, 0)
    /\ Asked(<<Job("scan")>>, 0, 0, 1, 0) /\ Asked(<<Job("maintain")>>, 0, 0, 0, 1)
    /\ \A kind \in {"action", "intelligence", "feed", "restore", "panel"} :
           Asked(<<Job(kind)>>, 0, 0, 0, 0)
<1>1. \A kind, other : Count(<<Job(kind)>>, other) = IF kind = other THEN 1 ELSE 0
  <2>1. TAKE kind, other
  <2> DEFINE job == Job(kind)
  <2>2. One(job, other) = IF kind = other THEN 1 ELSE 0  BY DEF One, Job
  <2> HIDE DEF job
  <2>3. Count(<<job>>, other) = One(job, other)  BY CountOfOne
  <2>4. QED  BY <2>2, <2>3 DEF job
<1>2. \A other : Count(<<>>, other) = 0  BY CountOfNone
<1>3. \A other : Count(StatusJob, other) = IF other = "status" THEN 1 ELSE 0  BY <1>1 DEF StatusJob
<1>4. \A other : Count(PanelJob, other) = IF other = "panel" THEN 1 ELSE 0  BY <1>1 DEF PanelJob
<1>5. \A other : Count(CompanionJob, other) = IF other = "companion" /\ ~inflight THEN 1 ELSE 0
  <2>1. CASE inflight  BY <1>2, <2>1 DEF CompanionJob
  <2>2. CASE ~inflight  BY <1>1, <2>2 DEF CompanionJob
  <2>3. QED  BY <2>1, <2>2
<1>6. \A other : Count(StatusJob \o CompanionJob, other) = Count(StatusJob, other) + Count(CompanionJob, other)
  BY JobsWait, CountOfJoined
<1>7. Asked(<<>>, 0, 0, 0, 0)  BY <1>2, JobsWait DEF Asked
<1>8. Asked(StatusJob, 1, 0, 0, 0)  BY <1>3, JobsWait DEF Asked
<1>9. Asked(PanelJob, 0, 0, 0, 0)  BY <1>4, JobsWait DEF Asked
<1>10. Asked(CompanionJob, 0, IF inflight THEN 0 ELSE 1, 0, 0)  BY <1>5, JobsWait DEF Asked
<1>11. Asked(StatusJob \o CompanionJob, 1, IF inflight THEN 0 ELSE 1, 0, 0)
  BY <1>3, <1>5, <1>6, JobsWait DEF Asked
<1>12. \A kind \in Kinds : Asked(<<Job(kind)>>, IF kind = "status" THEN 1 ELSE 0,
            IF kind = "companion" THEN 1 ELSE 0, IF kind = "scan" THEN 1 ELSE 0, IF kind = "maintain" THEN 1 ELSE 0)
  BY <1>1, JobsWait DEF Asked
<1>13. Asked(<<Job("scan")>>, 0, 0, 1, 0) /\ Asked(<<Job("maintain")>>, 0, 0, 0, 1)
  BY <1>12 DEF Kinds
<1>14. \A kind \in {"action", "intelligence", "feed", "restore", "panel"} : Asked(<<Job(kind)>>, 0, 0, 0, 0)
  BY <1>12 DEF Kinds
<1>15. QED  BY <1>7, <1>8, <1>9, <1>10, <1>11, <1>13, <1>14

(* A step of the Tk thread submits jobs, and takes an answer of the kind   *)
(* gone, or none.                                                          *)
Moves(jobs, gone) ==
    \/ gone = "none" /\ Asks(jobs)
    \/ \E a \in Answers : gone = a.kind /\ Answered(a, jobs)
    \/ gone = "none" /\ jobs = <<>> /\ Leaves

LEMMA MovesCounts ==
    ASSUME TypeOK, NEW jobs, NEW gone, Moves(jobs, gone)
    PROVE  /\ \A kind \in Kinds :
                Pending(kind)' = Pending(kind) + Count(jobs, kind) - (IF gone = kind THEN 1 ELSE 0)
           /\ busy' - UnderWay' = busy - UnderWay
           /\ UNCHANGED running
<1>1. queue \in Seq(Waits) /\ ready \in Seq(Answers) /\ busy \in Int  BY DEF TypeOK
<1>2. jobs \in Seq(Waits) /\ UNCHANGED running
  BY JobsWait DEF Moves, Asks, Answered, Leaves, executor
<1>3. /\ queue' = queue \o jobs
      /\ \/ gone = "none" /\ ready' = ready /\ busy' = busy + Len(jobs)
         \/ /\ ready # <<>> /\ ready' = Tail(ready) /\ gone = Head(ready).kind /\ gone \in Kinds
            /\ busy' = busy + Len(jobs) - 1
  <2>1. CASE gone = "none" /\ Asks(jobs)
    <3>1. queue' = queue \o jobs /\ ready' = ready /\ busy' = busy + Len(jobs) - 0
      BY <2>1, Zenon DEF Asks, Submits, Enqueues
    <3>2. Len(jobs) \in Nat  BY <1>2, LenProperties
    <3>3. QED  BY <1>1, <2>1, <3>1, <3>2
  <2>2. ASSUME NEW a \in Answers, gone = a.kind, Answered(a, jobs)
        PROVE  /\ queue' = queue \o jobs
               /\ ready # <<>> /\ ready' = Tail(ready) /\ gone = Head(ready).kind /\ gone \in Kinds
               /\ busy' = busy + Len(jobs) - 1
    <3>1. gone \in Kinds  BY <2>2 DEF Answers, Kinds, Reads, Others
    <3>2. QED  BY <2>2, <3>1, Zenon DEF Answered, Submitted, Submits, Enqueues
  <2>3. CASE gone = "none" /\ jobs = <<>> /\ Leaves
    <3>1. queue' = queue /\ ready' = ready /\ busy' = busy /\ Len(jobs) = 0
      BY <2>3 DEF Leaves, executor
    <3>2. queue \o jobs = queue  BY <1>1, <2>3, ConcatProperties
    <3>3. QED  BY <1>1, <2>3, <3>1, <3>2
  <2>4. QED  BY <2>1, <2>2, <2>3 DEF Moves
<1>4. ASSUME NEW kind \in Kinds
      PROVE  Pending(kind)' = Pending(kind) + Count(jobs, kind) - (IF gone = kind THEN 1 ELSE 0)
  <2>1. Count(queue \o jobs, kind) = Count(queue, kind) + Count(jobs, kind)  BY <1>1, <1>2, CountOfJoined
  <2>2. Count(queue', kind) = Count(queue, kind) + Count(jobs, kind)  BY <1>3, <2>1, Zenon
  <2>3. Count(ready', kind) = Count(ready, kind) - (IF gone = kind THEN 1 ELSE 0)
    <3>1. CASE gone = "none" /\ ready' = ready
      <4>1. gone # kind  BY <3>1 DEF Kinds
      <4>2. Count(ready', kind) = Count(ready, kind)  BY <3>1, Zenon
      <4>3. QED  BY <4>1, <4>2, PendingCounts
    <3>2. CASE ready # <<>> /\ ready' = Tail(ready) /\ gone = Head(ready).kind
      <4>1. Count(Tail(ready), kind) = Count(ready, kind) - One(Head(ready), kind)
        BY <1>1, <3>2, CountOfTail
      <4>2. QED  BY <3>2, <4>1 DEF One
    <3>3. QED  BY <1>3, <3>1, <3>2
  <2>4. Count(running', kind) = Count(running, kind)  BY <1>2, Zenon
  <2>5. Pending(kind)' = Count(queue', kind) + Count(running', kind) + Count(ready', kind)  BY DEF Pending
  <2>6. Count(jobs, kind) \in Nat  BY <1>2, CountOfSequence
  <2>7. QED  BY <2>2, <2>3, <2>4, <2>5, <2>6, PendingCounts DEF Pending
<1>5. busy' - UnderWay' = busy - UnderWay
  <2>1. Len(queue') = Len(queue) + Len(jobs) /\ Len(queue) \in Nat /\ Len(jobs) \in Nat
    BY <1>1, <1>2, <1>3, ConcatProperties, LenProperties
  <2>2. Len(ready) \in Nat
        /\ \/ Len(ready') = Len(ready) /\ busy' = busy + Len(jobs)
           \/ Len(ready') = Len(ready) - 1 /\ busy' = busy + Len(jobs) - 1
    BY <1>1, <1>3, HeadTailProperties, LenProperties
  <2>3. Cardinality(Working)' = Cardinality(Working)  BY <1>2, Zenon DEF Working
  <2>4. UnderWay' = Len(queue') + Cardinality(Working)' + Len(ready')  BY DEF UnderWay
  <2> DEFINE c == Cardinality(Working)
  <2>5. c \in Nat /\ UnderWay = Len(queue) + c + Len(ready) /\ UnderWay' = Len(queue') + c + Len(ready')
    BY <2>3, <2>4, UnderWayCounts DEF UnderWay
  <2>6. busy \in Int  BY <1>1
  <2> DEFINE q == Len(queue)
             k == Len(queue')
             r == Len(ready)
             l == Len(ready')
             j == Len(jobs)
  <2>7. q \in Nat /\ r \in Nat /\ j \in Nat /\ c \in Nat /\ k = q + j  BY <2>1, <2>2, <2>5
  <2>8. (l = r /\ busy' = busy + j) \/ (l = r - 1 /\ busy' = busy + j - 1)  BY <2>2
  <2>9. UnderWay = q + c + r /\ UnderWay' = k + c + l  BY <2>5
  <2> HIDE DEF c, q, k, r, l, j
  <2>10. CASE l = r /\ busy' = busy + j
    <3>1. UnderWay' = UnderWay + j /\ UnderWay \in Int  BY <2>7, <2>9, <2>10
    <3>2. QED  BY <2>6, <2>7, <2>10, <3>1
  <2>11. CASE l = r - 1 /\ busy' = busy + j - 1
    <3>1. UnderWay' = UnderWay + j - 1 /\ UnderWay \in Int  BY <2>7, <2>9, <2>11
    <3>2. QED  BY <2>6, <2>7, <2>11, <3>1
  <2>12. QED  BY <2>8, <2>10, <2>11
<1>6. QED  BY <1>2, <1>4, <1>5

(* What the flags of the companion's refresh, of the maintenance and of    *)
(* the scan become, by the jobs of their kind that are submitted (c) and   *)
(* the answer that is taken.                                               *)
CompanionAccount(c, gone) ==
    \/ c = 0 /\ gone # "companion" /\ inflight' = inflight
    \/ c = (IF inflight THEN 0 ELSE 1) /\ gone # "companion" /\ inflight' = TRUE
    \/ c = 0 /\ gone = "companion" /\ inflight' = FALSE
MaintainAccount(c, gone) ==
    \/ c = 0 /\ gone # "maintain" /\ maintaining' = maintaining
    \/ c = 1 /\ gone # "maintain" /\ ~maintaining /\ maintaining' = TRUE
    \/ c = 0 /\ gone = "maintain" /\ maintaining' = FALSE
ScanAccount(c, gone) ==
    \/ c = 0 /\ gone # "scan" /\ scanEvent' = scanEvent /\ lost' = lost
    \/ c = 1 /\ gone # "scan" /\ scanEvent' # 0 /\ lost' = (Pending("scan") > 0)
    \/ c = 0 /\ gone = "scan" /\ scanEvent' = 0 /\ lost' = lost
Accounts(jobs, gone) ==
    /\ CompanionAccount(Count(jobs, "companion"), gone)
    /\ MaintainAccount(Count(jobs, "maintain"), gone)
    /\ ScanAccount(Count(jobs, "scan"), gone)

LEMMA HandlerMoves ==
    ASSUME TypeOK, NEW a \in Answers, Handles(a)
    PROVE  \E jobs : jobs \in Seq(Waits) /\ Submitted(jobs) /\ Accounts(jobs, a.kind)
<1>0. \A jobs : Submits(jobs, 1) => Submitted(jobs)  BY Zenon DEF Submitted
<1>1. ASSUME NEW jobs, NEW s, Asked(jobs, s, 0, 0, 0), a.kind \notin {"companion", "maintain", "scan"},
             UNCHANGED <<inflight, maintaining, scanEvent, lost>>
      PROVE  jobs \in Seq(Waits) /\ Accounts(jobs, a.kind)
  BY <1>1 DEF Asked, Accounts, CompanionAccount, MaintainAccount, ScanAccount
<1>2. CASE a.kind = "status" /\ StatusDelivered(a)
  <2>1. Submits(<<>>, 1) /\ UNCHANGED <<inflight, maintaining, scanEvent, lost>>
    BY <1>2 DEF StatusDelivered, scanning, upkeep
  <2>2. <<>> \in Seq(Waits) /\ Accounts(<<>>, a.kind)  BY <1>1, <1>2, <2>1, JobCounts
  <2>3. QED  BY <1>0, <2>1, <2>2, Zenon
<1>3. CASE a.kind = "companion" /\ CompanionRendered(a)
  <2>1. inflight' = FALSE /\ UNCHANGED <<scanEvent, lost>>
    BY <1>3 DEF CompanionRendered, FinishRefresh, scanning
  <2>2. CASE Submits(<<>>, 1) /\ UNCHANGED <<maintaining, hour>>
    <3>1. <<>> \in Seq(Waits) /\ Accounts(<<>>, a.kind)
      BY <1>3, <2>1, <2>2, JobCounts DEF Asked, Accounts, CompanionAccount, MaintainAccount, ScanAccount
    <3>2. QED  BY <1>0, <2>2, <3>1, Zenon
  <2>3. CASE MayMaintain(a) /\ Submits(<<Job("maintain")>>, 1) /\ maintaining' = TRUE
    <3> DEFINE jobs == <<Job("maintain")>>
    <3>1. Asked(jobs, 0, 0, 0, 1) /\ Submits(jobs, 1) /\ ~maintaining  BY <2>3, JobCounts DEF MayMaintain
    <3> HIDE DEF jobs
    <3>2. jobs \in Seq(Waits) /\ Accounts(jobs, a.kind)
      BY <1>3, <2>1, <2>3, <3>1 DEF Asked, Accounts, CompanionAccount, MaintainAccount, ScanAccount
    <3>3. QED  BY <1>0, <3>1, <3>2, Zenon
  <2>4. QED  BY <1>3, <2>2, <2>3, Zenon DEF CompanionRendered
<1>4. CASE a.kind = "companion" /\ CompanionFailed(a)
  <2>1. Submits(<<>>, 1) /\ inflight' = FALSE /\ UNCHANGED <<maintaining, scanEvent, lost>>
    BY <1>4 DEF CompanionFailed, FinishRefresh, scanning, upkeep
  <2>2. <<>> \in Seq(Waits) /\ Accounts(<<>>, a.kind)
    BY <1>4, <2>1, JobCounts DEF Asked, Accounts, CompanionAccount, MaintainAccount, ScanAccount
  <2>3. QED  BY <1>0, <2>1, <2>2, Zenon
<1>5. CASE a.kind = "scan" /\ (ScanComplete(a) \/ ScanFailed(a))
  <2>1. PICK jobs \in {StatusJob, <<>>} : Submitted(jobs)
    BY <1>0, <1>5, Zenon DEF ScanComplete, ScanFailed, Submitted
  <2>2. scanEvent' = 0 /\ UNCHANGED <<inflight, maintaining, lost>>
    BY <1>5 DEF ScanComplete, ScanFailed, upkeep
  <2>3. \E s : Asked(jobs, s, 0, 0, 0)  BY <2>1, JobCounts
  <2>4. jobs \in Seq(Waits) /\ Accounts(jobs, a.kind)
    BY <1>5, <2>2, <2>3 DEF Asked, Accounts, CompanionAccount, MaintainAccount, ScanAccount
  <2>5. QED  BY <2>1, <2>4, Zenon
<1>6. CASE a.kind = "action" /\ ActionDelivered
  <2>1. Submits(CompanionJob, 1) /\ inflight' = TRUE /\ UNCHANGED <<maintaining, scanEvent, lost>>
    BY <1>6 DEF ActionDelivered, AsksCompanion, scanning, upkeep
  <2>2. CompanionJob \in Seq(Waits) /\ Accounts(CompanionJob, a.kind)
    BY <1>6, <2>1, JobCounts DEF Asked, Accounts, CompanionAccount, MaintainAccount, ScanAccount
  <2>3. QED  BY <1>0, <2>1, <2>2, Zenon
<1>7. CASE a.kind = "maintain" /\ MaintenanceFinished(a)
  <2>1. maintaining' = FALSE /\ UNCHANGED <<scanEvent, lost>>  BY <1>7 DEF MaintenanceFinished, scanning
  <2>2. CASE Submits(CompanionJob, 1) /\ AsksCompanion
    <3>1. CompanionJob \in Seq(Waits) /\ Accounts(CompanionJob, a.kind)
      BY <1>7, <2>1, <2>2, JobCounts
         DEF AsksCompanion, Asked, Accounts, CompanionAccount, MaintainAccount, ScanAccount
    <3>2. QED  BY <1>0, <2>2, <3>1, Zenon
  <2>3. CASE Submits(<<>>, 1) /\ UNCHANGED inflight
    <3>1. <<>> \in Seq(Waits) /\ Accounts(<<>>, a.kind)
      BY <1>7, <2>1, <2>3, JobCounts DEF Asked, Accounts, CompanionAccount, MaintainAccount, ScanAccount
    <3>2. QED  BY <1>0, <2>3, <3>1, Zenon
  <2>4. QED  BY <1>7, <2>2, <2>3, Zenon DEF MaintenanceFinished
<1>8. CASE a.kind = "intelligence" /\ IntelligenceFinished
  <2>1. Submits(StatusJob, 1) /\ UNCHANGED <<inflight, maintaining, scanEvent, lost>>
    BY <1>8 DEF IntelligenceFinished, scanning, upkeep
  <2>2. StatusJob \in Seq(Waits) /\ Accounts(StatusJob, a.kind)  BY <1>1, <1>8, <2>1, JobCounts
  <2>3. QED  BY <1>0, <2>1, <2>2, Zenon
<1>9. CASE a.kind \in {"feed", "restore", "panel"} /\ FileDelivered(a)
  <2> DEFINE jobs == IF a.answer = "failed" THEN <<>>
                     ELSE CASE a.kind = "feed" -> StatusJob [] a.kind = "restore" -> PanelJob
                            [] OTHER -> <<>>
  <2>1. jobs \in {<<>>, StatusJob, PanelJob}  OBVIOUS
  <2>2. Submits(jobs, 1) /\ UNCHANGED <<scanning, inflight, upkeep>>  BY <1>9, Zenon DEF FileDelivered
  <2> HIDE DEF jobs
  <2>3. \E s : Asked(jobs, s, 0, 0, 0)  BY <2>1, JobCounts
  <2>4. UNCHANGED <<inflight, maintaining, scanEvent, lost>>  BY <2>2 DEF scanning, upkeep
  <2>5. jobs \in Seq(Waits) /\ Accounts(jobs, a.kind)  BY <1>1, <1>9, <2>3, <2>4
  <2>6. QED  BY <1>0, <2>2, <2>5, Zenon
<1>10. QED  BY <1>2, <1>3, <1>4, <1>5, <1>6, <1>7, <1>8, <1>9, Zenon DEF Handles

LEMMA AskMoves ==
    ASSUME TypeOK, User \/ Timers
    PROVE  Exit \/ (UNCHANGED closing /\ \E jobs : Moves(jobs, "none") /\ Accounts(jobs, "none"))
<1> DEFINE Goal == UNCHANGED closing /\ \E jobs : Moves(jobs, "none") /\ Accounts(jobs, "none")
<1>1. ASSUME NEW jobs, Accounts(jobs, "none"), jobs \in Seq(Waits), Submits(jobs, 0), Untouched PROVE Goal
  <2>1. Moves(jobs, "none") /\ UNCHANGED closing  BY <1>1 DEF Moves, Asks, Untouched
  <2>2. QED  BY <1>1, <2>1, Zenon
<1>2. ASSUME Leaves, UNCHANGED <<closing, inflight, maintaining, scanEvent, lost>> PROVE Goal
  <2>1. Accounts(<<>>, "none")
    BY <1>2, JobCounts DEF Asked, Accounts, CompanionAccount, MaintainAccount, ScanAccount
  <2>2. Moves(<<>>, "none") /\ UNCHANGED closing  BY <1>2, Zenon DEF Moves
  <2>3. QED  BY <2>1, <2>2, Zenon
<1>3. ASSUME NEW kind \in {"action", "intelligence", "feed", "restore", "panel"},
             Submits(<<Job(kind)>>, 0), Untouched, UNCHANGED <<inflight, maintaining, scanEvent, lost>>
      PROVE  Goal
  <2> DEFINE jobs == <<Job(kind)>>
  <2>1. Asked(jobs, 0, 0, 0, 0)  BY JobCounts
  <2> HIDE DEF jobs
  <2>2. jobs \in Seq(Waits) /\ Accounts(jobs, "none")
    BY <1>3, <2>1 DEF Asked, Accounts, CompanionAccount, MaintainAccount, ScanAccount
  <2>3. QED  BY <1>1, <1>3, <2>2 DEF jobs
<1>4. ASSUME NEW jobs, NEW s, Asked(jobs, s, IF inflight THEN 0 ELSE 1, 0, 0), Submits(jobs, 0), Untouched,
             AsksCompanion, UNCHANGED <<maintaining, scanEvent, lost>>
      PROVE  Goal
  <2>1. jobs \in Seq(Waits) /\ Accounts(jobs, "none")
    BY <1>4 DEF AsksCompanion, Asked, Accounts, CompanionAccount, MaintainAccount, ScanAccount
  <2>2. QED  BY <1>1, <1>4, <2>1
<1>5. ASSUME Begins PROVE Goal
  <2> DEFINE jobs == <<Job("scan")>>
  <2>1. Asked(jobs, 0, 0, 1, 0) /\ Submits(jobs, 0)  BY <1>5, JobCounts DEF Begins
  <2> HIDE DEF jobs
  <2>2. lost' = (Pending("scan") > 0) /\ scanEvent' = scans + 1 /\ Untouched
    BY <1>5, Zenon DEF Begins
  <2>3. UNCHANGED <<inflight, maintaining>>  BY <1>5 DEF Begins, upkeep
  <2>4. scanEvent' # 0  BY <2>2 DEF TypeOK
  <2>5. jobs \in Seq(Waits) /\ Accounts(jobs, "none")
    BY <2>1, <2>2, <2>3, <2>4 DEF Asked, Accounts, CompanionAccount, MaintainAccount, ScanAccount
  <2>6. QED  BY <1>1, <2>1, <2>2, <2>5
<1>6. ASSUME RefreshesAll, Untouched PROVE Goal
  <2> DEFINE jobs == StatusJob \o CompanionJob
  <2>1. Submits(jobs, 0) /\ AsksCompanion /\ UNCHANGED <<maintaining, scanEvent, lost>>
    BY <1>6 DEF RefreshesAll, scanning, upkeep
  <2>2. Asked(jobs, 1, IF inflight THEN 0 ELSE 1, 0, 0)  BY JobCounts
  <2> HIDE DEF jobs
  <2>3. QED  BY <1>4, <1>6, <2>1, <2>2
<1>7. ASSUME Timers PROVE Goal
  <2>1. CASE FirstRefresh  BY <1>6, <2>1, Zenon DEF FirstRefresh
  <2>2. CASE Deadline
    <3>1. Leaves /\ UNCHANGED <<closing, inflight, maintaining, scanEvent, lost>>
      BY <2>2 DEF Deadline, Leaves, life, scanning, upkeep
    <3>2. QED  BY <1>2, <3>1
  <2>3. CASE Periodic
    <3>1. UNCHANGED <<maintaining, scanEvent, lost>> /\ Submits(CompanionJob, 0) /\ AsksCompanion /\ Untouched
      BY <2>3 DEF Periodic, scanning, upkeep
    <3>2. Asked(CompanionJob, 0, IF inflight THEN 0 ELSE 1, 0, 0)  BY JobCounts
    <3>3. QED  BY <1>4, <3>1, <3>2
  <2>4. CASE RefreshIntelligence
    <3>1. /\ UNCHANGED <<inflight, maintaining, scanEvent, lost>> /\ Untouched
          /\ Submits(<<Job("intelligence")>>, 0)
      BY <2>4 DEF RefreshIntelligence, scanning, upkeep
    <3>2. QED  BY <1>3, <3>1
  <2>5. CASE HourPasses
    <3>1. Leaves /\ UNCHANGED <<closing, inflight, maintaining, scanEvent, lost>>
      BY <2>5 DEF HourPasses, Untouched, Leaves, executor, scanning
    <3>2. QED  BY <1>2, <3>1
  <2>6. QED  BY <1>7, <2>1, <2>2, <2>3, <2>4, <2>5, Zenon DEF Timers
<1>8. ASSUME User PROVE Exit \/ Goal
  <2>1. CASE ClickRefresh  BY <1>6, <2>1, Zenon DEF ClickRefresh
  <2>2. CASE ClickScan \/ AnswerYes \/ TrayScan
    <3>1. Begins  BY <2>2, Zenon DEF ClickScan, AnswerYes, TrayScan
    <3>2. QED  BY <1>5, <3>1
  <2>3. CASE ClickScanQuarantine \/ AnswerNo \/ CancelScan
    <3>1. Leaves /\ UNCHANGED <<closing, inflight, maintaining, scanEvent, lost>>
      BY <2>3 DEF ClickScanQuarantine, AnswerNo, CancelScan, Untouched, Leaves, executor, upkeep
    <3>2. QED  BY <1>2, <3>1
  <2>4. CASE ClickAction
    <3>1. /\ UNCHANGED <<inflight, maintaining, scanEvent, lost>> /\ Untouched
          /\ Submits(<<Job("action")>>, 0)
      BY <2>4 DEF ClickAction, scanning, upkeep
    <3>2. QED  BY <1>3, <3>1
  <2>5. CASE ClickFile
    <3>1. PICK kind \in {"feed", "restore", "panel"} : Submits(<<Job(kind)>>, 0)
      BY <2>5, Zenon DEF ClickFile
    <3>2. UNCHANGED <<inflight, maintaining, scanEvent, lost>> /\ Untouched
      BY <2>5 DEF ClickFile, scanning, upkeep
    <3>3. QED  BY <1>3, <3>1, <3>2
  <2>6. QED  BY <1>8, <2>1, <2>2, <2>3, <2>4, <2>5, Zenon DEF User
<1>9. QED  BY <1>7, <1>8, Zenon

LEMMA DeliverMoves ==
    ASSUME TypeOK, Deliver
    PROVE  \E a \in Answers : \E jobs :
              /\ ready # <<>> /\ a = Head(ready) /\ Handles(a)
              /\ Moves(jobs, a.kind) /\ Accounts(jobs, a.kind)
              /\ UNCHANGED <<closing, started, lastScan>>
<1>1. PICK a \in Answers :
            /\ ready # <<>> /\ a = Head(ready) /\ ready' = Tail(ready) /\ Handles(a)
            /\ UNCHANGED <<running, life, lastScan, counts>>
  BY DeliverSteps
<1>2. PICK jobs : jobs \in Seq(Waits) /\ Submitted(jobs) /\ Accounts(jobs, a.kind)
  BY <1>1, HandlerMoves
<1>3. Answered(a, jobs) /\ UNCHANGED <<closing, started, lastScan>>  BY <1>1, <1>2 DEF Answered, life
<1>4. Moves(jobs, a.kind)  BY <1>3, Zenon DEF Moves
<1>5. QED  BY <1>1, <1>2, <1>3, <1>4, Zenon

LEMMA TkMoves ==
    ASSUME TypeOK, Deliver \/ User \/ Timers
    PROVE  Exit \/ (UNCHANGED closing /\ \E jobs, gone : Moves(jobs, gone) /\ Accounts(jobs, gone))
<1>1. ASSUME Deliver
      PROVE  UNCHANGED closing /\ \E jobs, gone : Moves(jobs, gone) /\ Accounts(jobs, gone)
  <2>1. \E a \in Answers : \E jobs : Moves(jobs, a.kind) /\ Accounts(jobs, a.kind) /\ closing' = closing
    BY <1>1, DeliverMoves
  <2>2. PICK a \in Answers : \E jobs : Moves(jobs, a.kind) /\ Accounts(jobs, a.kind) /\ closing' = closing
    BY <2>1
  <2>3. QED  BY <2>2
<1>2. QED  BY <1>1, AskMoves, Zenon

(* The counts of a state, and of the next one, are natural numbers, and a  *)
(* job somewhere is counted.                                               *)
Counted ==
    /\ UnderWay \in Nat
    /\ \A kind \in Kinds :
          /\ Pending(kind) \in Nat
          /\ \A t \in Threads : running[t].kind = kind => Pending(kind) > 0

LEMMA CountsAre == TypeOK => Counted
BY PendingCounts, UnderWayCounts DEF Counted

LEMMA CountsWillBe == TypeOK' => Counted'
BY CountsAre, PTL

(* The pool and the engine move the work, and neither make nor lose any.   *)
LEMMA BackgroundCounts ==
    ASSUME TypeOK, ~closing, Start \/ Engine
    PROVE  (\A kind \in Kinds : Pending(kind)' = Pending(kind)) /\ UnderWay' = UnderWay /\ busy' = busy
<1>1. busy' = busy
  <2>1. ASSUME NEW t, NEW phase, GoesOn(t, phase) PROVE busy' = busy  BY <2>1 DEF GoesOn, Changes
  <2>2. ASSUME NEW t, NEW answer, NEW due, IsOver(t, answer, due) PROVE busy' = busy
    BY <2>2 DEF IsOver, Ends
  <2>3. CASE Start  BY <2>3 DEF Start
  <2>4. QED  BY <2>1, <2>2, <2>3, EngineSteps
<1>2. QED  BY <1>1, StartCounts, GoesOnCounts, IsOverCounts, EngineSteps, Zenon

LEMMA ScanThreads ==
    ASSUME TypeOK, Start \/ Engine, NEW u \in Threads, running'[u].kind = "scan"
    PROVE  \/ running[u].kind = "scan" /\ running'[u].n = running[u].n
           \/ Start /\ running'[u].n = scanEvent
<1>0. running \in [Threads -> Begun \cup {Idle}]  BY DEF TypeOK
<1>1. CASE Start
  <2>1. PICK t \in Threads : running' = [running EXCEPT ![t] = Resolve(Head(queue))] /\ Head(queue) \in Waits
    BY <1>1, StartTypes
  <2>2. CASE u = t
    <3>1. running'[u] = Resolve(Head(queue))  BY <1>0, <2>1, <2>2
    <3>2. QED  BY <1>1, <2>1, <3>1 DEF Resolve, Waits
  <2>3. CASE u # t  BY <1>0, <2>1, <2>3
  <2>4. QED  BY <2>2, <2>3
<1>2. ASSUME NEW t, NEW phase, GoesOn(t, phase)
      PROVE  running[u].kind = "scan" /\ running'[u].n = running[u].n
  <2>1. /\ t \in Threads /\ running[t] # Idle
        /\ running' = [running EXCEPT ![t] = [running[t] EXCEPT !.phase = phase]]
    BY <1>2, GoesOnTypes DEF GoesOn
  <2>2. running[t] \in Begun  BY <1>0, <2>1
  <2>3. CASE u = t
    <3>1. running'[u] = [running[u] EXCEPT !.phase = phase]  BY <1>0, <2>1, <2>3
    <3>2. QED  BY <2>2, <2>3, <3>1 DEF Begun
  <2>4. CASE u # t  BY <1>0, <2>1, <2>4
  <2>5. QED  BY <2>3, <2>4
<1>3. ASSUME NEW t, NEW answer, NEW due, IsOver(t, answer, due)
      PROVE  running[u].kind = "scan" /\ running'[u].n = running[u].n
  <2>1. t \in Threads /\ running' = [running EXCEPT ![t] = Idle]  BY <1>3 DEF IsOver, Ends
  <2>2. u # t  BY <1>0, <2>1 DEF Idle
  <2>3. QED  BY <1>0, <2>1, <2>2
<1>4. QED  BY <1>1, <1>2, <1>3, EngineSteps, Zenon

(* After the exit only what runs goes on.                                  *)
LEMMA ClosedSteps ==
    ASSUME ExitIsFinal, closing, [Next]_vars PROVE Engine \/ UNCHANGED vars
<1>1. queue = <<>> /\ ~dialog  BY DEF ExitIsFinal
<1>2. ~Start  BY <1>1 DEF Start
<1>3. ~Deliver  BY Zenon DEF Deliver
<1>4. ~Act  BY Zenon DEF Act
<1>5. ~User
  BY <1>1, <1>4, Zenon DEF User, ClickRefresh, ClickScan, ClickScanQuarantine, AnswerYes, AnswerNo,
     TrayScan, CancelScan, ClickAction, ClickFile, Exit
<1>6. ~Timers
  BY <1>4, Zenon DEF Timers, FirstRefresh, Deadline, Periodic, RefreshIntelligence, HourPasses
<1>7. QED  BY <1>2, <1>3, <1>5, <1>6, Zenon DEF Next

LEMMA OpenSteps ==
    ASSUME TypeOK, ~closing, [Next]_vars
    PROVE  \/ (Start \/ Engine) /\ UNCHANGED View
           \/ ~closing' /\ \E jobs, gone : Moves(jobs, gone) /\ Accounts(jobs, gone)
           \/ Exit
           \/ UNCHANGED vars
BY BackgroundSteps, TkMoves, Zenon DEF Next
-----------------------------------------------------------------------------
(* The work in hand, step by step.                                         *)
LEMMA HeldInit == Init => HeldInv
<1> SUFFICES ASSUME Init PROVE HeldInv  OBVIOUS
<1>1. queue = <<>> /\ running = [t \in Threads |-> Idle] /\ ready = <<>>  BY DEF Init
<1>2. \A kind \in Kinds : Pending(kind) = 0
  <2>1. TAKE kind \in Kinds
  <2>2. Count(queue, kind) = 0 /\ Count(ready, kind) = 0  BY <1>1, CountOfNone
  <2>3. Count(running, kind) = 0
    <3>1. At(running, kind) = {}  BY <1>1 DEF At, Idle, Kinds
    <3>2. QED  BY <3>1, FS_EmptySet, CountIsOfPlaces
  <2>4. QED  BY <2>2, <2>3 DEF Pending
<1>3. UnderWay = 0
  <2>1. Working = {}  BY <1>1 DEF Working
  <2>2. QED  BY <1>1, <2>1, FS_EmptySet DEF UnderWay
<1>4. \A t \in Threads : running[t].kind # "scan"  BY <1>1 DEF Idle
<1>5. ~closing /\ ~dialog /\ busy = 0 /\ scanEvent = 0 /\ ~inflight /\ ~maintaining  BY DEF Init
<1>6. {"scan", "companion", "maintain"} \subseteq Kinds  BY DEF Kinds
<1>7. QED
  BY <1>1, <1>2, <1>3, <1>4, <1>5, <1>6 DEF HeldInv, ExitIsFinal, EventIsOfAScan, BusyIsCounted,
     ScanIsHeld, ExitCancels, RefreshIsHeld, OneMaintenance

LEMMA HeldByBackground ==
    ASSUME TypeOK, HeldInv, ~closing, Start \/ Engine, UNCHANGED View PROVE HeldInv'
<1>0. ~closing' /\ UNCHANGED <<scanEvent, lost, inflight, maintaining>>  BY DEF View
<1>1. /\ Pending("scan")' = Pending("scan") /\ Pending("companion")' = Pending("companion")
      /\ Pending("maintain")' = Pending("maintain")
      /\ UnderWay' = UnderWay /\ busy' = busy
  BY BackgroundCounts DEF Kinds
<1>2. ASSUME ~lost', NEW t \in Threads, running'[t].kind = "scan" PROVE running'[t].n = scanEvent'
  <2>1. running[t].kind = "scan" => running[t].n = scanEvent  BY <1>0, <1>2 DEF HeldInv, ScanIsHeld
  <2>2. QED  BY <1>0, <1>2, <2>1, ScanThreads
<1>3. ScanIsHeld'
  <2>1. ~lost' => Pending("scan")' = IF scanEvent' = 0 THEN 0 ELSE 1
    BY <1>0, <1>1 DEF HeldInv, ScanIsHeld
  <2>2. scanEvent' # 0 => Pending("scan")' > 0  BY <1>0, <1>1 DEF HeldInv, EventIsOfAScan
  <2>3. QED  BY <1>2, <2>1, <2>2 DEF ScanIsHeld
<1>4. ExitIsFinal' /\ ExitCancels'  BY <1>0 DEF ExitIsFinal, ExitCancels
<1>5. BusyIsCounted' /\ EventIsOfAScan'  BY <1>0, <1>1 DEF HeldInv, BusyIsCounted, EventIsOfAScan
<1>6. RefreshIsHeld' /\ OneMaintenance'  BY <1>0, <1>1 DEF HeldInv, RefreshIsHeld, OneMaintenance
<1>7. QED  BY <1>3, <1>4, <1>5, <1>6 DEF HeldInv

LEMMA HeldByMoves ==
    ASSUME TypeOK, TypeOK', HeldInv, ~closing, ~closing', NEW jobs, NEW gone,
           Moves(jobs, gone), Accounts(jobs, gone)
    PROVE  HeldInv'
<1> DEFINE Net(kind) == Count(jobs, kind) - (IF gone = kind THEN 1 ELSE 0)
<1>1. /\ \A kind \in {"scan", "companion", "maintain"} :
            /\ Pending(kind) \in Nat /\ Pending(kind)' \in Nat
            /\ Pending(kind)' = Pending(kind) + Count(jobs, kind) - (IF gone = kind THEN 1 ELSE 0)
      /\ busy' - UnderWay' = busy - UnderWay /\ UnderWay \in Nat /\ UnderWay' \in Nat
      /\ running' = running
  BY MovesCounts, CountsAre, CountsWillBe DEF Counted, Kinds
<1>2. BusyIsCounted'
  <2>1. busy \in Int /\ busy' \in Int  BY DEF TypeOK
  <2>2. busy = UnderWay  BY DEF HeldInv, BusyIsCounted
  <2> DEFINE n == UnderWay
             m == UnderWay'
  <2>3. n \in Nat /\ m \in Nat /\ busy' - m = busy - n /\ busy = n  BY <1>1, <2>2
  <2> HIDE DEF n, m
  <2>4. \A x, y \in Int : \A k \in Nat : y - k = x - x => y = k  OBVIOUS
  <2>5. busy' - m = busy - busy  BY <2>3
  <2>6. busy' = m  BY <2>1, <2>3, <2>4, <2>5
  <2>7. QED  BY <2>6 DEF m, BusyIsCounted
<1>3. RefreshIsHeld'
  <2> DEFINE c == Count(jobs, "companion")
             p == Pending("companion")
             q == Pending("companion")'
  <2>1. CompanionAccount(c, gone)  BY DEF Accounts
  <2>2. p \in Nat /\ q \in Nat /\ q = p + c - (IF gone = "companion" THEN 1 ELSE 0)  BY <1>1
  <2>3. p = IF inflight THEN 1 ELSE 0  BY DEF HeldInv, RefreshIsHeld
  <2> HIDE DEF c, p, q
  <2>4. q = IF inflight' THEN 1 ELSE 0  BY <2>1, <2>2, <2>3 DEF CompanionAccount
  <2>5. QED  BY <2>4 DEF q, RefreshIsHeld
<1>4. OneMaintenance'
  <2> DEFINE c == Count(jobs, "maintain")
             p == Pending("maintain")
             q == Pending("maintain")'
  <2>1. MaintainAccount(c, gone)  BY DEF Accounts
  <2>2. p \in Nat /\ q \in Nat /\ q = p + c - (IF gone = "maintain" THEN 1 ELSE 0)  BY <1>1
  <2>3. p = IF maintaining THEN 1 ELSE 0  BY DEF HeldInv, OneMaintenance
  <2> HIDE DEF c, p, q
  <2>4. q = IF maintaining' THEN 1 ELSE 0  BY <2>1, <2>2, <2>3 DEF MaintainAccount
  <2>5. QED  BY <2>4 DEF q, OneMaintenance
<1>5. ScanIsHeld' /\ EventIsOfAScan'
  <2> DEFINE c == Count(jobs, "scan")
             p == Pending("scan")
             q == Pending("scan")'
  <2>1. ScanAccount(c, gone)  BY DEF Accounts
  <2>2. p \in Nat /\ q \in Nat /\ q = p + c - (IF gone = "scan" THEN 1 ELSE 0)  BY <1>1
  <2>3. /\ ~lost => p = IF scanEvent = 0 THEN 0 ELSE 1
        /\ scanEvent # 0 => p > 0
    BY DEF HeldInv, ScanIsHeld, EventIsOfAScan
  <2>4. \A t \in Threads : running[t].kind = "scan" => p > 0 /\ q > 0
    BY <1>1, CountsAre, CountsWillBe DEF Counted, Kinds
  <2>5. ~lost => \A t \in Threads : running[t].kind = "scan" => running[t].n = scanEvent
    BY DEF HeldInv, ScanIsHeld
  <2>6. ScanAccount(c, gone) <=>
            \/ c = 0 /\ gone # "scan" /\ scanEvent' = scanEvent /\ lost' = lost
            \/ c = 1 /\ gone # "scan" /\ scanEvent' # 0 /\ lost' = (p > 0)
            \/ c = 0 /\ gone = "scan" /\ scanEvent' = 0 /\ lost' = lost
    BY Zenon DEF ScanAccount
  <2> HIDE DEF c, p, q
  <2>9. CASE c = 0 /\ gone # "scan" /\ scanEvent' = scanEvent /\ lost' = lost
    <3>1. q = p  BY <2>2, <2>9
    <3>2. QED  BY <1>1, <2>3, <2>5, <2>9, <3>1 DEF p, q, ScanIsHeld, EventIsOfAScan
  <2>10. CASE c = 1 /\ gone # "scan" /\ scanEvent' # 0 /\ lost' = (p > 0)
    <3>1. q = p + 1 /\ q > 0  BY <2>2, <2>10
    <3>2. ~lost' => ~(p > 0)  BY <2>10, Zenon
    <3>3. ~lost' => q = 1 /\ \A t \in Threads : running[t].kind # "scan"  BY <2>2, <2>4, <3>1, <3>2
    <3>4. QED  BY <1>1, <2>10, <3>1, <3>3 DEF q, ScanIsHeld, EventIsOfAScan
  <2>11. CASE c = 0 /\ gone = "scan" /\ scanEvent' = 0 /\ lost' = lost
    <3>1. q = p - 1  BY <2>2, <2>11
    <3>2. ~lost' => q = 0  BY <2>2, <2>3, <2>11, <3>1
    <3>3. ~lost' => \A t \in Threads : running[t].kind # "scan"  BY <2>4, <3>2
    <3>4. QED  BY <1>1, <2>11, <3>2, <3>3 DEF q, ScanIsHeld, EventIsOfAScan
  <2>12. QED  BY <2>1, <2>6, <2>9, <2>10, <2>11
<1>6. ExitIsFinal' /\ ExitCancels'  BY DEF ExitIsFinal, ExitCancels
<1>7. QED  BY <1>2, <1>3, <1>4, <1>5, <1>6 DEF HeldInv

LEMMA HeldByExit == ASSUME TypeOK, HeldInv, Exit PROVE HeldInv'
<1>1. /\ ~closing /\ closing' = TRUE /\ queue' = <<>> /\ dialog' = FALSE
      /\ UNCHANGED <<running, scanEvent, lost>>
  BY DEF Exit
<1>2. cancelled' = IF scanEvent = 0 THEN cancelled ELSE cancelled \cup {scanEvent}
  BY Zenon DEF Exit, CancelsScan
<1>3. ASSUME ~lost', NEW t \in Threads, running'[t].kind = "scan" PROVE running'[t].n \in cancelled'
  <2>1. running[t].kind = "scan" /\ ~lost  BY <1>1, <1>3
  <2>2. running[t].n = scanEvent /\ Pending("scan") = IF scanEvent = 0 THEN 0 ELSE 1
    BY <1>1, <2>1 DEF HeldInv, ScanIsHeld
  <2>3. Pending("scan") > 0  BY <2>1, CountsAre DEF Counted, Kinds
  <2>4. scanEvent # 0  BY <2>2, <2>3
  <2>5. QED  BY <1>1, <1>2, <2>2, <2>4
<1>4. ExitIsFinal' /\ ExitCancels'  BY <1>1, <1>3 DEF ExitIsFinal, ExitCancels
<1>5. QED
  BY <1>1, <1>4 DEF HeldInv, EventIsOfAScan, BusyIsCounted, ScanIsHeld, RefreshIsHeld, OneMaintenance

LEMMA HeldWhenClosed == ASSUME TypeOK, HeldInv, closing, Engine PROVE HeldInv'
<1>1. UNCHANGED View  BY BackgroundSteps
<1>2. closing' /\ UNCHANGED <<lost, cancelled, dialog>>  BY <1>1 DEF View
<1>3. queue = <<>> /\ ~dialog  BY DEF HeldInv, ExitIsFinal
<1>4. queue' = queue
  <2>1. ASSUME NEW t, NEW phase, GoesOn(t, phase) PROVE queue' = queue  BY <2>1 DEF GoesOn, Changes
  <2>2. ASSUME NEW t, NEW answer, NEW due, IsOver(t, answer, due) PROVE queue' = queue
    BY <2>2 DEF IsOver, Ends
  <2>3. QED  BY <2>1, <2>2, EngineSteps
<1>5. ASSUME ~lost', NEW t \in Threads, running'[t].kind = "scan" PROVE running'[t].n \in cancelled'
  <2>1. ~Start  BY <1>3 DEF Start
  <2>2. running[t].kind = "scan" /\ running'[t].n = running[t].n  BY <1>5, <2>1, ScanThreads
  <2>3. running[t].n \in cancelled  BY <1>2, <1>5, <2>2 DEF HeldInv, ExitCancels
  <2>4. QED  BY <1>2, <2>2, <2>3
<1>6. ExitIsFinal' /\ ExitCancels'  BY <1>2, <1>3, <1>4, <1>5 DEF ExitIsFinal, ExitCancels
<1>7. QED
  BY <1>2, <1>6 DEF HeldInv, EventIsOfAScan, BusyIsCounted, ScanIsHeld, RefreshIsHeld, OneMaintenance

LEMMA HeldByStutter == ASSUME HeldInv, UNCHANGED vars PROVE HeldInv'
<1>1. /\ UNCHANGED <<queue, running, ready, busy>> /\ UNCHANGED <<closing, scanEvent, cancelled, dialog, lost>>
      /\ UNCHANGED <<inflight, maintaining>>
  BY DEF vars, executor, scanning, upkeep, life
<1>2. (\A kind : Pending(kind)' = Pending(kind)) /\ UnderWay' = UnderWay
  BY <1>1, Zenon DEF Pending, UnderWay, Working
<1>3. ExitIsFinal' /\ ExitCancels'  BY <1>1 DEF HeldInv, ExitIsFinal, ExitCancels
<1>4. QED
  BY <1>1, <1>2, <1>3 DEF HeldInv, EventIsOfAScan, BusyIsCounted, ScanIsHeld, RefreshIsHeld, OneMaintenance

LEMMA HeldStep == TypeInv /\ TypeInv' /\ HeldInv /\ [Next]_vars => HeldInv'
<1> SUFFICES ASSUME TypeOK, TypeOK', HeldInv, [Next]_vars PROVE HeldInv'  BY DEF TypeInv
<1>1. CASE closing
  <2>1. Engine \/ UNCHANGED vars  BY <1>1, ClosedSteps DEF HeldInv
  <2>2. QED  BY <1>1, <2>1, HeldWhenClosed, HeldByStutter
<1>2. CASE ~closing
  BY <1>2, OpenSteps, HeldByBackground, HeldByMoves, HeldByExit, HeldByStutter, Zenon
<1>3. QED  BY <1>1, <1>2

LEMMA HeldHolds == Spec => []HeldInv
BY HeldInit, HeldStep, TypesHold, PTL DEF Spec

(* The work in hand is held for any number of threads and of operations:   *)
(* every one that is under way is counted once, an event is held only      *)
(* while there is a scan, and no refresh of the companion or of the        *)
(* signatures is ever doubled. Unless the last scan to begin met another,  *)
(* whose event it replaced: the scan is the one whose event the            *)
(* application holds, and the exit reaches it.                             *)
THEOREM WorkIsHeldAlways == Spec => []WorkIsHeld
<1>1. HeldInv => WorkIsHeld  BY DEF HeldInv, WorkIsHeld
<1>2. QED  BY <1>1, HeldHolds, PTL

-----------------------------------------------------------------------------
(* What the cards say, step by step. Where the status is to be read again, *)
(* nothing that was read before is left.                                   *)
LEMMA ReadingsAwaited ==
    ASSUME TypeOK, NEW jobs, NEW gone, Moves(jobs, gone), Count(jobs, "status") > 0, ~old'
    PROVE  Agreed'
<1>0. "status" \in Kinds  BY DEF Kinds
<1>1. Submits(jobs, 0) \/ Submits(jobs, 1)
  <2>1. CASE jobs = <<>>
    <3>1. Count(jobs, "status") = 0  BY <2>1, CountOfNone
    <3>2. QED  BY <3>1
  <2>2. CASE jobs # <<>>  BY <2>2, Zenon DEF Moves, Asks, Answered, Submitted
  <2>3. QED  BY <2>1, <2>2
<1>2. jobs \in Seq(Waits)  BY JobsWait DEF Moves, Asks, Answered
<1>3. \E i \in 1..Len(jobs) : jobs[i].kind = "status"  BY <1>2, CountOfSequence
<1>4. ~(Pending("status") > 0)  BY <1>1, <1>3, Zenon DEF Submits
<1>5. Pending("status") = 0  BY <1>0, <1>4, PendingCounts
<1>6. /\ \A t \in Threads : running[t].kind # "status"
      /\ \A i \in 1..Len(ready) : ready[i].kind # "status"
  BY <1>0, <1>4, PendingCounts
<1>7. gone # "status" /\ running' = running /\ \A i \in 1..Len(ready') : ready'[i].kind # "status"
  <2>1. ready \in Seq(Answers)  BY DEF TypeOK
  <2>2. CASE gone = "none" /\ UNCHANGED <<running, ready>>  BY <1>6, <2>2
  <2>3. ASSUME NEW a \in Answers, gone = a.kind, Answered(a, jobs)
        PROVE  gone # "status" /\ running' = running /\ \A i \in 1..Len(ready') : ready'[i].kind # "status"
    <3>1. ready # <<>> /\ a = Head(ready) /\ ready' = Tail(ready) /\ running' = running
      BY <2>3 DEF Answered
    <3>2. Len(ready) \in Nat /\ Len(ready) > 0 /\ a = ready[1]  BY <2>1, <3>1
    <3>3. gone # "status"  BY <1>6, <2>3, <3>2
    <3>4. \A i \in 1..Len(ready') : i + 1 \in 1..Len(ready) /\ ready'[i] = ready[i + 1]
      BY <2>1, <3>1, HeadTailProperties
    <3>5. QED  BY <1>6, <3>1, <3>3, <3>4
  <2>4. Leaves => UNCHANGED <<running, ready>>  BY DEF Leaves, executor
  <2>5. Asks(jobs) => UNCHANGED <<running, ready>>  BY DEF Asks
  <2>6. QED  BY <2>2, <2>3, <2>4, <2>5, Zenon DEF Moves
<1>8. Pending("status")' # 0
  <2>1. Pending("status")' = Pending("status") + Count(jobs, "status") - (IF gone = "status" THEN 1 ELSE 0)
    BY <1>0, MovesCounts
  <2>2. Count(jobs, "status") \in Nat  BY <1>2, CountOfSequence
  <2> DEFINE q == Pending("status")'
             c == Count(jobs, "status")
  <2>3. q = 0 + c - 0  BY <1>5, <1>7, <2>1
  <2>4. c \in Nat /\ c > 0  BY <2>2
  <2> HIDE DEF q, c
  <2>5. q # 0  BY <2>3, <2>4
  <2>6. QED  BY <2>5 DEF q
<1>9. QED  BY <1>6, <1>7, <1>8 DEF Agreed

(* A step that answers no scan and leaves the summary alone: the card      *)
(* takes the reading at the head, or is kept if it says what is saved.     *)
LEMMA ReadingsKept ==
    ASSUME TypeOK, TypeOK', ReadingsAgree, Settled', NEW jobs, NEW gone,
           Moves(jobs, gone), Accounts(jobs, gone), gone # "scan", UNCHANGED <<closing, started, lastScan>>,
           gone = "status" => scanCard' = Head(ready).answer,
           gone # "status" /\ Agrees(scanCard) => scanCard' = scanCard
    PROVE  Agreed'
<1>0. "status" \in Kinds /\ "scan" \in Kinds  BY DEF Kinds
<1>1. CASE Count(jobs, "status") > 0  BY <1>1, ReadingsAwaited DEF Settled
<1>2. CASE ~(Count(jobs, "status") > 0)
  <2>1. jobs \in Seq(Waits)  BY JobsWait DEF Moves, Asks, Answered
  <2>2. Count(jobs, "status") \in Nat /\ Count(jobs, "scan") \in Nat  BY <2>1, CountOfSequence
  <2>3. Count(jobs, "status") = 0  BY <1>2, <2>2
  <2>4. ~old
    <3>1. ~old'  BY DEF Settled
    <3>2. ~(\E i \in 1..Len(jobs) : jobs[i].kind = "status")  BY <1>2, <2>1, CountOfSequence
    <3>3. CASE Leaves  BY <3>1, <3>3 DEF Leaves
    <3>4. CASE Submits(jobs, 0) \/ Submits(jobs, 1)  BY <3>1, <3>2, <3>4, Zenon DEF Submits
    <3>5. QED  BY <3>1, <3>3, <3>4, Zenon DEF Moves, Asks, Answered, Submitted
  <2>5. Pending("scan") = 0
    <3> DEFINE p == Pending("scan")
               q == Pending("scan")'
               c == Count(jobs, "scan")
    <3>1. q = p + c - (IF gone = "scan" THEN 1 ELSE 0)  BY <1>0, MovesCounts
    <3>2. p \in Nat /\ c \in Nat /\ q = 0  BY <1>0, <2>2, PendingCounts DEF Settled
    <3> HIDE DEF p, q, c
    <3>3. p = 0  BY <3>1, <3>2
    <3>4. QED  BY <3>3 DEF p
  <2>6. Agreed  BY <2>4, <2>5 DEF ReadingsAgree, Settled
  <2>7. \A card : Agrees(card)' <=> Agrees(card)  BY Zenon DEF Agrees, Saved
  <2>8. ready \in Seq(Answers)  BY DEF TypeOK
  <2>9. ASSUME gone # "status" PROVE Pending("status")' = 0 => Agrees(scanCard)'
    <3>1. Pending("status")' = Pending("status") + Count(jobs, "status") - (IF gone = "status" THEN 1 ELSE 0)
      BY <1>0, MovesCounts
    <3>2. Pending("status")' = Pending("status")  BY <1>0, <2>3, <2>9, <3>1, PendingCounts
    <3>3. SUFFICES ASSUME Pending("status")' = 0 PROVE Agrees(scanCard)'  OBVIOUS
    <3>4. Agrees(scanCard)  BY <2>6, <3>2, <3>3 DEF Agreed
    <3>5. scanCard' = scanCard  BY <2>9, <3>4
    <3>6. QED  BY <3>4, <3>5 DEF Agrees, Saved
  <2>10. CASE gone = "none" /\ UNCHANGED <<running, ready>>
    <3>1. Pending("status")' = 0 => Agrees(scanCard)'  BY <2>9, <2>10
    <3>2. QED  BY <2>6, <2>10, <3>1 DEF Agreed, Agrees, Saved
  <2>11. ASSUME NEW a \in Answers, gone = a.kind, Answered(a, jobs) PROVE Agreed'
    <3>1. ready # <<>> /\ a = Head(ready) /\ ready' = Tail(ready) /\ running' = running
      BY <2>11 DEF Answered
    <3>2. Len(ready) \in Nat /\ Len(ready) > 0 /\ Head(ready) = ready[1]  BY <2>8, <3>1
    <3>3. \A i \in 1..Len(ready') : i + 1 \in 1..Len(ready) /\ ready'[i] = ready[i + 1]
      BY <2>8, <3>1, HeadTailProperties
    <3>4. gone = "status" => Agrees(scanCard)'
      <4>1. SUFFICES ASSUME gone = "status" PROVE Agrees(scanCard)'  OBVIOUS
      <4>2. Agrees(Head(ready).answer)  BY <2>6, <2>11, <3>1, <3>2, <4>1 DEF Agreed
      <4>3. QED  BY <4>1, <4>2 DEF Agrees, Saved
    <3>5. Pending("status")' = 0 => Agrees(scanCard)'  BY <2>9, <3>4
    <3>6. \A i \in 1..Len(ready') : ready'[i].kind = "status" => Agrees(ready[i + 1].answer)
      BY <2>6, <3>3 DEF Agreed
    <3>7. \A i \in 1..Len(ready') : ready'[i].kind = "status" => Agrees(ready[i].answer)'
      BY <3>3, <3>6 DEF Agrees, Saved
    <3>8. \A t \in Threads : running'[t].kind = "status" =>
              running'[t].phase \in {"runs", "hangs"} \/ Agrees(running[t].phase)'
      BY <2>6, <3>1 DEF Agreed, Agrees, Saved
    <3>9. QED  BY <3>5, <3>7, <3>8 DEF Agreed
  <2>12. Leaves => UNCHANGED <<running, ready>>  BY DEF Leaves, executor
  <2>13. Asks(jobs) => UNCHANGED <<running, ready>>  BY DEF Asks
  <2>14. QED  BY <2>10, <2>11, <2>12, <2>13, Zenon DEF Moves
<1>3. QED  BY <1>1, <1>2

LEMMA ReadingsByBackground ==
    ASSUME TypeOK, ReadingsAgree, Settled', ~closing, Start \/ Engine, UNCHANGED View PROVE Agreed'
<1>0. "status" \in Kinds /\ "scan" \in Kinds  BY DEF Kinds
<1>1. Pending("status")' = Pending("status") /\ Pending("scan")' = Pending("scan")
  BY <1>0, BackgroundCounts
<1>2. UNCHANGED <<started, closing, old, scanCard>>  BY DEF View
<1>3. Settled  BY <1>1, <1>2 DEF Settled
<1>4. Agreed  BY <1>3 DEF ReadingsAgree
<1>5. ~(Pending("scan") > 0)  BY <1>3 DEF Settled
<1>6. running \in [Threads -> Begun \cup {Idle}] /\ ready \in Seq(Answers)  BY DEF TypeOK
<1>7. ASSUME UNCHANGED lastScan, ready' = ready,
             \A t \in Threads : running'[t] = running[t] \/ running'[t].kind # "status"
                                \/ running'[t].phase \in {"runs", "hangs"} \/ Agrees(running'[t].phase)
      PROVE  Agreed'
  <2>1. \A t \in Threads : running'[t].kind = "status" =>
            running'[t].phase \in {"runs", "hangs"} \/ Agrees(running'[t].phase)
    BY <1>4, <1>7 DEF Agreed
  <2>2. Saved' = Saved  BY <1>7, Zenon DEF Saved
  <2>3. QED  BY <1>1, <1>2, <1>4, <1>7, <2>1, <2>2 DEF Agreed, Agrees
<1>8. CASE Start
  <2>1. PICK t \in Threads : Head(queue) \in Waits /\ running' = [running EXCEPT ![t] = Resolve(Head(queue))]
    BY <1>8, StartTypes
  <2>2. running'[t].phase = "runs"  BY <1>6, <2>1 DEF Resolve, Waits
  <2>3. \A u \in Threads : u # t => running'[u] = running[u]  BY <1>6, <2>1
  <2>4. UNCHANGED lastScan /\ ready' = ready  BY <1>8 DEF Start
  <2>5. QED  BY <1>7, <2>2, <2>3, <2>4
<1>9. ASSUME NEW t, NEW phase, GoesOn(t, phase) PROVE Agreed'
  <2>1. /\ t \in Threads /\ running[t] # Idle
        /\ running' = [running EXCEPT ![t] = [running[t] EXCEPT !.phase = phase]]
        /\ ready' = ready
    BY <1>9, GoesOnTypes DEF GoesOn, Changes
  <2>2. running[t].kind # "scan"  BY <1>0, <1>5, <2>1, PendingCounts
  <2>3. UNCHANGED lastScan /\ (phase = "hangs" \/ phase = Saved)  BY <1>9, <2>2 DEF GoesOn
  <2>4. running'[t].phase = phase
    <3>1. running[t] \in Begun  BY <1>6, <2>1
    <3>2. running'[t] = [running[t] EXCEPT !.phase = phase]  BY <1>6, <2>1
    <3>3. QED  BY <3>1, <3>2 DEF Begun
  <2>5. running'[t].phase \in {"runs", "hangs"} \/ Agrees(running'[t].phase)  BY <2>3, <2>4 DEF Agrees
  <2>6. \A u \in Threads : u # t => running'[u] = running[u]  BY <1>6, <2>1
  <2>7. QED  BY <1>7, <2>1, <2>3, <2>5, <2>6
<1>10. ASSUME NEW t, NEW answer, NEW due, IsOver(t, answer, due) PROVE Agreed'
  <2> DEFINE post == Posted(running[t], answer, due)
  <2>1. /\ t \in Threads /\ running[t] # Idle /\ running' = [running EXCEPT ![t] = Idle]
        /\ ready' = Append(ready, post) /\ UNCHANGED lastScan
    BY <1>3, <1>10 DEF IsOver, Ends, Settled
  <2>2. Saved' = Saved  BY <2>1, Zenon DEF Saved
  <2>3. post \in Answers /\ post.kind = running[t].kind /\ post.answer = answer
    BY <1>10, IsOverTypes DEF Posted
  <2>4. running[t].kind = "status" => Agrees(answer)
    <3>1. SUFFICES ASSUME running[t].kind = "status" PROVE Agrees(answer)  OBVIOUS
    <3>2. CASE answer = "failed"  BY <3>2 DEF Agrees
    <3>3. CASE answer \in Shows /\ answer = running[t].phase
      <4>1. answer \notin {"runs", "hangs"}  BY <3>3 DEF Shows
      <4>2. QED  BY <1>4, <2>1, <3>1, <3>3, <4>1 DEF Agreed
    <3>4. running[t].kind \notin Others /\ running[t].kind # "companion"  BY <3>1 DEF Others, Reads
    <3>5. QED  BY <1>10, <3>1, <3>2, <3>3, <3>4 DEF IsOver
  <2>5. \A u \in Threads : running'[u].kind = "status" => running'[u] = running[u]
    BY <1>6, <2>1 DEF Idle
  <2> HIDE DEF post
  <2>6. Len(ready') = Len(ready) + 1 /\ Len(ready) \in Nat
        /\ \A i \in 1..Len(ready') : ready'[i] = IF i <= Len(ready) THEN ready[i] ELSE post
    BY <1>6, <2>1, <2>3, AppendProperties, LenProperties
  <2>7. \A i \in 1..Len(ready') : ready'[i].kind = "status" => Agrees(ready'[i].answer)
    <3>1. TAKE i \in 1..Len(ready')
    <3>2. CASE i <= Len(ready)
      <4>1. i \in 1..Len(ready) /\ ready'[i] = ready[i]  BY <2>6, <3>2
      <4>2. QED  BY <1>4, <4>1 DEF Agreed
    <3>3. CASE ~(i <= Len(ready))
      <4>1. ready'[i] = post  BY <2>6, <3>3
      <4>2. QED  BY <2>3, <2>4, <4>1
    <3>4. QED  BY <3>2, <3>3
  <2>8. \A u \in Threads : running'[u].kind = "status" =>
            running'[u].phase \in {"runs", "hangs"} \/ Agrees(running'[u].phase)
    BY <1>4, <2>5 DEF Agreed
  <2>9. QED  BY <1>1, <1>2, <1>4, <2>2, <2>7, <2>8 DEF Agreed, Agrees
<1>11. QED  BY <1>8, <1>9, <1>10, EngineSteps, Zenon

(* Steps of the Tk thread: deliveries, and what the user and timers ask.   *)
LEMMA ReadingsByDeliver ==
    ASSUME TypeOK, TypeOK', ReadingsAgree, Settled', Deliver PROVE Agreed'
<1>0. PICK a \in Answers : \E jobs :
            /\ ready # <<>> /\ a = Head(ready) /\ Handles(a)
            /\ Moves(jobs, a.kind) /\ Accounts(jobs, a.kind)
            /\ UNCHANGED <<closing, started, lastScan>>
  BY DeliverMoves
<1>1. PICK jobs :
            /\ ready # <<>> /\ a = Head(ready) /\ Handles(a)
            /\ Moves(jobs, a.kind) /\ Accounts(jobs, a.kind)
            /\ UNCHANGED <<closing, started, lastScan>>
  BY <1>0
<1>2. CASE a.kind = "scan"
  <2>1. ScanComplete(a) \/ ScanFailed(a)  BY <1>1, <1>2 DEF Handles
  <2>2. ~ScanFailed(a)  BY DEF ScanFailed, Settled
  <2>3. Submits(StatusJob, 1)  BY <2>1, <2>2 DEF ScanComplete
  <2>4. ready # <<>> /\ a = Head(ready) /\ ready' = Tail(ready) /\ UNCHANGED running
    BY <1>1 DEF Deliver
  <2>5. Answered(a, StatusJob)  BY <2>3, <2>4, JobsWait DEF Answered, Submitted
  <2>6. Moves(StatusJob, a.kind)  BY <2>5, Zenon DEF Moves
  <2>7. Count(StatusJob, "status") > 0  BY JobCounts DEF Asked
  <2>8. ~old'  BY DEF Settled
  <2>9. QED  BY <2>6, <2>7, <2>8, ReadingsAwaited
<1>3. CASE a.kind # "scan"
  <2>1. CASE a.kind = "status"
    <3>1. scanCard' = Head(ready).answer  BY <1>1, <2>1 DEF Handles, StatusDelivered
    <3>2. QED  BY <1>1, <1>3, <2>1, <3>1, ReadingsKept
  <2>2. CASE a.kind # "status"
    <3>1. scanCard' = scanCard
      <4>1. UNCHANGED statusView
        BY <1>1, <1>3, <2>2, Zenon DEF Handles, CompanionRendered, CompanionFailed,
           ActionDelivered, MaintenanceFinished, IntelligenceFinished, FileDelivered
      <4>2. QED  BY <4>1 DEF statusView
    <3>2. QED  BY <1>1, <1>3, <2>2, <3>1, ReadingsKept
  <2>3. QED  BY <2>1, <2>2
<1>4. QED  BY <1>2, <1>3

LEMMA ReadingsByAsk ==
    ASSUME TypeOK, TypeOK', WaitIsHonest, ReadingsAgree, Settled', ~closing, User \/ Timers
    PROVE  Agreed'
<1>0. ~Exit  BY DEF Exit, Settled
<1>1. PICK jobs : Moves(jobs, "none") /\ Accounts(jobs, "none") /\ UNCHANGED closing
  BY <1>0, AskMoves
<1>2. UNCHANGED lastScan  BY TkSteps
<1>3. CASE FirstRefresh
  <2> DEFINE both == StatusJob \o CompanionJob
  <2>1. Submits(both, 0) /\ UNCHANGED <<running, ready>>
    BY <1>3 DEF FirstRefresh, RefreshesAll, Untouched
  <2>2. Asked(both, 1, IF inflight THEN 0 ELSE 1, 0, 0)  BY JobCounts
  <2> HIDE DEF both
  <2>3. Moves(both, "none") /\ Count(both, "status") > 0  BY <2>1, <2>2 DEF Asked, Moves, Asks
  <2>4. ~old'  BY DEF Settled
  <2>5. QED  BY <2>3, <2>4, ReadingsAwaited
<1>4. CASE ~FirstRefresh
  <2>1. UNCHANGED started
    <3>1. CASE ClickRefresh \/ Periodic \/ RefreshIntelligence \/ ClickAction \/ ClickFile
               \/ HourPasses \/ ClickScanQuarantine \/ AnswerNo \/ CancelScan
      BY <3>1 DEF ClickRefresh, Periodic, RefreshIntelligence, ClickAction, ClickFile, HourPasses,
         ClickScanQuarantine, AnswerNo, CancelScan
    <3>2. CASE Deadline  BY <3>2 DEF Deadline, life
    <3>3. CASE ClickScan \/ AnswerYes \/ TrayScan
      <4>1. Begins  BY <3>3, Zenon DEF ClickScan, AnswerYes, TrayScan
      <4>2. QED  BY <4>1 DEF Begins
    <3>4. QED  BY <1>0, <1>4, <3>1, <3>2, <3>3, Zenon DEF User, Timers
  <2>2. Agrees(scanCard) => scanCard' = scanCard
    <3>1. CASE Deadline
      <4>1. SUFFICES ASSUME Agrees(scanCard) PROVE scanCard' = scanCard  OBVIOUS
      <4>2. Saved \in Shows  BY TypeParts, SavedIsShown DEF SummaryTypes
      <4>3. scanCard \notin {"checking", "slow"}  BY <4>1, <4>2 DEF Agrees, Shows
      <4>4. statusResolved  BY <4>3 DEF WaitIsHonest
      <4>5. QED  BY <3>1, <4>4 DEF Deadline, Waiting
    <3>2. CASE ~Deadline
      <4>1. UNCHANGED statusView
        <5>1. CASE ClickScan \/ AnswerYes \/ TrayScan
          <6>1. Begins  BY <5>1, Zenon DEF ClickScan, AnswerYes, TrayScan
          <6>2. QED  BY <6>1, Zenon DEF Begins
        <5>2. CASE FirstRefresh \/ ClickRefresh \/ Periodic \/ RefreshIntelligence \/ ClickAction \/ ClickFile
                   \/ HourPasses \/ ClickScanQuarantine \/ AnswerNo \/ CancelScan
          BY <5>2, Zenon DEF FirstRefresh, ClickRefresh, RefreshesAll, Periodic, RefreshIntelligence,
             ClickAction, ClickFile, HourPasses, ClickScanQuarantine, AnswerNo, CancelScan
        <5>3. QED  BY <1>0, <3>2, <5>1, <5>2, Zenon DEF User, Timers
      <4>2. QED  BY <4>1 DEF statusView
    <3>3. QED  BY <3>1, <3>2
  <2>3. "none" # "scan" /\ "none" # "status"  OBVIOUS
  <2>4. QED  BY <1>1, <1>2, <2>1, <2>2, <2>3, ReadingsKept
<1>5. QED  BY <1>3, <1>4

LEMMA ReadingsStep ==
    TypeInv /\ TypeInv' /\ HeldInv /\ ReadingsAgree /\ [Next]_vars => ReadingsAgree'
<1> SUFFICES ASSUME TypeOK, TypeOK', WaitIsHonest, HeldInv, ReadingsAgree, [Next]_vars, Settled'
             PROVE  Agreed'
  BY DEF TypeInv, ReadingsAgree
<1>1. ~closing
  <2>1. closing => closing'
    <3>1. SUFFICES ASSUME closing PROVE closing'  OBVIOUS
    <3>2. Engine \/ UNCHANGED vars  BY <3>1, ClosedSteps DEF HeldInv
    <3>3. CASE Engine
      <4>1. UNCHANGED View  BY <3>3, BackgroundSteps
      <4>2. QED  BY <3>1, <4>1 DEF View
    <3>4. CASE UNCHANGED vars  BY <3>1, <3>4 DEF vars, life
    <3>5. QED  BY <3>2, <3>3, <3>4
  <2>2. QED  BY <2>1 DEF Settled
<1>2. CASE Start \/ Engine
  <2>1. UNCHANGED View  BY <1>2, BackgroundSteps
  <2>2. QED  BY <1>1, <1>2, <2>1, ReadingsByBackground
<1>3. CASE Deliver  BY <1>3, ReadingsByDeliver
<1>4. CASE User \/ Timers  BY <1>1, <1>4, ReadingsByAsk
<1>5. CASE UNCHANGED vars
  <2>1. UNCHANGED <<queue, running, ready, started, closing, old, scanCard, lastScan>>
    BY <1>5 DEF vars, executor, scanning, statusView, life
  <2>2. \A kind : Pending(kind)' = Pending(kind)  BY <2>1, Zenon DEF Pending
  <2>3. Settled  BY <2>1, <2>2 DEF Settled
  <2>4. Saved' = Saved  BY <2>1, Zenon DEF Saved
  <2>5. QED  BY <2>1, <2>2, <2>3, <2>4 DEF ReadingsAgree, Agreed, Agrees
<1>6. QED  BY <1>2, <1>3, <1>4, <1>5, Zenon DEF Next

LEMMA ReadingsInit == Init => ReadingsAgree
BY DEF Init, ReadingsAgree, Settled

LEMMA ReadingsHold == Spec => []ReadingsAgree
BY ReadingsInit, ReadingsStep, TypesHold, HeldHolds, PTL DEF Spec

(* When nothing is under way nothing waits, runs or is posted.             *)
LEMMA NothingIsPending ==
    ASSUME TypeOK, UnderWay = 0, NEW kind \in Kinds PROVE Pending(kind) = 0
<1>1. Len(queue) \in Nat /\ Len(ready) \in Nat /\ Cardinality(Working) \in Nat
  BY UnderWayCounts, LenProperties DEF TypeOK
<1>2. Len(queue) = 0 /\ Len(ready) = 0 /\ Cardinality(Working) = 0
  <2> DEFINE q == Len(queue)
             r == Len(ready)
             c == Cardinality(Working)
  <2>1. q \in Nat /\ r \in Nat /\ c \in Nat /\ q + c + r = 0  BY <1>1 DEF UnderWay
  <2> HIDE DEF q, r, c
  <2>2. q = 0 /\ r = 0 /\ c = 0  BY <2>1
  <2>3. QED  BY <2>2 DEF q, r, c
<1>3. queue = <<>> /\ ready = <<>>  BY <1>2, EmptySeq DEF TypeOK
<1>4. Working = {}  BY <1>2, BusyIsFinite, FS_EmptySet DEF Working
<1>5. Count(running, kind) = 0
  <2>1. running \in [Threads -> Begun \cup {Idle}]  BY DEF TypeOK
  <2>2. \A t \in Threads : running[t] = Idle  BY <1>4 DEF Working
  <2>3. At(running, kind) = {}  BY <2>1, <2>2 DEF At, Idle, Kinds
  <2>4. QED  BY <2>3, FS_EmptySet, CountIsOfPlaces
<1>6. Count(queue, kind) = 0 /\ Count(ready, kind) = 0  BY <1>3, CountOfNone
<1>7. QED  BY <1>5, <1>6 DEF Pending

(* The cards say what is known, whatever the order in which the operations *)
(* answer: no notice covers evidence, and what can be exported is what is  *)
(* shown. Once all is done the card says what the last scan has saved,     *)
(* unless the last reading was begun while another was under way, or a     *)
(* scan has failed since: the older answer may come last, or the summary   *)
(* may be newer.                                                           *)
THEOREM CardsAreHonestAlways == Spec => []CardsAreHonest
<1>1. TypeInv /\ ReadingsAgree => CardsAreHonest
  <2>1. SUFFICES ASSUME TypeInv, ReadingsAgree PROVE CardsAreHonest  OBVIOUS
  <2>2. ASSUME UnderWay = 0, started, ~closing, ~old PROVE scanCard \in {"failed", Saved}
    <3>1. Pending("scan") = 0 /\ Pending("status") = 0  BY <2>1, <2>2, NothingIsPending DEF TypeInv, Kinds
    <3>2. Agreed  BY <2>1, <2>2, <3>1 DEF ReadingsAgree, Settled
    <3>3. QED  BY <3>1, <3>2 DEF Agreed, Agrees
  <2>3. SettledCardAgrees  BY <2>2, Zenon DEF SettledCardAgrees, Saved
  <2>4. QED  BY <2>1, <2>3 DEF TypeInv, CardsAreHonest
<1>2. QED  BY <1>1, TypesHold, ReadingsHold, PTL
=============================================================================
