--------------------------- MODULE EngineDocuments ---------------------------
(***************************************************************************)
(* What the engine's commands answer (src/src/zsec_shield/cli.py) and what *)
(* the desktop accepts of it and shows (zsec_desktop/bridge.py,            *)
(* contracts.py): the two sides of the boundary between the processes,     *)
(* written by hand on each side. An answer is an exit code and a document; *)
(* a document is a record of the fields whose agreement is checked. Counts *)
(* are small numbers; text, timestamps and types of fields are left out.   *)
(***************************************************************************)
EXTENDS Integers, FiniteSets

CONSTANT Nothing                        \* no value: null, no file

Answer(code, doc) == [code |-> code, doc |-> doc]

(* Before a command answers, or in place of it: an exception caught by     *)
(* main, or an interrupt.                                                  *)
Error == [schema |-> "error"]
Fails == Answer(2, Error)
NoDocument == [schema |-> "none"]
Interrupted == Answer(130, NoDocument)

-----------------------------------------------------------------------------
(* check: what a scan has found, of which "failed" findings could not be   *)
(* quarantined.                                                            *)
Scans ==
    {s \in [findings : 0..2, failed : 0..2, observations : 0..1, issues : 0..1,
            feed : {"absent", "valid", "invalid"}] : s.failed <= s.findings}

IssuesRead(s) == s.issues                \* (mutation: a failed quarantine is no issue)
Issues(s) == s.issues + s.failed
Outcome(s) ==
    CASE Issues(s) > 0 \/ s.feed = "invalid" -> "incomplete"
      [] OTHER -> IF s.findings > 0 THEN "configured_rule_matches_detected"
                  ELSE IF s.observations > 0 THEN "review_observations"
                  ELSE "no_configured_rule_matches"

(* The summary that save_last_scan leaves for status.                      *)
LastScan(s) ==
    [schema |-> 3, findings |-> s.findings, issues |-> Issues(s),
     observations |-> s.observations, outcome |-> Outcome(s)]

(* Without the summary the report itself is incomplete.                    *)
Report(s, saved) ==
    [schema |-> "report", outcome |-> IF saved THEN Outcome(s) ELSE "incomplete",
     findings |-> s.findings, observations |-> s.observations,
     issues |-> IF saved THEN Issues(s) ELSE Issues(s) + 1,
     real_time |-> FALSE, eligible |-> FALSE]

CheckAnswer(s, saved) ==
    Answer(IF Report(s, saved).outcome = "incomplete" THEN 2
           ELSE IF s.findings > 0 \/ s.observations > 0 THEN 1 ELSE 0,
           Report(s, saved))

-----------------------------------------------------------------------------
(* load_last_scan. A file is Nothing, Damaged or a record of one of the    *)
(* three schemas; the older ones have no observations.                     *)
Damaged == [schema |-> 0]
Outcomes == {"no_configured_rule_matches", "configured_rule_matches_detected",
             "review_observations", "incomplete"}
Summaries ==
    {f \in [schema : 1..3, findings : 0..2, issues : 0..3, observations : 0..1,
            outcome : Outcomes \cup {"unknown"}] : f.schema < 3 => f.observations = 0}

ASSUME NothingAssumption == Nothing \notin Outcomes /\ Nothing \notin Summaries /\ Nothing # Damaged

Consistent(f) ==
    /\ f.outcome \in Outcomes
    /\ f.outcome = "no_configured_rule_matches" =>
            f.findings = 0 /\ f.issues = 0 /\ f.observations = 0
    /\ f.outcome = "configured_rule_matches_detected" => f.findings # 0 /\ f.issues = 0
    /\ f.outcome = "review_observations" =>
            f.schema = 3 /\ f.findings = 0 /\ f.issues = 0 /\ f.observations # 0

Load(file) ==
    CASE file = Nothing -> [scan |-> Nothing, error |-> FALSE]
      [] file = Damaged -> [scan |-> Nothing, error |-> TRUE]
      [] OTHER -> IF Consistent(file) THEN [scan |-> file, error |-> FALSE]
                  ELSE [scan |-> Nothing, error |-> TRUE]

(* load_automatic_update_status: the record that the update of advisories  *)
(* leaves (UpdateClient), Nothing, or Damaged. Its source is the release's *)
(* own or not; its sequence is that of the catalog, or Nothing. A record   *)
(* from another source says nothing of this one.                           *)
UpdateStates == {"never_checked", "current", "updated", "error"}
UpdateRecords ==
    [schema : {"update"}, state : UpdateStates \cup {"unknown"}, own : BOOLEAN,
     sequence : {Nothing, 0, 1}]
SequenceHolds(sequence) == sequence = Nothing \/ sequence >= 1
Unchecked(state) == [schema |-> "update", state |-> state, own |-> TRUE, sequence |-> Nothing]

LoadUpdate(file) ==
    CASE file = Nothing -> Unchecked("never_checked")
      [] file = Damaged -> Unchecked("error")
      [] OTHER -> IF file.state \notin UpdateStates \/ ~SequenceHolds(file.sequence)
                  THEN Unchecked("error")
                  ELSE IF file.own THEN file
                       ELSE [file EXCEPT !.state = "never_checked", !.own = TRUE]

ValidUpdate(u) == u.state \in UpdateStates /\ u.own /\ SequenceHolds(u.sequence)

(* status: the feed, the summary, the vault's entries and what of its      *)
(* metadata cannot be read, and the record of updates.                     *)
StatusAnswer(file, feed, entries, unreadable, update) ==
    LET last == Load(file)
        of(field) == IF last.scan = Nothing THEN 0 ELSE last.scan[field]
    IN  Answer(IF feed = "invalid" \/ unreadable > 0 \/ last.error THEN 2 ELSE 0,
               [schema |-> "status", available |-> last.scan # Nothing,
                dated |-> last.scan # Nothing, error |-> last.error,
                outcome |-> IF last.scan = Nothing THEN Nothing ELSE last.scan.outcome,
                findings |-> of("findings"), observations |-> of("observations"),
                errors |-> of("issues"), feed |-> feed, real_time |-> FALSE,
                update |-> LoadUpdate(update),
                quarantine_count |-> entries, entries |-> entries])

ValidStatus(p) ==
    /\ p.schema = "status" /\ ~p.real_time
    /\ p.outcome \in Outcomes \cup {Nothing}
    /\ p.available = p.dated
    /\ p.outcome = "no_configured_rule_matches" =>
            p.findings = 0 /\ p.observations = 0 /\ p.errors = 0
    /\ p.outcome = "configured_rule_matches_detected" => p.findings # 0
    /\ p.outcome = "review_observations" =>
            p.observations # 0 /\ p.findings = 0 /\ p.errors = 0
    /\ p.error => ~p.available
    /\ p.feed \in {"absent", "valid", "invalid"}
    /\ ValidUpdate(p.update)
    /\ p.entries = p.quarantine_count

(* What the desktop's scan card says of it.                                *)
StatusPresentation(p) ==
    IF p.error THEN "unavailable"
    ELSE IF ~p.available \/ ~p.dated THEN "not_run"
    ELSE CASE p.outcome = "incomplete" -> "incomplete"
           [] p.outcome = "configured_rule_matches_detected" -> "matches"
           [] p.outcome = "review_observations" -> "review"
           [] p.outcome = "no_configured_rule_matches" -> "no_matches"
           [] OTHER -> "unknown"

ValidReport(r) ==
    /\ r.schema = "report" /\ r.outcome \in Outcomes
    /\ ~r.real_time /\ ~r.eligible

(* What the panel of the scan that has just ended says.                    *)
ScanRunPresentation(r) ==
    CASE r.outcome = "no_configured_rule_matches" -> "no_matches"
      [] r.outcome = "review_observations" -> "review"
      [] r.outcome = "configured_rule_matches_detected" -> "matches"
      [] OTHER -> "incomplete"

Notified(r) == r.outcome \in {"configured_rule_matches_detected", "incomplete"}

-----------------------------------------------------------------------------
(* replacement-readiness: the decision never depends on the host.          *)
CommonGates == {"locked_efficacy_evaluation", "publisher_signed_release", "parser_isolation"}
PlatformGates(platform) ==
    CASE platform = "windows" -> {"windows_minifilter", "windows_protected_service"}
      [] platform = "linux" -> {"linux_supported_matrix", "linux_realtime_broker"}
      [] platform = "macos" -> {"macos_endpoint_security", "macos_signed_notarized_app"}
      [] OTHER -> {"supported_platform"}

ReadinessAnswer(platform) ==
    Answer(2, [schema |-> "readiness", decision |-> "keep_existing_protection",
               eligible |-> FALSE, provider_remains |-> TRUE, override |-> FALSE,
               blocking |-> CommonGates \cup PlatformGates(platform), states |-> {"not_met"},
               met |-> 0,
               not_met |-> Cardinality(CommonGates) + Cardinality(PlatformGates(platform))])

ValidReadiness(p) ==
    /\ p.schema = "readiness" /\ p.decision = "keep_existing_protection"
    /\ ~p.eligible /\ p.provider_remains /\ ~p.override
    /\ p.states \subseteq {"not_met"}
    /\ p.met = 0 /\ p.not_met = Cardinality(p.blocking)

-----------------------------------------------------------------------------
(* recovery-drill on a synthetic file, with controls of the vault broken.  *)
(* Each later check restores: it fails too when restoring is broken.       *)
Broken == {"encrypts", "restores", "keeps_existing", "authenticates", "needs_key"}
DrillChecks == {"encrypted_authenticated_copy", "authenticated_restore", "no_overwrite_restore",
                "ciphertext_tamper_rejected", "device_key_loss_and_recovery"}
Passes(check, broken) ==
    CASE check = "encrypted_authenticated_copy" -> "encrypts" \notin broken
      [] check = "authenticated_restore" -> "restores" \notin broken
      [] check = "no_overwrite_restore" -> broken \cap {"restores", "keeps_existing"} = {}
      [] check = "ciphertext_tamper_rejected" -> broken \cap {"restores", "authenticates"} = {}
      [] OTHER -> broken \cap {"restores", "needs_key"} = {}

(* Without a finding to quarantine there is no document.                   *)
DrillAnswer(broken, found) ==
    IF ~found THEN Fails
    ELSE LET good == {c \in DrillChecks : Passes(c, broken)}
         IN  Answer(IF good = DrillChecks THEN 0 ELSE 2,
                    [schema |-> "drill", passed |-> good = DrillChecks, certified |-> FALSE,
                     checks |-> [c \in DrillChecks |-> c \in good],
                     count |-> Cardinality(good), failed |-> Cardinality(DrillChecks \ good)])

ValidDrill(p) ==
    /\ p.schema = "drill" /\ ~p.certified
    /\ DOMAIN p.checks = DrillChecks
    /\ p.count = Cardinality({c \in DrillChecks : p.checks[c]})
    /\ p.failed = Cardinality(DrillChecks) - p.count
    /\ p.passed = (p.failed = 0)

-----------------------------------------------------------------------------
(* quarantine list, restore, update: what they answer when they do not     *)
(* fail.                                                                   *)
ListAnswer(states, unreadable) ==
    Answer(IF unreadable > 0 THEN 2 ELSE 0, [schema |-> "list", states |-> states])
ValidList(p) == p.schema = "list" /\ p.states \subseteq {"quarantined", "copy_only", "restored"}

RestoreAnswer(id) == Answer(0, [schema |-> "restore", id |-> id])
ValidRestore(p, id) == p.schema = "restore" /\ p.id = id

FeedAnswer(outcome, sequence) ==
    Answer(0, [schema |-> "update", outcome |-> outcome, sequence |-> sequence])
ValidFeed(p) == p.schema = "update" /\ p.outcome \in {"installed", "unchanged"} /\ p.sequence >= 1

(* A Windows action: what the script answers when Defender is active or    *)
(* not, and the command and the reading of the evidence after it succeed.  *)
Actions == {"UpdateSignatures", "QuickScan", "FullScan"}
ActionAnswer(action, active, succeeds) ==
    LET done == succeeds /\ (action = "UpdateSignatures" => active)
    IN  Answer(IF done THEN 0 ELSE 2,
               [schema |-> "action", outcome |-> IF done THEN "completed" ELSE "failed",
                error |-> ~done, evidence |-> done, changed |-> FALSE])
ValidAction(p) ==
    /\ p.schema = "action" /\ ~p.changed
    /\ p.outcome = "failed" => p.error /\ ~p.evidence
    /\ p.outcome = "completed" => ~p.error /\ p.evidence

-----------------------------------------------------------------------------
(* _run_json: an answer is accepted when the process has ended by itself,  *)
(* with a code this command is expected to use and a document its          *)
(* validator accepts.                                                      *)
Accepted(answer, codes, Valid(_)) ==
    /\ answer.doc # NoDocument
    /\ answer.code \in codes
    /\ Valid(answer.doc)

AcceptsStatus(a) == Accepted(a, {0, 2}, ValidStatus)
AcceptsReport(a) == Accepted(a, {0, 1, 2}, ValidReport)
AcceptsReadiness(a) == Accepted(a, {2}, ValidReadiness)
AcceptsDrill(a) == Accepted(a, {0, 2}, ValidDrill) /\ a.doc.passed = (a.code = 0)
AcceptsList(a) == Accepted(a, {0, 2}, ValidList)
AcceptsFeed(a) == Accepted(a, {0}, ValidFeed)
AcceptsRestore(a, id) == Accepted(a, {0}, LAMBDA p : ValidRestore(p, id))
AcceptsAction(a) == Accepted(a, {0, 2}, ValidAction) /\ (a.doc.outcome = "completed") = (a.code = 0)

-----------------------------------------------------------------------------
(* Every scan and every state of the engine can be shown: its answer is    *)
(* accepted, a summary saved by any scan can be read again, and the card   *)
(* then says what the panel of that scan said. Two implementations of the  *)
(* rules of outcomes and counters must agree for that.                     *)
Feeds == {"absent", "valid", "invalid"}
Updates == UpdateRecords \cup {Nothing, Damaged}
ShownScans ==
    /\ \A s \in Scans, saved \in BOOLEAN : AcceptsReport(CheckAnswer(s, saved))
    /\ \A s \in Scans, feed \in Feeds, unreadable \in 0..1 :
            LET a == StatusAnswer(LastScan(s), feed, 1, unreadable, Nothing)
            IN  AcceptsStatus(a) /\ StatusPresentation(a.doc) = ScanRunPresentation(Report(s, TRUE))
    /\ \A f \in Summaries \cup {Nothing, Damaged}, feed \in Feeds, update \in Updates :
            AcceptsStatus(StatusAnswer(f, feed, 0, 0, update))

(* The other commands: what they answer is accepted, and the drill's       *)
(* summary, checks and exit code say one thing.                            *)
ShownAnswers ==
    /\ \A p \in {"windows", "linux", "macos", "unsupported"} : AcceptsReadiness(ReadinessAnswer(p))
    /\ \A broken \in SUBSET Broken :
            AcceptsDrill(DrillAnswer(broken, TRUE)) /\ DrillAnswer(broken, TRUE).doc.passed = (broken = {})
    /\ \A states \in SUBSET {"quarantined", "copy_only", "restored"}, unreadable \in 0..1 :
            AcceptsList(ListAnswer(states, unreadable))
    /\ AcceptsRestore(RestoreAnswer("e1"), "e1") /\ ~AcceptsRestore(RestoreAnswer("e2"), "e1")
    /\ \A outcome \in {"installed", "unchanged"} : AcceptsFeed(FeedAnswer(outcome, 1))
    /\ \A action \in Actions, active, succeeds \in BOOLEAN :
            AcceptsAction(ActionAnswer(action, active, succeeds))

(* A scan ends in success only when nothing was found and nothing was left *)
(* out, and with 2 exactly when something was left undone: a file unread,  *)
(* a finding not quarantined, a feed not usable, the summary not saved.    *)
(* The user is told of every end but success and review items.             *)
WholeSuccess ==
    \A s \in Scans, saved \in BOOLEAN :
        LET a == CheckAnswer(s, saved) IN
        /\ a.code = 0 <=> /\ s.findings = 0 /\ s.observations = 0 /\ s.issues = 0
                          /\ s.feed # "invalid" /\ saved
        /\ a.code = 2 <=> s.issues > 0 \/ s.failed > 0 \/ s.feed = "invalid" \/ ~saved
        /\ a.code = 2 => Notified(a.doc)
        /\ s.findings > 0 => Notified(a.doc) /\ ScanRunPresentation(a.doc) \in {"matches", "incomplete"}
=============================================================================
