------------------------- MODULE CompanionDocuments -------------------------
(***************************************************************************)
(* The companion's evidence: what the status script reads of a Windows     *)
(* machine (src/windows/companion/Get-ZsecAntivirusCompanionStatus.ps1),   *)
(* what the desktop accepts of its document, and what it then presents     *)
(* (zsec_desktop/contracts.py). Colours are the claim: green says that a   *)
(* protection has been verified. Of the features of Microsoft Defender,    *)
(* two stand for the three that make it active and one for the four that   *)
(* the baseline adds; names, ages, versions and notes are left out.        *)
(***************************************************************************)
EXTENDS Integers, Sequences, FiniteSets

Required == {"real_time_protection_enabled", "service_enabled"}
Baseline == {"network_inspection_enabled"}
Features == Required \cup Baseline

(* Defender as it is: what it reports of its signatures ("unknown" when it *)
(* does not), whether their version and date are there, whether the        *)
(* reading breaks off after the features, and whether the setting of its   *)
(* Network Protection is one of the three documented numbers.              *)
Defenders ==
    [available : BOOLEAN, features : SUBSET Features, outdated : {"yes", "no", "unknown"},
     material : BOOLEAN, breaks : BOOLEAN, tamper : {"enabled", "unknown"},
     reboot : {"no", "yes", "unknown"}, documented : BOOLEAN]

Current(d) == d.outdated = "no" /\ d.material

(* The evidence that the script records of it: nothing is inferred.        *)
DefenderEvidence(d) ==
    LET read == d.available
        judged == read /\ ~d.breaks
        active == judged /\ Required \subseteq d.features
        reported == read /\ d.outdated # "unknown"
    IN  [available |-> read, features |-> IF read THEN d.features ELSE {},
         confirmed |-> active, baseline |-> active /\ Baseline \subseteq d.features,
         outdated |-> IF read THEN d.outdated ELSE "unknown", material |-> read /\ d.material,
         current |-> reported /\ Current(d),
         recommended |-> reported /\ (d.outdated = "yes" \/ ~d.material),
         tamper |-> IF read THEN d.tamper ELSE "unknown",
         reboot |-> IF read THEN d.reboot ELSE "unknown",
         documented |-> judged => d.documented]

(* Any evidence at all, as a document may hold it.                         *)
Evidences ==
    [available : BOOLEAN, features : SUBSET Features, confirmed : BOOLEAN, baseline : BOOLEAN,
     outdated : {"yes", "no", "unknown"}, material : BOOLEAN, current : BOOLEAN,
     recommended : BOOLEAN, tamper : {"enabled", "unknown"}, reboot : {"no", "yes", "unknown"},
     documented : BOOLEAN]

ConfirmedAgrees(e) == e.confirmed = (Required \subseteq e.features)
ValidDefender(e) ==
    /\ e.documented
    /\ e.confirmed => e.available
    /\ ConfirmedAgrees(e)
    /\ e.baseline = (e.confirmed /\ Baseline \subseteq e.features)
    /\ e.outdated # "unknown" =>
            /\ e.current = (e.outdated = "no" /\ e.material)
            /\ e.recommended = (e.outdated = "yes" \/ ~e.material)

-----------------------------------------------------------------------------
(* The companion. A reason is what the script finds wrong. The health that *)
(* Windows Security Center reports of all antivirus products may be a      *)
(* number without a name, or cannot be read at all: the document is then   *)
(* without its products and services, and without Defender's evidence.     *)
Machines ==
    [aggregate : {"good", "bad", "unnamed", "unreadable"}, installed : {"absent", "damaged", "yes"},
     supervisor : {"task_running", "task_ready", "run_value", "changed", "missing"},
     hashes : BOOLEAN, heartbeat : {"absent", "unreadable", "read"},
     schema : BOOLEAN, fresh : BOOLEAN, process : BOOLEAN,
     session : {"healthy", "degraded", "inventorying_metadata"}]

Verified(m) == m.supervisor \in {"task_running", "task_ready", "run_value"}
SupervisorState(m) ==
    CASE m.supervisor = "task_running" -> "Running"
      [] m.supervisor = "task_ready" -> "Ready"
      [] m.supervisor = "run_value" -> "registered_for_logon"
      [] OTHER -> "absent"

Reasons(m) ==
    (IF m.aggregate = "good" THEN {} ELSE {"aggregate"})
    \cup (IF m.supervisor \in {"task_running", "run_value"} THEN {} ELSE {"supervisor"})
    \cup (IF m.hashes THEN {} ELSE {"hashes"})
    \cup (IF m.heartbeat = "read"
          THEN (IF m.schema THEN {} ELSE {"schema"}) \cup (IF m.fresh THEN {} ELSE {"stale"})
               \cup (IF m.process THEN {} ELSE {"process"})
               \cup (IF m.session = "healthy" THEN {} ELSE {m.session})
          ELSE {"heartbeat"})

Companion(m, e) ==
    LET whole == m.installed = "yes"
        read == whole /\ m.heartbeat = "read"
        inventorying == Reasons(m) = {"inventorying_metadata"} /\ Verified(m) /\ m.aggregate = "good"
        healthy == Reasons(m) = {}
        shown(decision, reasons) ==
            [installed |-> m.installed # "absent", healthy |-> decision = "healthy_companion",
             decision |-> decision, reasons |-> reasons, aggregate |-> m.aggregate = "good",
             center |-> IF m.aggregate \in {"good", "bad"} THEN "named" ELSE m.aggregate,
             defender |-> e, supervised |-> whole /\ Verified(m), supervisor |-> SupervisorState(m),
             integrity |-> IF ~whole THEN "absent" ELSE IF m.hashes THEN "verified" ELSE "failed",
             schema |-> read /\ m.schema, fresh |-> read /\ m.fresh,
             process |-> read /\ m.process, session |-> m.session]
    IN  CASE m.installed = "absent" -> shown("not_installed", {"marker"})
          [] m.installed = "damaged" -> shown("degraded", {"metadata"})
          [] OTHER -> IF healthy THEN shown("healthy_companion", {})
                      ELSE IF inventorying
                           THEN shown("metadata_inventory_in_progress", {"inventory"})
                           ELSE shown("degraded", Reasons(m))

(* Any document at all.                                                    *)
Documents(evidence) ==
    [installed : BOOLEAN, healthy : BOOLEAN,
     decision : {"not_installed", "metadata_inventory_in_progress", "degraded",
                 "healthy_companion"},
     reasons : {{}, {"inventory"}, {"stale"}, {"process"}, {"degraded"}, {"hashes"}},
     aggregate : BOOLEAN, center : {"named", "unnamed", "unreadable"}, defender : evidence,
     supervised : BOOLEAN,
     supervisor : {"registered_for_logon", "Running"},
     integrity : {"absent", "failed", "verified"}, schema : BOOLEAN, fresh : BOOLEAN,
     process : BOOLEAN, session : {"healthy", "inventorying_metadata"}]

Supervised(p) ==
    p.supervised /\ p.supervisor \in {"registered_for_logon", "registered_and_running"}
Beating(p) == p.schema /\ p.fresh /\ p.process

ValidCompanion(p) ==
    /\ p.center = "named" /\ ValidDefender(p.defender)
    /\ p.decision = "not_installed" => ~p.installed /\ ~p.healthy
    /\ p.decision = "degraded" => ~p.healthy
    /\ p.decision = "metadata_inventory_in_progress" =>
            /\ p.installed /\ ~p.healthy /\ p.aggregate /\ p.reasons = {"inventory"}
            /\ Supervised(p) /\ p.integrity = "verified" /\ Beating(p) /\ p.session = "inventorying_metadata"
    /\ p.decision = "healthy_companion" =>
            p.installed /\ p.healthy /\ p.aggregate /\ Supervised(p) /\ p.integrity = "verified" /\ Beating(p)

-----------------------------------------------------------------------------
Shown(state, accent) == [state |-> state, accent |-> accent]

CompanionPresentation(p) ==
    CASE p.decision = "healthy_companion" -> Shown("healthy", "green")
      [] p.decision = "not_installed" -> Shown("not_installed", "amber")
      [] p.decision = "metadata_inventory_in_progress" -> Shown("inventorying", "cyan")
      [] OTHER ->
            IF ~p.aggregate \/ p.integrity = "failed" THEN Shown("degraded", "red")
            ELSE CASE "stale" \in p.reasons -> Shown("stale", "amber")
                   [] "stale" \notin p.reasons /\ p.supervised /\ "process" \in p.reasons ->
                            Shown("recovering", "amber")
                   [] OTHER -> IF Beating(p) /\ p.reasons = {"degraded"}
                               THEN Shown("coverage_review", "amber")
                               ELSE Shown("degraded", "amber")

(* The three layers: Windows, the companion, and the extent of its cover.  *)
WindowsLayer(p) ==
    CASE p.defender.confirmed /\ p.aggregate -> "green"
      [] p.defender.confirmed # p.aggregate -> "amber"
      [] OTHER -> "red"
CompanionLayer(p) == CompanionPresentation(p).accent
ScopeLayer(p) ==
    CASE CompanionPresentation(p).state = "healthy" -> "cyan"
      [] CompanionPresentation(p) = Shown("degraded", "red") -> "red"
      [] OTHER -> "amber"

(* The hand-over from another antivirus to Defender.                       *)
Ready(p, complete) ==
    /\ p.aggregate /\ complete /\ p.defender.available /\ p.defender.confirmed
    /\ p.defender.baseline /\ p.defender.current
    /\ p.defender.tamper = "enabled" /\ p.defender.reboot = "no"
Cutover(p, complete, other) ==
    IF Ready(p, complete) THEN IF other THEN "eligible" ELSE "verified" ELSE "blocked"

(* The desktop's card of Windows; it asks for newer signatures.            *)
WindowsCard(p) == IF p.aggregate THEN "green" ELSE "red"
Maintainable(p) == p.defender.available /\ p.defender.confirmed /\ p.defender.recommended

-----------------------------------------------------------------------------
Good == DefenderEvidence([available |-> TRUE, features |-> Features, outdated |-> "no",
            material |-> TRUE, breaks |-> FALSE, tamper |-> "enabled", reboot |-> "no",
            documented |-> TRUE])

(* Green is earned: whatever document reaches the desktop, if it is        *)
(* accepted, what is shown green is supported by the evidence in it. The   *)
(* row of scope is never green, and a hand-over is never called ready      *)
(* while a required protection is off or signatures are known to be old.   *)
EarnedGreen ==
    /\ \A p \in Documents({Good, [Good EXCEPT !.confirmed = FALSE, !.features = {}, !.baseline = FALSE]}) :
            ValidCompanion(p) =>
                /\ CompanionLayer(p) = "green" =>
                        p.installed /\ p.aggregate /\ p.supervised /\ p.integrity = "verified" /\ Beating(p)
                /\ ScopeLayer(p) # "green"
    /\ \A e \in Evidences, good \in BOOLEAN :
            LET p == [Companion([aggregate |-> IF good THEN "good" ELSE "bad",
                          installed |-> "absent", supervisor |-> "missing", hashes |-> FALSE,
                          heartbeat |-> "absent", schema |-> FALSE, fresh |-> FALSE,
                          process |-> FALSE, session |-> "healthy"], Good) EXCEPT !.defender = e]
            IN  ValidCompanion(p) =>
                    /\ WindowsLayer(p) = "green" => good /\ e.available /\ Required \subseteq e.features
                    /\ \A complete, other \in BOOLEAN : Cutover(p, complete, other) # "blocked" =>
                            good /\ complete /\ Features \subseteq e.features /\ e.outdated # "yes"

(* What the script finds and the desktop cannot take: a health of Windows  *)
(* without a name; evidence of an active Defender that breaks off, or an   *)
(* undocumented setting in it; and a companion in order, or whose first    *)
(* inventory is under way, that a Scheduled Task runs.                     *)
Taken(d) == d.available => IF d.breaks THEN ~(Required \subseteq d.features) ELSE d.documented
InOrder(m) == m.installed = "yes" /\ Reasons(m) \subseteq {"inventorying_metadata"}
Presentable(m, d) ==
    /\ m.aggregate \notin {"unnamed", "unreadable"}
    /\ Taken(d)
    /\ ~(InOrder(m) /\ m.supervisor = "task_running")

(* A document that is refused shows nothing of the companion.              *)
CompanionShown(p) == IF ValidCompanion(p) THEN CompanionLayer(p) ELSE "unavailable"

(* The desktop takes every document the script can write but these, and    *)
(* shows the companion green exactly when it takes the document and there  *)
(* is nothing wrong on the machine: no other disagreement of the two sides *)
(* hides a companion in order, or shows one that is not.                   *)
Typical == {d \in Defenders : d.available /\ d.features \in {{}, Features} /\ d.outdated = "no"
                              /\ d.material /\ d.tamper = "enabled" /\ d.reboot = "no"}
ShownVerdicts ==
    /\ \A d \in Defenders : ValidDefender(DefenderEvidence(d)) <=> Taken(d)
    /\ \A m \in Machines, d \in Typical :
            LET p == Companion(m, DefenderEvidence(d)) IN
            /\ ValidCompanion(p) <=> Presentable(m, d)
            /\ CompanionShown(p) = "green" <=>
                    Presentable(m, d) /\ m.installed = "yes" /\ Reasons(m) = {}
=============================================================================
