--------------------------- MODULE PathObligations ---------------------------
(***************************************************************************)
(* What an event queue promises the protection loop, without saying how:   *)
(* a path the operating system reported stays owed until it is handed to   *)
(* the scanner, and a report that cannot be kept raises an alarm that      *)
(* stays up until the loop has acknowledged it.                            *)
(***************************************************************************)
CONSTANTS Paths       \* the files the session may be told about

VARIABLES owed,       \* paths reported and not yet handed to the scanner
          handed,     \* the batch the scanner is working on
          alarm       \* TRUE when a report was lost and not acknowledged

vars == <<owed, handed, alarm>>

Init == owed = {} /\ handed = {} /\ alarm = FALSE

(* The report of a change to path p is kept. *)
Keep(p) == owed' = owed \cup {p} /\ UNCHANGED <<handed, alarm>>

(* A report is lost, and the alarm says so in the same step. *)
Lose == alarm' = TRUE /\ UNCHANGED <<owed, handed>>

(* A non-empty batch of owed paths goes to the scanner. A path reported    *)
(* again meanwhile may stay owed.                                          *)
HandOver(batch) ==
    /\ batch # {}
    /\ batch \subseteq owed
    /\ handed' = batch
    /\ owed' \in SUBSET owed
    /\ owed \ batch \subseteq owed'
    /\ UNCHANGED alarm

(* The scanner is done with its batch. *)
Finish == handed # {} /\ handed' = {} /\ UNCHANGED <<owed, alarm>>

(* The loop has seen the alarm. *)
Acknowledge == alarm /\ alarm' = FALSE /\ UNCHANGED <<owed, handed>>

Next == \/ \E p \in Paths : Keep(p)
        \/ Lose
        \/ \E batch \in SUBSET Paths : HandOver(batch)
        \/ Finish
        \/ Acknowledge

Spec == Init /\ [][Next]_vars
=============================================================================
