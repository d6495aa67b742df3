---------------------------- MODULE TrustRegister ----------------------------
(***************************************************************************)
(* What installing signed data promises: there is one committed version,   *)
(* it is only ever replaced by a newer one, and a reader is given that     *)
(* version or is told that there is nothing valid; it is never given an    *)
(* older one or a mixture.                                                 *)
(***************************************************************************)
EXTENDS Integers

CONSTANTS Versions,     \* signed versions: records with a sequence number
          Readers,
          Nothing       \* before the first installation; what an invalid read gives

VARIABLES value,        \* the committed version
          seen          \* what each reader's last read returned

vars == <<value, seen>>

Newer(v, w) == w # Nothing => v.sequence > w.sequence

Init == value = Nothing /\ seen = [r \in Readers |-> Nothing]

Advance(v) == Newer(v, value) /\ value' = v /\ UNCHANGED seen

Read(r) == seen' = [seen EXCEPT ![r] = value] /\ UNCHANGED value

Refuse(r) == seen' = [seen EXCEPT ![r] = Nothing] /\ UNCHANGED value

Next == (\E v \in Versions : Advance(v)) \/ (\E r \in Readers : Read(r) \/ Refuse(r))

Spec == Init /\ [][Next]_vars
=============================================================================
