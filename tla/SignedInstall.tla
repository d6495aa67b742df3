---------------------------- MODULE SignedInstall ----------------------------
(***************************************************************************)
(* How ZSEC Shield replaces signed data on disk. install_feed (feed.py),   *)
(* install_intelligence_envelope and run_automatic_application_update_     *)
(* check (automatic_updates.py) follow one protocol: verify a signed       *)
(* document, take a lock that does not wait, compare its sequence number   *)
(* with the rollback state, replace some objects, each atomically, and     *)
(* last of all the state. Several processes may do so at once; any of them *)
(* may be killed or run into an I/O error between two replacements.        *)
(*                                                                         *)
(* Objects lists what is replaced before the state, in order; the modules  *)
(* that extend this one say what it is for each kind of data. The object   *)
(* "copy" receives what "envelope" held; all others receive the new        *)
(* version. A version stands for a document whose signature, policy,       *)
(* digest and validity period have been verified.                          *)
(***************************************************************************)
EXTENDS Integers, Sequences, FiniteSets

CONSTANTS
    Clients,            \* processes that install updates
    Versions,           \* the documents the publisher has signed
    Digests,            \* their payload digests
    Objects,            \* the objects replaced before the state
    Nothing,            \* the content of a file that does not exist
    MaxFaults           \* bound: crashes and I/O errors in the midst of writing

Names == {Objects[i] : i \in 1..Len(Objects)}

ASSUME InstallAssumption ==
    /\ Versions \subseteq [sequence : Nat \ {0}, digest : Digests]
    /\ Nothing \notin Versions
    /\ Nothing \notin Clients
    /\ Objects \in Seq(STRING)
    /\ "copy" \in Names => "envelope" \in Names
    /\ MaxFaults \in Nat

VARIABLES
    file,               \* the content of each object
    state,              \* max_sequence and digest of the rollback state
    holder,             \* who holds the update lock
    pc, held,           \* of each client: where it is, the version it verified
    next,               \* of each client: index of the object to replace next
    outcome,            \* of each client: how its installation ended
    faults, torn        \* history: faults so far; one left objects half replaced

disk == <<file, state>>
control == <<pc, held, next, outcome>>
vars == <<disk, holder, control, faults, torn>>

Maybe == Versions \cup {Nothing}
Outcomes == {"none", "installed", "unchanged", "failed"}

TypeOK ==
    /\ file \in [Names -> Maybe]
    /\ state \in Maybe
    /\ holder \in Clients \cup {Nothing}
    /\ pc \in [Clients -> {"idle", "fetch", "lock", "write", "return"}]
    /\ held \in [Clients -> Maybe]
    /\ next \in [Clients -> 1..Len(Objects) + 1]
    /\ outcome \in [Clients -> Outcomes]
    /\ faults \in 0..MaxFaults
    /\ torn \in BOOLEAN
    /\ \A c \in Clients : pc[c] = "write" <=> holder = c

Init ==
    /\ file = [n \in Names |-> Nothing] /\ state = Nothing
    /\ holder = Nothing
    /\ pc = [c \in Clients |-> "idle"] /\ held = [c \in Clients |-> Nothing]
    /\ next = [c \in Clients |-> 1] /\ outcome = [c \in Clients |-> "none"]
    /\ faults = 0 /\ torn = FALSE

-----------------------------------------------------------------------------
At(c, here, there) == pc[c] = here /\ pc' = [pc EXCEPT ![c] = there]

Ends(c, how) == outcome' = [outcome EXCEPT ![c] = how]

Begin(c) ==
    /\ At(c, "idle", "fetch")
    /\ UNCHANGED <<disk, holder, held, next, outcome, faults, torn>>

(* Download and verify. A mirror may deliver any document ever signed.     *)
Fetch(c, v) ==
    /\ At(c, "fetch", "lock")
    /\ held' = [held EXCEPT ![c] = v]
    /\ UNCHANGED <<disk, holder, next, outcome, faults, torn>>

(* Transport or verification fails, or the lock file cannot be opened.     *)
FetchFails(c) ==
    /\ At(c, "fetch", "return")
    /\ Ends(c, "failed")
    /\ UNCHANGED <<disk, holder, held, next, faults, torn>>

(* Another process holds the lock: no waiting. *)
LockBusy(c) ==
    /\ holder # Nothing
    /\ At(c, "lock", "return")
    /\ Ends(c, "failed")
    /\ UNCHANGED <<disk, holder, held, next, faults, torn>>

(* Mutant: a reused sequence number passes with other content.             *)
AcceptableReused(v) == state # Nothing => v.sequence >= state.sequence

(* The rollback check: a sequence number is never lowered, and never       *)
(* reused for other content.                                               *)
Acceptable(v) == state # Nothing => v.sequence > state.sequence \/ v = state

Reject(c) ==
    /\ At(c, "lock", "return")
    /\ holder = Nothing /\ ~Acceptable(held[c])
    /\ Ends(c, "failed")
    /\ UNCHANGED <<disk, holder, held, next, faults, torn>>

(* The lock is taken and the rollback state read and compared.             *)
Accept(c) ==
    /\ At(c, "lock", "write")
    /\ holder = Nothing /\ Acceptable(held[c])
    /\ holder' = c
    /\ next' = [next EXCEPT ![c] = 1]
    /\ UNCHANGED <<disk, held, outcome, faults, torn>>

(* Mutant: a failed replacement is passed over.                            *)
WriteObjectPassedOver(c) ==
    /\ At(c, "write", "write") /\ next[c] <= Len(Objects)
    /\ \/ file' = [file EXCEPT ![Objects[next[c]]] =
                      IF Objects[next[c]] = "copy" THEN file["envelope"] ELSE held[c]]
       \/ UNCHANGED file
    /\ next' = [next EXCEPT ![c] = next[c] + 1]
    /\ UNCHANGED <<state, holder, held, outcome, faults, torn>>

(* One object is replaced, atomically (atomic_write_bytes).                *)
WriteObject(c) ==
    /\ At(c, "write", "write") /\ next[c] <= Len(Objects)
    /\ file' = [file EXCEPT ![Objects[next[c]]] =
                   IF Objects[next[c]] = "copy" THEN file["envelope"] ELSE held[c]]
    /\ next' = [next EXCEPT ![c] = next[c] + 1]
    /\ UNCHANGED <<state, holder, held, outcome, faults, torn>>

(* The state, the commit marker, is replaced last, and the lock released.  *)
WriteState(c) ==
    /\ At(c, "write", "return") /\ next[c] > Len(Objects)
    /\ state' = held[c]
    /\ holder' = Nothing
    /\ Ends(c, IF held[c] = state THEN "unchanged" ELSE "installed")
    /\ torn' = FALSE
    /\ UNCHANGED <<file, held, next, faults>>

(* The disk is full, or a replacement is refused: the lock is released and *)
(* what was replaced so far stays. The error may also come after the last  *)
(* replacement, from synchronising the directory: then the new version is  *)
(* committed although its installer reports a failure.                     *)
WriteFails(c) ==
    /\ faults < MaxFaults
    /\ At(c, "write", "return")
    /\ holder' = Nothing
    /\ Ends(c, "failed")
    /\ faults' = faults + 1
    /\ \/ UNCHANGED state /\ torn' = (torn \/ next[c] > 1)
       \/ next[c] > Len(Objects) /\ state' = held[c] /\ torn' = FALSE
    /\ UNCHANGED <<file, held, next>>

(* Mutant: a lock that is the existence of a file, which outlives a crash. *)
CrashKeepsLock(c) ==
    /\ faults < MaxFaults
    /\ pc[c] # "idle" /\ pc' = [pc EXCEPT ![c] = "idle"]
    /\ outcome' = [outcome EXCEPT ![c] = "none"]
    /\ faults' = faults + 1 /\ torn' = (torn \/ (pc[c] = "write" /\ next[c] > 1))
    /\ UNCHANGED <<disk, holder, held, next>>

(* The process is killed; the operating system releases its lock.          *)
Crash(c) ==
    /\ faults < MaxFaults
    /\ pc[c] # "idle" /\ pc' = [pc EXCEPT ![c] = "idle"]
    /\ holder' = IF holder = c THEN Nothing ELSE holder
    /\ outcome' = [outcome EXCEPT ![c] = "none"]
    /\ faults' = faults + 1 /\ torn' = (torn \/ (pc[c] = "write" /\ next[c] > 1))
    /\ UNCHANGED <<disk, held, next>>

(* The installation is over, and its result known to the caller.           *)
Return(c) ==
    /\ At(c, "return", "idle")
    /\ outcome' = [outcome EXCEPT ![c] = "none"]
    /\ UNCHANGED <<disk, holder, held, next, faults, torn>>

(* The steps of an installation between its beginning and its end.         *)
Working(c) ==
    \/ \E v \in Versions : Fetch(c, v)
    \/ FetchFails(c) \/ LockBusy(c) \/ Reject(c) \/ Accept(c)
    \/ WriteObject(c) \/ WriteState(c) \/ WriteFails(c)

Next == \E c \in Clients : Begin(c) \/ Working(c) \/ Crash(c) \/ Return(c)

Spec == Init /\ [][Next]_vars

-----------------------------------------------------------------------------
(* The rollback state advances like a register: never to a lower sequence  *)
(* number, never to other content under the same number, whoever installs  *)
(* at the same time and wherever an earlier installation was cut short.    *)
StateOnlyAdvances ==
    [][state' # state => state' # Nothing /\ (state = Nothing \/ state'.sequence > state.sequence)]_vars

(* When nobody is installing, every object is the committed version,       *)
(* unless an installation was cut short and none has completed since.      *)
ObjectsMatchState ==
    holder = Nothing /\ ~torn => \A n \in Names \ {"copy"} : file[n] = state

(* At every moment, during an installation, after one was cut short and    *)
(* through all retries, no object is older than the rollback state, nor    *)
(* other content under its sequence number: what is mixed is mixed with    *)
(* something newer, which a reader that compares both refuses.             *)
ObjectsNeverOlder ==
    \A n \in Names \ {"copy"} : file[n] # state =>
        file[n] # Nothing /\ (state = Nothing \/ file[n].sequence > state.sequence)

(* "Partially written data is never reported as current" (the comment in   *)
(* install_intelligence_envelope): whoever returns with success holds the  *)
(* committed version, or one that a later installation has superseded.     *)
ReportedIsCommitted ==
    \A c \in Clients : outcome[c] \in {"installed", "unchanged"} =>
        /\ state # Nothing /\ held[c] # Nothing
        /\ held[c] = state \/ held[c].sequence < state.sequence

(* What an installation leaves, and what it reports: all three.            *)
InstalledIsSound == ObjectsMatchState /\ ObjectsNeverOlder /\ ReportedIsCommitted
=============
