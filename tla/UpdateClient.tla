---------------------------- MODULE UpdateClient -----------------------------
(***************************************************************************)
(* run_automatic_update and run_automatic_application_update_check: an     *)
(* installation between the reading and the writing of a status record.    *)
(* The lock covers the installation only; the record, which is what the    *)
(* user sees, is read before and written after it. The companion's timer   *)
(* and the desktop application start such checks in separate processes.    *)
(* A check that is not due returns the record it has read and changes      *)
(* nothing; it is not a step here.                                         *)
(***************************************************************************)
EXTENDS SignedInstall

CONSTANT Newest         \* what the publisher serves in the end

ASSUME NewestAssumption ==
    Newest \in Versions /\ \A v \in Versions \ {Newest} : v.sequence < Newest.sequence

VARIABLES
    record,             \* the record: last result, version of the last success
    loaded              \* of each client: the success in the record it read

clientVars == <<vars, record, loaded>>

ClientInit ==
    /\ Init
    /\ record = [result |-> "none", version |-> Nothing]
    /\ loaded = [c \in Clients |-> Nothing]

-----------------------------------------------------------------------------
(* load_automatic_update_status, at the beginning of a check that is due.  *)
LoadStatus(c) ==
    /\ Begin(c)
    /\ loaded' = [loaded EXCEPT ![c] = record.version]
    /\ UNCHANGED record

(* Mutant: an error records the version that was offered.                  *)
ReportOffered(c) ==
    /\ Return(c)
    /\ record' = [result |-> outcome[c], version |-> held[c]]
    /\ UNCHANGED loaded

(* The record is replaced: by what was installed, or, after an error, by   *)
(* the success found at the beginning.                                     *)
Report(c) ==
    /\ Return(c)
    /\ record' = [result |-> outcome[c],
                  version |-> IF outcome[c] = "failed" THEN loaded[c] ELSE held[c]]
    /\ UNCHANGED loaded

ClientNext == \E c \in Clients :
    \/ LoadStatus(c) \/ Report(c)
    \/ (Working(c) \/ Crash(c)) /\ UNCHANGED <<record, loaded>>

ClientSpec == ClientInit /\ [][ClientNext]_clientVars

(* Checks are repeated by a timer, a started check goes on, and downloads  *)
(* do not fail for ever.                                                   *)
Proceeds(c) ==
    \/ LoadStatus(c) \/ Report(c)
    \/ Working(c) /\ UNCHANGED <<record, loaded>>

Downloads(c) == Fetch(c, Newest) /\ UNCHANGED <<record, loaded>>

FairSpec ==
    /\ ClientSpec
    /\ \A c \in Clients : WF_clientVars(Proceeds(c)) /\ SF_clientVars(Downloads(c))

-----------------------------------------------------------------------------
(* The record never claims more than the rollback state: the version of    *)
(* its last success is committed, or has been superseded, whichever of     *)
(* several updaters wrote it, and however late.                            *)
StatusIsCommitted ==
    record.version # Nothing =>
        /\ state # Nothing
        /\ record.version = state \/ record.version.sequence < state.sequence

(* Once nothing but the newest version is served, it becomes the committed *)
(* one and stays so, although clients find the lock taken, are killed, and *)
(* leave objects half replaced: a retry repairs what was torn.             *)
EventuallyNewest ==
    <>[][\A c \in Clients, v \in Versions \ {Newest} : ~Fetch(c, v)]_clientVars
        => <>[](state = Newest /\ ~torn)

=============================================================================
