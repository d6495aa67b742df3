----------------------------- MODULE FeedInstall -----------------------------
(***************************************************************************)
(* The signed rule feed: install_feed replaces the document, then the      *)
(* rollback state, under a lock; inspect_feed, called by every scan, by    *)
(* the status command and by the health check of a watch session, reads    *)
(* both without the lock. The pair cannot be replaced in one step; the     *)
(* reader recognises a mixed pair because the state names the sequence     *)
(* number and the digest of the document.                                  *)
(***************************************************************************)
EXTENDS SignedInstall

CONSTANT Readers        \* processes that read the feed

ASSUME ReaderAssumption == "document" \in Names

VARIABLES
    at,                 \* of each reader: its next step in inspect_feed
    document,           \* of each reader: the document it has read
    status, seen        \* of each reader: result of its last reading, and rules

reading == <<at, document, status, seen>>
feedVars == <<vars, reading>>

FeedInit ==
    /\ Init
    /\ at = [r \in Readers |-> "idle"]
    /\ document = [r \in Readers |-> Nothing]
    /\ status = [r \in Readers |-> "none"]
    /\ seen = [r \in Readers |-> Nothing]

-----------------------------------------------------------------------------
Moves(r, here, there) == at[r] = here /\ at' = [at EXCEPT ![r] = there]

Concludes(r, result, rules) ==
    /\ status' = [status EXCEPT ![r] = result]
    /\ seen' = [seen EXCEPT ![r] = rules]

(* Does the document exist? *)
LookForDocument(r) ==
    /\ Moves(r, "idle", IF file["document"] = Nothing THEN "missing" ELSE "read")
    /\ UNCHANGED <<vars, document, status, seen>>

(* No; if the state does not exist either, there is no feed. *)
LookForState(r) ==
    /\ Moves(r, "missing", IF state = Nothing THEN "idle" ELSE "read")
    /\ IF state = Nothing THEN Concludes(r, "absent", Nothing)
                          ELSE UNCHANGED <<status, seen>>
    /\ UNCHANGED <<vars, document>>

(* One of the two is missing, the document has expired, its key has been   *)
(* revoked, or a file cannot be read.                                      *)
Distrust(r) ==
    /\ Moves(r, "read", "idle")
    /\ Concludes(r, "invalid", Nothing)
    /\ UNCHANGED <<vars, document>>

(* The document is read and verified, the state not yet read. *)
ReadDocument(r) ==
    /\ Moves(r, "read", "compare")
    /\ file["document"] # Nothing /\ state # Nothing
    /\ document' = [document EXCEPT ![r] = file["document"]]
    /\ UNCHANGED <<vars, status, seen>>

(* Mutant: only the digest of the document is compared with the state.     *)
CompareDigest(r) ==
    /\ Moves(r, "compare", "idle")
    /\ IF document[r].digest = state.digest THEN Concludes(r, "valid", document[r])
                                           ELSE Concludes(r, "invalid", Nothing)
    /\ UNCHANGED <<vars, document>>

(* The state is read; sequence number and digest must be the document's.   *)
Compare(r) ==
    /\ Moves(r, "compare", "idle")
    /\ IF document[r] = state THEN Concludes(r, "valid", document[r])
                              ELSE Concludes(r, "invalid", Nothing)
    /\ UNCHANGED <<vars, document>>

Inspect(r) ==
    LookForDocument(r) \/ LookForState(r) \/ Distrust(r) \/ ReadDocument(r) \/ Compare(r)

FeedNext ==
    \/ Next /\ UNCHANGED reading
    \/ \E r \in Readers : Inspect(r)

FeedSpec == FeedInit /\ [][FeedNext]_feedVars

-----------------------------------------------------------------------------
(* "Never a silently accepted older or partially installed feed" (the      *)
(* comment in install_feed): for its readers the pair of files behaves     *)
(* like one register whose value only advances, although they read the     *)
(* two files at different moments, without the lock, while installations   *)
(* proceed, fail and are repeated.                                         *)
Register == INSTANCE TrustRegister WITH value <- state

ImplementsRegister == Register!Spec
=============================================================================
