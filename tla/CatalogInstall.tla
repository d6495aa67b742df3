--------------------------- MODULE CatalogInstall ---------------------------
(***************************************************************************)
(* update_desktop_intelligence (src/zsec_shield/intelligence.py): several  *)
(* runs of the updater fetch the bodies of the public sources through a    *)
(* cache they share without a lock, build a catalog, compare it with the   *)
(* rollback state, and install it under a lock that does not wait: backup  *)
(* of the catalog, backup of the state, catalog, state. A run may be       *)
(* killed, or meet an I/O error, at any step.                              *)
(*                                                                         *)
(* A server, or a mirror that lags behind, may deliver any edition at any  *)
(* time.                                                                   *)
(***************************************************************************)
EXTENDS AdvisorySources, TLC

CONSTANTS
    Updaters,           \* processes that run the updater
    Selections,         \* the --source lists they are started with
    Modes,              \* [dry, offline]: the flags they are started with
    MaxRuns, MaxStops   \* bounds: runs; runs that are killed or meet an I/O error

ASSUME UpdaterAssumption ==
    /\ Selections \subseteq Seq(SourceIds)
    /\ Modes \subseteq [dry : BOOLEAN, offline : BOOLEAN]
    /\ Nothing \notin Updaters
    /\ MaxRuns \in Nat /\ MaxStops \in Nat

VARIABLES
    body, meta,         \* the cache: edition in each file (0: no file)
    catalog, state,     \* the installed catalog and the rollback state
    kept, keptState,    \* the backup directory: <<name, content>> of either kind
    holder,             \* who holds the update lock
    pc,                 \* where each updater is
    job,                \* what each updater works on: see Idle
    new,                \* the catalog each has built
    seen,               \* the installed catalog as each has read it
    runs, stops         \* history: runs begun, runs cut short

cache == <<body, meta>>
installed == <<catalog, state>>
backups == <<kept, keptState>>
files == <<cache, installed, backups>>
work == <<job, new, seen>>
catalogVars == <<files, holder, pc, work, runs, stops>>

NoneGot == [d \in Documents |-> 0]

(* Of a job: flags; the sources still to fetch; the cached pair as read;   *)
(* the editions used and, as history, those the servers answered with; the *)
(* results.                                                                *)
Idle == [dry |-> FALSE, offline |-> FALSE, todo |-> <<>>, cached |-> <<0, 0>>,
         got |-> NoneGot, told |-> NoneGot, results |-> Nothing]

CatalogInit ==
    /\ body = NoneGot /\ meta = NoneGot
    /\ catalog = Nothing /\ state = Nothing /\ kept = {} /\ keptState = {}
    /\ holder = Nothing
    /\ pc = [u \in Updaters |-> "idle"]
    /\ job = [u \in Updaters |-> Idle]
    /\ new = [u \in Updaters |-> Nothing] /\ seen = [u \in Updaters |-> Nothing]
    /\ runs = 0 /\ stops = 0

-----------------------------------------------------------------------------
Move(u, there) == pc' = [pc EXCEPT ![u] = there]
At(u, here, there) == pc[u] = here /\ Move(u, there)

(* The run goes on, fetching; with its decision; not.                      *)
Goes(u, there, j) ==
    /\ Move(u, there) /\ job' = [job EXCEPT ![u] = j]
    /\ UNCHANGED <<new, seen, holder>>

Sees(u, there) ==
    /\ Move(u, there) /\ seen' = [seen EXCEPT ![u] = catalog]
    /\ UNCHANGED <<job, new>>

(* Mutant: the lock is not freed.                                          *)
EndsHolding(u) ==
    /\ pc' = [pc EXCEPT ![u] = "idle"]
    /\ job' = [job EXCEPT ![u] = Idle]
    /\ new' = [new EXCEPT ![u] = Nothing] /\ seen' = [seen EXCEPT ![u] = Nothing]
    /\ UNCHANGED holder

(* The run is over: with a result, or an exception that frees the lock.    *)
Ends(u) ==
    /\ pc' = [pc EXCEPT ![u] = "idle"]
    /\ job' = [job EXCEPT ![u] = Idle]
    /\ new' = [new EXCEPT ![u] = Nothing] /\ seen' = [seen EXCEPT ![u] = Nothing]
    /\ holder' = IF holder = u THEN Nothing ELSE holder

Begin(u, sources, mode) ==
    /\ pc[u] = "idle" /\ runs < MaxRuns
    /\ Goes(u, "cache",
            [Idle EXCEPT !.dry = mode.dry, !.offline = mode.offline, !.todo = sources])
    /\ runs' = runs + 1
    /\ UNCHANGED <<files, stops>>

(* The document to fetch next: for Microsoft the index, then the document  *)
(* of the month the index names.                                           *)
Wanted(u) ==
    LET s == Head(job[u].todo)
    IN  IF s = "cisa-kev" THEN "kev"
        ELSE IF s = "ubuntu-usn" THEN "usn"
        ELSE IF s = "apple-security" THEN "apple"
        ELSE IF job[u].got["index"] = 0 THEN "index"
        ELSE LatestMonth(job[u].got["index"])

(* The index has no usable document.                                       *)
NoDocument(u) ==
    /\ pc[u] = "cache" /\ Wanted(u) = Nothing
    /\ Ends(u)
    /\ UNCHANGED <<files, runs, stops>>

(* _read_cache: of the two files both exist or neither; the body is read   *)
(* first. A run cannot go on from half an entry.                           *)
CacheBody(u) ==
    LET d == Wanted(u)
    IN  /\ pc[u] = "cache" /\ d # Nothing
        /\ IF (body[d] = 0) # (meta[d] = 0) THEN Ends(u)
           ELSE Goes(u, IF body[d] = 0 THEN "fetch" ELSE "meta",
                     [job[u] EXCEPT !.cached = <<body[d], 0>>])
        /\ UNCHANGED <<files, runs, stops>>

(* Mutant: the digest in the metadata is not compared with the body.       *)
CacheMetaUnchecked(u) ==
    /\ pc[u] = "meta"
    /\ Goes(u, "fetch", [job[u] EXCEPT !.cached[2] = meta[Wanted(u)]])
    /\ UNCHANGED <<files, runs, stops>>

CacheMeta(u) ==
    LET d == Wanted(u)
    IN  /\ pc[u] = "meta"
        /\ IF meta[d] # job[u].cached[1] THEN Ends(u)
           ELSE Goes(u, "fetch", [job[u] EXCEPT !.cached[2] = meta[d]])
        /\ UNCHANGED <<files, runs, stops>>

(* Document d is here, in edition e, the server having answered with       *)
(* edition told: once a source is complete it is parsed, after the last    *)
(* source the catalog is built. Either may refuse.                         *)
Received(u, d, e, told) ==
    LET j == [job[u] EXCEPT !.got[d] = e, !.told[d] = told, !.cached = <<0, 0>>]
        s == Head(j.todo)
        result == ParseSource(s, j.got)
        results == IF j.results = Nothing THEN s :> result ELSE j.results @@ s :> result
        built == BuildCatalog(results)
    IN  IF d = "index" THEN Goes(u, "cache", j)
        ELSE IF result = Nothing THEN Ends(u)
        ELSE IF Len(j.todo) > 1
        THEN Goes(u, "cache", [j EXCEPT !.todo = Tail(j.todo), !.results = results])
        ELSE IF built = Nothing THEN Ends(u)
        ELSE /\ Move(u, "look") /\ job' = [job EXCEPT ![u] = [j EXCEPT !.todo = <<>>]]
             /\ new' = [new EXCEPT ![u] = built]
             /\ UNCHANGED <<seen, holder>>

Offline(u) ==
    /\ pc[u] = "fetch" /\ job[u].offline
    /\ IF job[u].cached[1] = 0 THEN Ends(u)
       ELSE Received(u, Wanted(u), job[u].cached[1], job[u].cached[2])
    /\ UNCHANGED <<files, runs, stops>>

(* The server has the edition named in If-None-Match: 304, and the cached  *)
(* body is used.                                                           *)
NotModified(u) ==
    /\ pc[u] = "fetch" /\ ~job[u].offline /\ job[u].cached[2] # 0
    /\ Received(u, Wanted(u), job[u].cached[1], job[u].cached[2])
    /\ UNCHANGED <<files, runs, stops>>

(* The server delivers an edition; it is cached unless nothing may be      *)
(* written.                                                                *)
Fetch(u) ==
    /\ pc[u] = "fetch" /\ ~job[u].offline
    /\ \E e \in 1..Len(Editions[Wanted(u)]) :
           IF job[u].dry THEN Received(u, Wanted(u), e, e)
           ELSE Goes(u, "body", [job[u] EXCEPT !.cached = <<e, e>>])
    /\ UNCHANGED <<files, runs, stops>>

FetchFails(u) ==
    /\ pc[u] = "fetch" /\ ~job[u].offline
    /\ Ends(u)
    /\ UNCHANGED <<files, runs, stops>>

WriteBody(u) ==
    /\ At(u, "body", "write-meta")
    /\ body' = [body EXCEPT ![Wanted(u)] = job[u].cached[1]]
    /\ UNCHANGED <<meta, installed, backups, holder, work, runs, stops>>

WriteMeta(u) ==
    /\ pc[u] = "write-meta"
    /\ meta' = [meta EXCEPT ![Wanted(u)] = job[u].cached[2]]
    /\ Received(u, Wanted(u), job[u].cached[1], job[u].cached[2])
    /\ UNCHANGED <<body, installed, backups, runs, stops>>

-----------------------------------------------------------------------------
(* install_catalog. What _read_existing refuses: half a pair, or a catalog *)
(* that is not the one the state names.                                    *)
Pair(c, st) == (c = Nothing /\ st = Nothing) \/ (c # Nothing /\ st # Nothing /\ st.digest = c)

Passes(u, c, st) == Pair(c, st) /\ (c # Nothing => NoRollback(st.sources, new[u].sources))

(* Before the lock is taken, the catalog is read and then the state.       *)
LookCatalog(u) ==
    /\ pc[u] = "look"
    /\ IF (catalog = Nothing) # (state = Nothing) THEN Ends(u)
       ELSE Sees(u, IF catalog = Nothing THEN "decide" ELSE "look-state") /\ UNCHANGED holder
    /\ UNCHANGED <<files, runs, stops>>

LookState(u) ==
    /\ pc[u] = "look-state"
    /\ IF Passes(u, seen[u], state) THEN Goes(u, "decide", job[u]) ELSE Ends(u)
    /\ UNCHANGED <<files, runs, stops>>

DryRun(u) ==
    /\ pc[u] = "decide" /\ job[u].dry
    /\ Ends(u)
    /\ UNCHANGED <<files, runs, stops>>

LockBusy(u) ==
    /\ pc[u] = "decide" /\ ~job[u].dry /\ holder # Nothing
    /\ Ends(u)
    /\ UNCHANGED <<files, runs, stops>>

(* Mutant: under the lock, what was compared before is not compared again. *)
LockUnchecked(u) ==
    /\ pc[u] = "decide" /\ ~job[u].dry /\ holder = Nothing
    /\ holder' = u /\ Sees(u, IF catalog = Nothing THEN "install" ELSE "keep")
    /\ UNCHANGED <<files, runs, stops>>

(* The lock is taken and the installed pair read and compared again.       *)
Lock(u) ==
    /\ pc[u] = "decide" /\ ~job[u].dry /\ holder = Nothing
    /\ IF ~Passes(u, catalog, state) \/ new[u] = catalog THEN Ends(u)
       ELSE holder' = u /\ Sees(u, IF catalog = Nothing THEN "install" ELSE "keep")
    /\ UNCHANGED <<files, runs, stops>>

Named(backup, name) == {b \in backup : b[1] = name}

(* A backup that exists must be whole and the catalog in it the same       *)
(* bytes; it is never written again.                                       *)
Keep(u) ==
    LET there == Named(kept, seen[u])  thereState == Named(keptState, seen[u])
    IN  /\ pc[u] = "keep"
        /\ IF there = {} /\ thereState = {}
           THEN kept' = kept \cup {<<seen[u], seen[u]>>} /\ Goes(u, "keep-state", job[u])
           ELSE /\ IF there = {<<seen[u], seen[u]>>} /\ thereState # {}
                   THEN Goes(u, "install", job[u])
                   ELSE Ends(u)
                /\ UNCHANGED kept
        /\ UNCHANGED <<cache, installed, keptState, runs, stops>>

KeepState(u) ==
    /\ At(u, "keep-state", "install")
    /\ keptState' = keptState \cup {<<seen[u], state>>}
    /\ UNCHANGED <<cache, installed, kept, holder, work, runs, stops>>

InstallCatalog(u) ==
    /\ At(u, "install", "install-state")
    /\ catalog' = new[u]
    /\ UNCHANGED <<cache, state, backups, holder, work, runs, stops>>

InstallState(u) ==
    /\ pc[u] = "install-state"
    /\ state' = StateOf(new[u])
    /\ Ends(u)
    /\ UNCHANGED <<cache, catalog, backups, runs, stops>>

(* The process is killed, or a file operation raises. (atomic_write_bytes  *)
(* leaves the old file or the new one.)                                    *)
Stop(u) ==
    /\ pc[u] # "idle" /\ stops < MaxStops
    /\ Ends(u)
    /\ stops' = stops + 1
    /\ UNCHANGED <<files, runs>>

Collect(u) ==
    \/ \E sources \in Selections, mode \in Modes : Begin(u, sources, mode)
    \/ NoDocument(u) \/ CacheBody(u) \/ CacheMeta(u) \/ Offline(u) \/ NotModified(u)
    \/ Fetch(u) \/ FetchFails(u) \/ WriteBody(u) \/ WriteMeta(u)

Install(u) ==
    \/ LookCatalog(u) \/ LookState(u) \/ DryRun(u) \/ LockBusy(u) \/ Lock(u)
    \/ Keep(u) \/ KeepState(u) \/ InstallCatalog(u) \/ InstallState(u)

CatalogNext == \E u \in Updaters : Collect(u) \/ Install(u) \/ Stop(u)

CatalogSpec == CatalogInit /\ [][CatalogNext]_catalogVars

-----------------------------------------------------------------------------
MaybeCatalog(c) == c = Nothing \/ ValidCatalog(c)

CatalogTypeOK ==
    /\ \A d \in Documents : {body[d], meta[d]} \subseteq 0..Len(Editions[d])
    /\ MaybeCatalog(catalog)
    /\ state # Nothing => ValidCatalog(state.digest) /\ state = StateOf(state.digest)
    /\ holder \in Updaters \cup {Nothing}
    /\ \A u \in Updaters :
           /\ MaybeCatalog(new[u]) /\ MaybeCatalog(seen[u])
           /\ holder = u <=> pc[u] \in {"keep", "keep-state", "install", "install-state"}
    /\ runs \in 0..MaxRuns /\ stops \in 0..MaxStops

(* Whatever the mirrors deliver, whoever else runs and whoever was killed  *)
(* in between: in the installed catalog, and in the rollback state, no     *)
(* source disappears, no version goes back, and none changes its meaning.  *)
NoSourceRollback ==
    [][ /\ catalog' # catalog /\ catalog # Nothing
              => NoRollback(catalog.sources, catalog'.sources)
        /\ state' # state /\ state # Nothing
              => NoRollback(state.sources, state'.sources) ]_catalogVars

(* A catalog is replaced only when a whole backup of it and of its state   *)
(* is on disk.                                                             *)
ReplacedIsKept ==
    [][ catalog' # catalog /\ catalog # Nothing =>
            <<catalog, catalog>> \in kept /\ <<catalog, StateOf(catalog)>> \in keptState ]_catalogVars

(* A backup is what its name says, and there is one of each kind, also     *)
(* when its writer was killed half way and another run came by.            *)
BackupsAuthentic ==
    /\ \A b \in kept : b[2] = b[1]
    /\ \A b \in keptState : b[2] = StateOf(b[1]) /\ Named(kept, b[1]) # {}

(* Only a run that was cut short leaves a catalog and a state that do not  *)
(* belong together.                                                        *)
RestsConsistent ==
    stops = 0 /\ holder = Nothing
        => IF catalog = Nothing THEN state = Nothing ELSE state = StateOf(catalog)

(* What is parsed is the edition the server answered with, or named in its *)
(* 304, although runs write the two files of a cache entry independently.  *)
ParsedIsAnswered ==
    \A u \in Updaters : \A d \in Documents : job[u].got[d] = job[u].told[d]

(* A dry run writes no file, not even to the cache.                        *)
DryRunWritesNothing ==
    [][ \A u \in Updaters : job[u].dry /\ pc[u]' # pc[u] => UNCHANGED files ]_catalogVars

(* What the runs leave on disk and hand to each other is what it is named. *)
DiskIsSound == BackupsAuthentic /\ RestsConsistent /\ ParsedIsAnswered

(* No step of any run rolls back, replaces without a backup, or writes in  *)
(* a dry run.                                                              *)
WritesAreSafe == NoSourceRollback /\ ReplacedIsKept /\ DryRunWritesNothing
=============================================================================
