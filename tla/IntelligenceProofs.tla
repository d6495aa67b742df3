-------------------------- MODULE IntelligenceProofs --------------------------
(***************************************************************************)
(* Proofs about the intelligence of the desktop, and about its update      *)
(* service. CatalogInstall, for any updaters, sources, editions and        *)
(* bounds: no write rolls back or loses what it replaces, a dry run writes *)
(* nothing, backups and the files at rest are what they are named, and     *)
(* what is parsed is what was answered. Publication, for any clients,      *)
(* bounds, editions and windows: what is served is whole, what was         *)
(* published stands, and no client goes back, whatever job, interruption   *)
(* or deployment comes in between.                                         *)
(***************************************************************************)
EXTENDS CatalogInstall, Publication, TLAPS

Locked == {"keep", "keep-state", "install", "install-state"}
Built == {"look", "look-state", "decide"} \cup Locked
Writing == {"body", "write-meta"}
Steps == {"idle", "cache", "meta", "fetch"} \cup Writing \cup Built

(* The part of a job that the promises are about.                          *)
WellFormed(j) ==
    /\ DOMAIN j = DOMAIN Idle
    /\ j.dry \in BOOLEAN
    /\ j.cached = <<j.cached[1], j.cached[2]>>
    /\ DOMAIN j.got = Documents /\ DOMAIN j.told = Documents
    /\ \A d \in Documents : j.got[d] = j.told[d]

(* What each run carries from step to step.                                *)
JobInv(u) ==
    /\ WellFormed(job[u])
    /\ pc[u] \in Writing \cup Locked => ~job[u].dry
    /\ pc[u] \in {"fetch", "body", "write-meta"} => job[u].cached[1] = job[u].cached[2]
    /\ pc[u] \in Writing => job[u].cached[1] \in 0..Len(Editions[Wanted(u)])
    /\ pc[u] \in Built => new[u] # Nothing
    /\ MaybeCatalog(new[u]) /\ MaybeCatalog(seen[u])

(* What the run that holds the lock relies on from one write to the next:  *)
(* nobody else has changed what it compared and kept.                      *)
HolderKnows(u) ==
    /\ pc[u] \in {"keep", "keep-state", "install"} =>
           /\ Pair(catalog, state) /\ seen[u] = catalog
           /\ catalog # Nothing => NoRollback(state.sources, new[u].sources)
    /\ pc[u] \in {"keep", "keep-state"} => catalog # Nothing
    /\ pc[u] = "keep-state" => <<catalog, catalog>> \in kept
    /\ pc[u] = "install" /\ catalog # Nothing =>
           <<catalog, catalog>> \in kept /\ <<catalog, StateOf(catalog)>> \in keptState
    /\ pc[u] = "install-state" =>
           /\ catalog = new[u]
           /\ state # Nothing => NoRollback(state.sources, new[u].sources)

Shape ==
    /\ pc \in [Updaters -> Steps]
    /\ DOMAIN job = Updaters /\ DOMAIN new = Updaters /\ DOMAIN seen = Updaters
    /\ DOMAIN body = Documents /\ DOMAIN meta = Documents

(* Backups are pairs, so that one of the expected name is the expected one.*)
BackupPairs ==
    /\ \A b \in kept : b = <<b[1], b[2]>>
    /\ \A b \in keptState : b = <<b[1], b[2]>>

CatalogInv ==
    /\ Shape /\ CatalogTypeOK
    /\ BackupPairs /\ BackupsAuthentic /\ RestsConsistent
    /\ \A u \in Updaters : JobInv(u) /\ HolderKnows(u)

LEMMA CatalogInitially == CatalogInit => CatalogInv
  <1> SUFFICES ASSUME CatalogInit PROVE CatalogInv
    OBVIOUS
  <1> USE DEF CatalogInit
  <1>1. Shape
    BY DEF Shape, Steps, Built, Locked, Writing, NoneGot
  <1>2. CatalogTypeOK
    <2>1. \A d \in Documents : {body[d], meta[d]} \subseteq 0..Len(Editions[d])
      <3> SUFFICES ASSUME NEW d \in Documents PROVE 0 \in 0..Len(Editions[d])
        BY DEF NoneGot
      <3>1. Editions[d] \in Seq(Body)
        BY SourceAssumption DEF SourceAssumption
      <3> QED BY <3>1
    <2>2. runs \in 0..MaxRuns /\ stops \in 0..MaxStops
      BY UpdaterAssumption DEF UpdaterAssumption
    <2> QED BY <2>1, <2>2, UpdaterAssumption DEF UpdaterAssumption, CatalogTypeOK, MaybeCatalog
  <1>3. BackupPairs /\ BackupsAuthentic /\ RestsConsistent
    BY DEF BackupPairs, BackupsAuthentic, RestsConsistent
  <1>4. ASSUME NEW u \in Updaters PROVE JobInv(u) /\ HolderKnows(u)
    <2>1. WellFormed(Idle)
      BY DEF WellFormed, Idle, NoneGot
    <2> QED BY <2>1 DEF JobInv, HolderKnows, Writing, Locked, Built, MaybeCatalog, Idle
  <1> QED BY <1>1, <1>2, <1>3, <1>4 DEF CatalogInv

-----------------------------------------------------------------------------
(* A step of u changes what u holds and leaves the others alone.           *)
Private(u) ==
    /\ pc' \in [Updaters -> Steps]
    /\ DOMAIN job' = Updaters /\ DOMAIN new' = Updaters /\ DOMAIN seen' = Updaters
    /\ \A v \in Updaters \ {u} :
           pc'[v] = pc[v] /\ job'[v] = job[v] /\ new'[v] = new[v] /\ seen'[v] = seen[v]

CacheOK == \A d \in Documents : {body[d], meta[d]} \subseteq 0..Len(Editions[d])
CacheShape == DOMAIN body = Documents /\ DOMAIN meta = Documents

LEMMA OthersKeep ==
  ASSUME CatalogInv, NEW u \in Updaters, Private(u), NEW v \in Updaters, v # u
  PROVE  /\ JobInv(v)'
         /\ pc'[v] = pc[v] /\ job'[v] = job[v] /\ new'[v] = new[v] /\ seen'[v] = seen[v]
  <1>1. pc'[v] = pc[v] /\ job'[v] = job[v] /\ new'[v] = new[v] /\ seen'[v] = seen[v]
    BY DEF Private, CatalogInv, Shape
  <1>2. JobInv(v)
    BY DEF CatalogInv
  <1>3. Wanted(v)' = Wanted(v)
    BY <1>1 DEF Wanted
  <1> QED BY <1>1, <1>2, <1>3 DEF JobInv

(* A step outside the lock keeps the invariant, if it leaves the installed *)
(* files alone and what u holds in order.                                  *)
LEMMA FreeStep ==
  ASSUME CatalogInv, NEW u \in Updaters, Private(u),
         pc[u] \notin Locked, pc'[u] \in Steps \ Locked,
         UNCHANGED <<catalog, state, kept, keptState, holder>>,
         JobInv(u)', CacheOK', CacheShape',
         runs' \in 0..MaxRuns, stops' \in 0..MaxStops, stops' = 0 => stops = 0
  PROVE  CatalogInv'
  <1>1. Shape'
    BY DEF Private, CatalogInv, Shape, CacheShape
  <1>2. ASSUME NEW v \in Updaters PROVE JobInv(v)'
    BY <1>2, OthersKeep
  <1>3. ASSUME NEW v \in Updaters PROVE HolderKnows(v)'
    <2>1. CASE v = u
      BY <2>1 DEF HolderKnows, Locked
    <2>2. CASE v # u
      <3>1. pc'[v] = pc[v] /\ new'[v] = new[v] /\ seen'[v] = seen[v] /\ HolderKnows(v)
        BY <2>2, OthersKeep DEF CatalogInv
      <3> QED BY <3>1 DEF HolderKnows
    <2> QED BY <2>1, <2>2
  <1>4. ASSUME NEW v \in Updaters PROVE holder' = v <=> pc'[v] \in Locked
    <2>1. holder = v <=> pc[v] \in Locked
      BY DEF CatalogInv, CatalogTypeOK, Locked
    <2>2. CASE v = u
      BY <2>1, <2>2
    <2>3. CASE v # u
      BY <2>1, <2>3, OthersKeep
    <2> QED BY <2>2, <2>3
  <1>5. CatalogTypeOK'
    BY <1>2, <1>4 DEF CatalogTypeOK, CatalogInv, CacheOK, JobInv, Locked, MaybeCatalog
  <1>6. BackupPairs' /\ BackupsAuthentic' /\ RestsConsistent'
    BY DEF CatalogInv, BackupPairs, BackupsAuthentic, RestsConsistent, Named
  <1> QED BY <1>1, <1>2, <1>3, <1>5, <1>6 DEF CatalogInv

LEMMA EndsInOrder ==
  ASSUME CatalogInv, NEW u \in Updaters, Ends(u)
  PROVE  /\ Private(u) /\ pc'[u] = "idle" /\ JobInv(u)'
         /\ pc[u] \notin Locked => holder' = holder
         /\ pc[u] \in Locked => holder' = Nothing
  <1>1. /\ Private(u) /\ pc'[u] = "idle" /\ job'[u] = Idle
        /\ new'[u] = Nothing /\ seen'[u] = Nothing
    BY DEF Ends, Private, CatalogInv, Shape, Steps
  <1>2. WellFormed(Idle)
    BY DEF WellFormed, Idle, NoneGot
  <1>3. JobInv(u)'
    BY <1>1, <1>2 DEF JobInv, WellFormed, Writing, Locked, Built, MaybeCatalog
  <1>4. holder = u <=> pc[u] \in Locked
    BY DEF CatalogInv, CatalogTypeOK, Locked
  <1> QED BY <1>1, <1>3, <1>4 DEF Ends

LEMMA GoesInOrder ==
  ASSUME CatalogInv, NEW u \in Updaters, NEW there \in Steps, NEW j, Goes(u, there, j)
  PROVE  /\ Private(u) /\ pc'[u] = there /\ job'[u] = j
         /\ new'[u] = new[u] /\ seen'[u] = seen[u] /\ holder' = holder
  BY DEF Goes, Move, Private, CatalogInv, Shape

-----------------------------------------------------------------------------
(* A document that was received, in the edition the server answered with,  *)
(* leads to the next one, to the end of the run, or to a valid catalog.    *)
LEMMA ReceivedLeads ==
  ASSUME CatalogInv, NEW u \in Updaters, NEW d, NEW e, Received(u, d, e, e)
  PROVE  \/ Ends(u)
         \/ \E j : Goes(u, "cache", j) /\ WellFormed(j)
         \/ \E j, c : /\ Move(u, "look") /\ WellFormed(j)
                      /\ job' = [job EXCEPT ![u] = j] /\ new' = [new EXCEPT ![u] = c]
                      /\ c # Nothing /\ ValidCatalog(c)
                      /\ UNCHANGED <<seen, holder>>
  <1> DEFINE j == [job[u] EXCEPT !.got[d] = e, !.told[d] = e, !.cached = <<0, 0>>]
             s == Head(j.todo)
             result == ParseSource(s, j.got)
             results == IF j.results = Nothing THEN s :> result ELSE j.results @@ s :> result
             built == BuildCatalog(results)
             next == [j EXCEPT !.todo = Tail(j.todo), !.results = results]
             last == [j EXCEPT !.todo = <<>>]
  <1>1. IF d = "index" THEN Goes(u, "cache", j)
        ELSE IF result = Nothing THEN Ends(u)
        ELSE IF Len(j.todo) > 1 THEN Goes(u, "cache", next)
        ELSE IF built = Nothing THEN Ends(u)
        ELSE /\ Move(u, "look") /\ job' = [job EXCEPT ![u] = last]
             /\ new' = [new EXCEPT ![u] = built]
             /\ UNCHANGED <<seen, holder>>
    BY DEF Received
  <1>2. WellFormed(j)
    <2>1. WellFormed(job[u])
      BY DEF CatalogInv, JobInv
    <2> QED BY <2>1 DEF WellFormed, Idle
  <1>3. WellFormed(next) /\ WellFormed(last)
    BY <1>2 DEF WellFormed, Idle
  <1>4. built # Nothing => ValidCatalog(built)
    BY DEF BuildCatalog
  <1> HIDE DEF j, built, next, last
  <1> QED BY <1>1, <1>2, <1>3, <1>4

(* A step that ends in Ends or Received and leaves the files alone, but    *)
(* for the cache.                                                          *)
LEMMA EndsKeeps ==
  ASSUME CatalogInv, NEW u \in Updaters, Ends(u), pc[u] \notin Locked,
         UNCHANGED <<files, runs>>,
         stops' \in 0..MaxStops, stops' = 0 => stops = 0
  PROVE  CatalogInv'
  <1>1. Private(u) /\ pc'[u] = "idle" /\ JobInv(u)' /\ holder' = holder
    BY EndsInOrder
  <1>2. CacheOK' /\ CacheShape' /\ runs' \in 0..MaxRuns
    BY DEF CatalogInv, CatalogTypeOK, Shape, CacheOK, CacheShape, files, cache
  <1>3. UNCHANGED <<catalog, state, kept, keptState>>
    BY DEF files, installed, backups
  <1>4. pc'[u] \in Steps \ Locked
    BY <1>1 DEF Steps, Locked
  <1> QED BY <1>1, <1>2, <1>3, <1>4, FreeStep

LEMMA GoesKeeps ==
  ASSUME CatalogInv, NEW u \in Updaters, NEW there \in Steps \ Locked, NEW j,
         Goes(u, there, j), WellFormed(j), pc[u] \notin Locked,
         there \in Writing => ~j.dry,
         there \in {"fetch", "body", "write-meta"} => j.cached[1] = j.cached[2],
         there \in Writing => j.cached[1] \in 0..Len(Editions[Wanted(u)']),
         there \in Built => new[u] # Nothing,
         UNCHANGED <<catalog, state, kept, keptState>>, CacheOK', CacheShape',
         runs' \in 0..MaxRuns, UNCHANGED stops
  PROVE  CatalogInv'
  <1>1. /\ Private(u) /\ pc'[u] = there /\ job'[u] = j
        /\ new'[u] = new[u] /\ seen'[u] = seen[u] /\ holder' = holder
    BY GoesInOrder
  <1>2. MaybeCatalog(new[u]) /\ MaybeCatalog(seen[u])
    BY DEF CatalogInv, JobInv
  <1>3. JobInv(u)'
    BY <1>1, <1>2 DEF JobInv
  <1>4. stops' \in 0..MaxStops
    BY DEF CatalogInv, CatalogTypeOK
  <1> QED BY <1>1, <1>3, <1>4, FreeStep

LEMMA ReceivedKeeps ==
  ASSUME CatalogInv, NEW u \in Updaters, NEW d, NEW e, Received(u, d, e, e),
         pc[u] \notin Locked, UNCHANGED <<installed, backups, runs, stops>>, CacheOK', CacheShape'
  PROVE  CatalogInv'
  <1> USE DEF installed, backups
  <1>1. runs' \in 0..MaxRuns /\ stops' \in 0..MaxStops
    BY DEF CatalogInv, CatalogTypeOK
  <1>2. CASE Ends(u)
    <2>1. Private(u) /\ pc'[u] = "idle" /\ JobInv(u)' /\ holder' = holder
      BY <1>2, EndsInOrder
    <2>2. pc'[u] \in Steps \ Locked
      BY <2>1 DEF Steps, Locked
    <2> QED BY <1>1, <2>1, <2>2, FreeStep
  <1>3. CASE \E j : Goes(u, "cache", j) /\ WellFormed(j)
    <2>1. PICK j : Goes(u, "cache", j) /\ WellFormed(j)
      BY <1>3
    <2>2. "cache" \in Steps \ Locked /\ "cache" \notin Writing \cup Built
      BY DEF Steps, Locked, Writing, Built
    <2> QED BY <1>1, <2>1, <2>2, GoesKeeps
  <1>4. CASE \E j, c : /\ Move(u, "look") /\ WellFormed(j)
                      /\ job' = [job EXCEPT ![u] = j] /\ new' = [new EXCEPT ![u] = c]
                      /\ c # Nothing /\ ValidCatalog(c)
                      /\ UNCHANGED <<seen, holder>>
    <2>1. PICK j, c : /\ Move(u, "look") /\ WellFormed(j)
                      /\ job' = [job EXCEPT ![u] = j] /\ new' = [new EXCEPT ![u] = c]
                      /\ c # Nothing /\ ValidCatalog(c)
                      /\ UNCHANGED <<seen, holder>>
      BY <1>4
    <2>2. "look" \in Steps \ Locked /\ "look" \notin Writing
      BY DEF Steps, Locked, Writing, Built
    <2>3. /\ Private(u) /\ pc'[u] = "look" /\ job'[u] = j /\ new'[u] = c /\ seen'[u] = seen[u]
      BY <2>1, <2>2 DEF Move, Private, CatalogInv, Shape
    <2>4. JobInv(u)'
      <3>1. MaybeCatalog(seen[u])
        BY DEF CatalogInv, JobInv
      <3>2. MaybeCatalog(c)
        BY <2>1 DEF MaybeCatalog
      <3> QED BY <2>1, <2>2, <2>3, <3>1, <3>2 DEF JobInv, Writing, Locked
    <2> QED BY <1>1, <2>1, <2>2, <2>3, <2>4, FreeStep
  <1> QED BY <1>2, <1>3, <1>4, ReceivedLeads

-----------------------------------------------------------------------------
LEMMA CollectStep == ASSUME CatalogInv, NEW u \in Updaters, Collect(u) PROVE CatalogInv'
  <1> USE DEF files, cache, installed, backups
  <1>1. /\ CacheOK /\ CacheShape /\ runs \in 0..MaxRuns /\ stops \in 0..MaxStops
        /\ JobInv(u) /\ WellFormed(job[u])
    BY DEF CatalogInv, CatalogTypeOK, Shape, CacheOK, CacheShape, JobInv
  <1>2. UNCHANGED <<body, meta>> => CacheOK' /\ CacheShape'
    BY <1>1 DEF CacheOK, CacheShape
  <1>3. \A here \in {"idle", "cache", "meta", "fetch", "body", "write-meta"} :
            here \in Steps \ Locked /\ here \notin Built
    BY DEF Steps, Locked, Built, Writing
  <1>4. ASSUME NEW sources \in Selections, NEW mode \in Modes, Begin(u, sources, mode)
        PROVE  CatalogInv'
    <2> DEFINE j == [Idle EXCEPT !.dry = mode.dry, !.offline = mode.offline, !.todo = sources]
    <2>1. WellFormed(j)
      BY UpdaterAssumption DEF UpdaterAssumption, WellFormed, Idle, NoneGot
    <2>2. runs' \in 0..MaxRuns
      BY <1>1, <1>4, UpdaterAssumption DEF Begin, UpdaterAssumption
    <2>3. /\ Goes(u, "cache", j) /\ pc[u] = "idle"
          /\ UNCHANGED <<body, meta, catalog, state, kept, keptState, stops>>
      BY <1>4 DEF Begin
    <2> HIDE DEF j
    <2> QED BY <1>2, <1>3, <2>1, <2>2, <2>3, GoesKeeps DEF Writing
  <1>5. CASE NoDocument(u)
    BY <1>1, <1>3, <1>5, EndsKeeps DEF NoDocument
  <1>6. CASE CacheBody(u)
    <2> DEFINE d == Wanted(u)
               j == [job[u] EXCEPT !.cached = <<body[d], 0>>]
    <2>1. CASE Ends(u)
      BY <1>1, <1>3, <1>6, <2>1, EndsKeeps DEF CacheBody
    <2>2. CASE ~Ends(u)
      <3>1. /\ Goes(u, IF body[d] = 0 THEN "fetch" ELSE "meta", j) /\ pc[u] = "cache"
            /\ UNCHANGED <<body, meta, catalog, state, kept, keptState, runs, stops>>
        BY <1>6, <2>2 DEF CacheBody
      <3>2. WellFormed(j)
        BY <1>1 DEF WellFormed, Idle
      <3>3. body[d] = 0 => j.cached[1] = j.cached[2]
        BY <1>1 DEF WellFormed, Idle
      <3> HIDE DEF j, d
      <3>4. CASE body[d] = 0
        BY <1>1, <1>2, <1>3, <3>1, <3>2, <3>3, <3>4, GoesKeeps DEF Writing
      <3>5. CASE body[d] # 0
        BY <1>1, <1>2, <1>3, <3>1, <3>2, <3>5, GoesKeeps DEF Writing
      <3> QED BY <3>4, <3>5
    <2> QED BY <2>1, <2>2
  <1>7. CASE CacheMeta(u)
    <2> DEFINE d == Wanted(u)
               j == [job[u] EXCEPT !.cached[2] = meta[d]]
    <2>1. CASE Ends(u)
      BY <1>1, <1>3, <1>7, <2>1, EndsKeeps DEF CacheMeta
    <2>2. CASE ~Ends(u)
      <3>1. /\ Goes(u, "fetch", j) /\ pc[u] = "meta" /\ meta[d] = job[u].cached[1]
            /\ UNCHANGED <<body, meta, catalog, state, kept, keptState, runs, stops>>
        BY <1>7, <2>2 DEF CacheMeta
      <3>2. j.cached = <<job[u].cached[1], meta[d]>>
        BY <1>1 DEF WellFormed, Idle
      <3>3. WellFormed(j)
        BY <1>1, <3>2 DEF WellFormed, Idle
      <3>4. j.cached[1] = j.cached[2]
        BY <3>1, <3>2
      <3> HIDE DEF j, d
      <3> QED BY <1>1, <1>2, <1>3, <3>1, <3>3, <3>4, GoesKeeps DEF Writing
    <2> QED BY <2>1, <2>2
  <1>8. CASE Offline(u)
    <2>1. CASE Ends(u)
      BY <1>1, <1>3, <1>8, <2>1, EndsKeeps DEF Offline
    <2>2. CASE ~Ends(u)
      <3>1. job[u].cached[1] = job[u].cached[2]
        BY <1>1, <1>8 DEF Offline, JobInv
      <3>2. /\ Received(u, Wanted(u), job[u].cached[1], job[u].cached[1]) /\ pc[u] = "fetch"
            /\ UNCHANGED <<body, meta, catalog, state, kept, keptState, runs, stops>>
        BY <1>8, <2>2, <3>1 DEF Offline
      <3> QED BY <1>2, <1>3, <3>2, ReceivedKeeps
    <2> QED BY <2>1, <2>2
  <1>9. CASE NotModified(u)
    <2>1. job[u].cached[1] = job[u].cached[2]
      BY <1>1, <1>9 DEF NotModified, JobInv
    <2>2. /\ Received(u, Wanted(u), job[u].cached[1], job[u].cached[1]) /\ pc[u] = "fetch"
          /\ UNCHANGED <<body, meta, catalog, state, kept, keptState, runs, stops>>
      BY <1>9, <2>1 DEF NotModified
    <2> QED BY <1>2, <1>3, <2>2, ReceivedKeeps
  <1>10. CASE Fetch(u)
    <2>1. PICK e \in 1..Len(Editions[Wanted(u)]) :
             IF job[u].dry THEN Received(u, Wanted(u), e, e)
             ELSE Goes(u, "body", [job[u] EXCEPT !.cached = <<e, e>>])
      BY <1>10 DEF Fetch
    <2>2. pc[u] = "fetch" /\ UNCHANGED <<body, meta, catalog, state, kept, keptState, runs, stops>>
      BY <1>10 DEF Fetch
    <2>3. CASE job[u].dry
      BY <1>2, <1>3, <2>1, <2>2, <2>3, ReceivedKeeps
    <2>4. CASE ~job[u].dry
      <3> DEFINE j == [job[u] EXCEPT !.cached = <<e, e>>]
      <3>1. Goes(u, "body", j)
        BY <2>1, <2>4
      <3>2. /\ WellFormed(j) /\ ~j.dry /\ j.cached[1] = e /\ j.cached[2] = e
            /\ j.todo = job[u].todo /\ j.got = job[u].got
        BY <1>1, <2>4 DEF WellFormed, Idle
      <3> HIDE DEF j
      <3>3. job'[u] = j
        BY <1>3, <3>1, GoesInOrder
      <3>4. Wanted(u)' = Wanted(u)
        BY <3>2, <3>3 DEF Wanted
      <3>5. e \in 0..Len(Editions[Wanted(u)'])
        BY <3>4
      <3> QED BY <1>1, <1>2, <1>3, <2>2, <3>1, <3>2, <3>5, GoesKeeps
    <2> QED BY <2>3, <2>4
  <1>11. CASE FetchFails(u)
    BY <1>1, <1>3, <1>11, EndsKeeps DEF FetchFails
  <1>12. CASE WriteBody(u)
    <2> DEFINE d == Wanted(u)
    <2>1. /\ pc[u] = "body" /\ pc' = [pc EXCEPT ![u] = "write-meta"]
          /\ UNCHANGED <<meta, catalog, state, kept, keptState, holder, job, new, seen, runs, stops>>
      BY <1>12 DEF WriteBody, At, Move, work
    <2>2. body' = [body EXCEPT ![d] = job[u].cached[1]] /\ job[u].cached[1] \in 0..Len(Editions[d])
      BY <1>1, <1>12, <2>1 DEF WriteBody, JobInv, Writing
    <2> HIDE DEF d
    <2>3. CacheOK' /\ CacheShape'
      BY <1>1, <2>1, <2>2 DEF CacheOK, CacheShape
    <2>4. Private(u) /\ pc'[u] = "write-meta"
      BY <1>3, <2>1 DEF Private, CatalogInv, Shape
    <2>5. Wanted(u)' = Wanted(u)
      BY <2>1 DEF Wanted
    <2>6. JobInv(u)'
      BY <1>1, <1>3, <2>1, <2>4, <2>5 DEF JobInv, Writing, Locked, Built
    <2> QED BY <1>1, <1>3, <2>1, <2>3, <2>4, <2>6, FreeStep
  <1>13. CASE WriteMeta(u)
    <2> DEFINE d == Wanted(u)
    <2>1. /\ pc[u] = "write-meta" /\ meta' = [meta EXCEPT ![d] = job[u].cached[2]]
          /\ Received(u, d, job[u].cached[1], job[u].cached[2])
          /\ UNCHANGED <<body, catalog, state, kept, keptState, runs, stops>>
      BY <1>13 DEF WriteMeta
    <2>2. job[u].cached[1] = job[u].cached[2] /\ job[u].cached[1] \in 0..Len(Editions[d])
      BY <1>1, <2>1 DEF JobInv, Writing
    <2> HIDE DEF d
    <2>3. CacheOK' /\ CacheShape'
      BY <1>1, <2>1, <2>2 DEF CacheOK, CacheShape
    <2> QED BY <1>3, <2>1, <2>2, <2>3, ReceivedKeeps
  <1> QED BY <1>4, <1>5, <1>6, <1>7, <1>8, <1>9, <1>10, <1>11, <1>12, <1>13 DEF Collect

-----------------------------------------------------------------------------
(* While u holds the lock no other run is where HolderKnows says anything. *)
LEMMA AloneInside ==
  ASSUME CatalogInv, NEW u \in Updaters, holder = u, NEW v \in Updaters, v # u
  PROVE  pc[v] \notin Locked
  BY DEF CatalogInv, CatalogTypeOK, Locked

(* What a step of the holder of the lock must still show.                  *)
LEMMA LockedStep ==
  ASSUME CatalogInv, NEW u \in Updaters, pc[u] \in Locked, Private(u),
         pc'[u] \in Locked => holder' = holder,
         pc'[u] \notin Locked => holder' = Nothing,
         JobInv(u)', HolderKnows(u)', BackupPairs', BackupsAuthentic', RestsConsistent',
         UNCHANGED <<cache, runs>>, stops' \in 0..MaxStops,
         MaybeCatalog(catalog'),
         state' # Nothing => ValidCatalog(state'.digest) /\ state' = StateOf(state'.digest)
  PROVE  CatalogInv'
  <1>1. holder = u
    BY DEF CatalogInv, CatalogTypeOK, Locked
  <1>2. ASSUME NEW v \in Updaters, v # u PROVE pc'[v] \notin Locked /\ JobInv(v)'
    BY <1>1, <1>2, AloneInside, OthersKeep
  <1>3. Shape'
    BY DEF Private, CatalogInv, Shape, cache
  <1>4. ASSUME NEW v \in Updaters PROVE JobInv(v)' /\ HolderKnows(v)'
    <2>1. CASE v = u
      BY <2>1
    <2>2. CASE v # u
      BY <1>2, <2>2 DEF HolderKnows, Locked
    <2> QED BY <2>1, <2>2
  <1>5. ASSUME NEW v \in Updaters PROVE holder' = v <=> pc'[v] \in Locked
    BY <1>1, <1>2, UpdaterAssumption DEF UpdaterAssumption
  <1>6. holder' \in Updaters \cup {Nothing}
    BY <1>1
  <1>7. CacheOK' /\ runs' \in 0..MaxRuns
    BY DEF CatalogInv, CatalogTypeOK, CacheOK, cache
  <1>8. \A v \in Updaters : MaybeCatalog(new'[v]) /\ MaybeCatalog(seen'[v])
    BY <1>4 DEF JobInv
  <1>9. CatalogTypeOK'
    BY <1>5, <1>6, <1>7, <1>8 DEF CatalogTypeOK, CacheOK, Locked
  <1> QED BY <1>3, <1>4, <1>9 DEF CatalogInv

(* A catalog that does not go back from the rollback state does not go     *)
(* back from the catalog the state was made of, nor does its state.        *)
LEMMA StateSpeaks ==
  ASSUME NEW c, NEW d, NoRollback(StateOf(c).sources, d.sources)
  PROVE  /\ NoRollback(c.sources, d.sources)
         /\ NoRollback(StateOf(c).sources, StateOf(d).sources)
  BY DEF NoRollback, StateOf

LEMMA SeesInOrder ==
  ASSUME CatalogInv, NEW u \in Updaters, pc[u] \in Built, NEW there \in Built,
         Sees(u, there), there \in Locked => ~job[u].dry
  PROVE  /\ Private(u) /\ pc'[u] = there /\ seen'[u] = catalog
         /\ job'[u] = job[u] /\ new'[u] = new[u] /\ JobInv(u)'
  <1>1. /\ Private(u) /\ pc'[u] = there /\ seen'[u] = catalog
        /\ job'[u] = job[u] /\ new'[u] = new[u]
    BY DEF Sees, Move, Private, CatalogInv, Shape, Steps
  <1>2. there \notin Writing /\ there \notin {"fetch", "body", "write-meta"}
    BY DEF Built, Locked, Writing
  <1>3. JobInv(u) /\ MaybeCatalog(catalog)
    BY DEF CatalogInv, CatalogTypeOK
  <1> QED BY <1>1, <1>2, <1>3 DEF JobInv

LEMMA BeforeLock ==
  ASSUME CatalogInv, NEW u \in Updaters,
         LookCatalog(u) \/ LookState(u) \/ DryRun(u) \/ LockBusy(u)
  PROVE  CatalogInv'
  <1> USE DEF files, cache, installed, backups
  <1>1. /\ CacheOK /\ CacheShape /\ runs \in 0..MaxRuns /\ stops \in 0..MaxStops
        /\ JobInv(u) /\ WellFormed(job[u])
    BY DEF CatalogInv, CatalogTypeOK, Shape, CacheOK, CacheShape, JobInv
  <1>2. UNCHANGED <<body, meta>> => CacheOK' /\ CacheShape'
    BY <1>1 DEF CacheOK, CacheShape
  <1>3. \A here \in {"look", "look-state", "decide"} :
            here \in Built /\ here \in Steps \ Locked /\ here \notin Writing
    BY DEF Steps, Locked, Built, Writing
  <1>4. CASE LookCatalog(u)
    <2>1. CASE Ends(u)
      BY <1>1, <1>3, <1>4, <2>1, EndsKeeps DEF LookCatalog
    <2>2. CASE ~Ends(u)
      <3>1. /\ Sees(u, IF catalog = Nothing THEN "decide" ELSE "look-state") /\ pc[u] = "look"
            /\ UNCHANGED <<body, meta, catalog, state, kept, keptState, holder, runs, stops>>
        BY <1>4, <2>2 DEF LookCatalog
      <3>2. PICK there \in {"look-state", "decide"} : Sees(u, there)
        BY <3>1
      <3>3. Private(u) /\ pc'[u] = there /\ JobInv(u)'
        BY <1>3, <3>1, <3>2, SeesInOrder
      <3> QED BY <1>1, <1>2, <1>3, <3>1, <3>3, FreeStep
    <2> QED BY <2>1, <2>2
  <1>5. CASE LookState(u)
    <2>1. CASE Ends(u)
      BY <1>1, <1>3, <1>5, <2>1, EndsKeeps DEF LookState
    <2>2. CASE ~Ends(u)
      <3>1. /\ Goes(u, "decide", job[u]) /\ pc[u] = "look-state" /\ new[u] # Nothing
            /\ UNCHANGED <<body, meta, catalog, state, kept, keptState, runs, stops>>
        BY <1>1, <1>3, <1>5, <2>2 DEF LookState, JobInv
      <3> QED BY <1>1, <1>2, <1>3, <3>1, GoesKeeps
    <2> QED BY <2>1, <2>2
  <1>6. CASE DryRun(u)
    BY <1>1, <1>3, <1>6, EndsKeeps DEF DryRun
  <1>7. CASE LockBusy(u)
    BY <1>1, <1>3, <1>7, EndsKeeps DEF LockBusy
  <1> QED BY <1>4, <1>5, <1>6, <1>7

LEMMA LockStep == ASSUME CatalogInv, NEW u \in Updaters, Lock(u) PROVE CatalogInv'
  <1> USE DEF files, cache, installed, backups
  <1>1. /\ pc[u] = "decide" /\ ~job[u].dry /\ holder = Nothing
        /\ UNCHANGED <<body, meta, catalog, state, kept, keptState, runs, stops>>
    BY DEF Lock
  <1>2. pc[u] \in Built /\ pc[u] \notin Locked /\ runs \in 0..MaxRuns /\ stops \in 0..MaxStops
    BY <1>1 DEF Locked, Built, CatalogInv, CatalogTypeOK
  <1>3. CASE Ends(u)
    BY <1>1, <1>2, <1>3, EndsKeeps
  <1>4. CASE ~Ends(u)
    <2>1. /\ Passes(u, catalog, state) /\ new[u] # catalog /\ holder' = u
          /\ Sees(u, IF catalog = Nothing THEN "install" ELSE "keep")
      BY <1>4 DEF Lock
    <2>2. PICK there \in {"keep", "install"} :
             Sees(u, there) /\ (there = "keep" <=> catalog # Nothing)
      BY <2>1
    <2>3. there \in Built /\ there \in Locked
      BY DEF Built, Locked
    <2>4. /\ Private(u) /\ pc'[u] = there /\ seen'[u] = catalog /\ new'[u] = new[u] /\ JobInv(u)'
      BY <1>1, <1>2, <2>2, <2>3, SeesInOrder
    <2>5. HolderKnows(u)'
      BY <1>1, <2>1, <2>2, <2>4 DEF HolderKnows, Passes, Pair
    <2>6. ASSUME NEW v \in Updaters, v # u
          PROVE  pc'[v] \notin Locked /\ JobInv(v)'
      <3>1. pc[v] \notin Locked
        BY <1>1, UpdaterAssumption DEF UpdaterAssumption, CatalogInv, CatalogTypeOK, Locked
      <3> QED BY <2>4, <2>6, <3>1, OthersKeep
    <2>7. ASSUME NEW v \in Updaters PROVE JobInv(v)' /\ HolderKnows(v)'
      <3>1. CASE v = u
        BY <2>4, <2>5, <3>1
      <3>2. CASE v # u
        BY <2>6, <3>2 DEF HolderKnows, Locked
      <3> QED BY <3>1, <3>2
    <2>8. Shape' /\ CacheOK'
      BY <1>1, <2>4 DEF Private, CatalogInv, Shape, CatalogTypeOK, CacheOK
    <2>9. ASSUME NEW v \in Updaters PROVE holder' = v <=> pc'[v] \in Locked
      BY <2>1, <2>3, <2>4, <2>6
    <2>10. \A v \in Updaters : MaybeCatalog(new'[v]) /\ MaybeCatalog(seen'[v])
      BY <2>7 DEF JobInv
    <2>11. /\ MaybeCatalog(catalog')
           /\ state' # Nothing => ValidCatalog(state'.digest) /\ state' = StateOf(state'.digest)
      BY <1>1 DEF CatalogInv, CatalogTypeOK
    <2>12. CatalogTypeOK'
      BY <1>1, <1>2, <2>1, <2>8, <2>9, <2>10, <2>11 DEF CatalogTypeOK, CacheOK, Locked
    <2>13. BackupPairs' /\ BackupsAuthentic' /\ RestsConsistent'
      BY <1>1, <2>1, UpdaterAssumption
      DEF UpdaterAssumption, CatalogInv, BackupPairs, BackupsAuthentic, RestsConsistent, Named
    <2> QED BY <2>7, <2>8, <2>12, <2>13 DEF CatalogInv
  <1> QED BY <1>3, <1>4

(* JobInv of a holder that moves on and changes nothing else of its own.   *)
LEMMA MovesInside ==
  ASSUME CatalogInv, NEW u \in Updaters, pc[u] \in Locked, NEW there \in Locked,
         Move(u, there), UNCHANGED <<job, new, seen>>
  PROVE  /\ Private(u) /\ pc'[u] = there /\ JobInv(u)'
  <1>1. Private(u) /\ pc'[u] = there
    BY DEF Move, Private, CatalogInv, Shape, Steps, Built
  <1>2. there \notin Writing /\ there \notin {"fetch", "body", "write-meta"} /\ pc[u] \in Built
    BY DEF Built, Locked, Writing
  <1> QED BY <1>1, <1>2 DEF JobInv, CatalogInv

LEMMA EndsInside ==
  ASSUME CatalogInv, NEW u \in Updaters, pc[u] \in Locked, Ends(u),
         UNCHANGED <<cache, backups, runs>>, stops' \in 0..MaxStops, RestsConsistent',
         MaybeCatalog(catalog'),
         state' # Nothing => ValidCatalog(state'.digest) /\ state' = StateOf(state'.digest)
  PROVE  CatalogInv'
  <1>1. Private(u) /\ pc'[u] = "idle" /\ JobInv(u)' /\ holder' = Nothing
    BY EndsInOrder
  <1>2. HolderKnows(u)' /\ pc'[u] \notin Locked
    BY <1>1 DEF HolderKnows, Locked
  <1>3. BackupPairs' /\ BackupsAuthentic'
    BY DEF CatalogInv, BackupPairs, BackupsAuthentic, Named, backups
  <1> QED BY <1>1, <1>2, <1>3, LockedStep

LEMMA KeepStep == ASSUME CatalogInv, NEW u \in Updaters, Keep(u) PROVE CatalogInv'
  <1> USE DEF cache, installed, backups
  <1>1. /\ pc[u] = "keep" /\ pc[u] \in Locked
        /\ UNCHANGED <<body, meta, catalog, state, keptState, runs, stops>>
    BY DEF Keep, Locked
  <1>2. /\ HolderKnows(u) /\ JobInv(u) /\ seen[u] = catalog /\ catalog # Nothing
        /\ Pair(catalog, state) /\ stops \in 0..MaxStops /\ holder = u
    BY <1>1 DEF CatalogInv, HolderKnows, CatalogTypeOK
  <1>3. /\ MaybeCatalog(catalog')
        /\ state' # Nothing => ValidCatalog(state'.digest) /\ state' = StateOf(state'.digest)
    BY <1>1 DEF CatalogInv, CatalogTypeOK
  <1>4. ASSUME NEW there \in {"keep-state", "install"}, Goes(u, there, job[u]),
               HolderKnows(u)', BackupPairs', BackupsAuthentic'
        PROVE  CatalogInv'
    <2>1. /\ Private(u) /\ pc'[u] = there /\ job'[u] = job[u]
          /\ new'[u] = new[u] /\ seen'[u] = seen[u] /\ holder' = holder
      BY <1>4, GoesInOrder DEF Steps, Built, Locked
    <2>2. there \in Locked /\ there \in Built /\ there \notin Writing \cup {"fetch"}
      BY DEF Locked, Built, Writing
    <2>3. JobInv(u)'
      BY <1>1, <1>2, <2>1, <2>2 DEF JobInv, Built, Writing
    <2>4. RestsConsistent'
      BY <1>2, <2>1, UpdaterAssumption DEF RestsConsistent, UpdaterAssumption
    <2> QED BY <1>1, <1>2, <1>3, <1>4, <2>1, <2>2, <2>3, <2>4, LockedStep
  <1>5. CASE Ends(u)
    <2>1. RestsConsistent' /\ UNCHANGED kept => CatalogInv'
      BY <1>1, <1>2, <1>3, <1>5, EndsInside
    <2>2. Named(kept, seen[u]) # {} \/ Named(keptState, seen[u]) # {} => UNCHANGED kept
      BY DEF Keep
    <2>3. pc'[u] = "idle" /\ holder' = Nothing
      BY <1>1, <1>5, EndsInOrder
    <2>4. UNCHANGED kept
      <3>1. Goes(u, "keep-state", job[u]) => pc'[u] = "keep-state"
        BY DEF Goes, Move, CatalogInv, Shape
      <3> QED BY <2>2, <2>3, <3>1 DEF Keep
    <2>5. catalog # Nothing /\ state # Nothing /\ state = StateOf(catalog)
      BY <1>2 DEF Pair, CatalogInv, CatalogTypeOK
    <2>6. RestsConsistent'
      BY <1>1, <2>5 DEF RestsConsistent
    <2> QED BY <2>1, <2>4, <2>6
  <1>6. CASE /\ Named(kept, seen[u]) = {} /\ Named(keptState, seen[u]) = {}
             /\ kept' = kept \cup {<<seen[u], seen[u]>>} /\ Goes(u, "keep-state", job[u])
    <2>1. BackupPairs' /\ BackupsAuthentic'
      BY <1>1, <1>6 DEF CatalogInv, BackupPairs, BackupsAuthentic, Named
    <2>2. /\ pc'[u] = "keep-state" /\ seen'[u] = seen[u] /\ new'[u] = new[u]
      BY <1>6, GoesInOrder DEF Steps, Built, Locked
    <2>3. HolderKnows(u)'
      BY <1>1, <1>2, <1>6, <2>2 DEF HolderKnows
    <2> QED BY <1>4, <1>6, <2>1, <2>3
  <1>7. CASE /\ Named(kept, seen[u]) = {<<seen[u], seen[u]>>} /\ Named(keptState, seen[u]) # {}
             /\ UNCHANGED kept /\ Goes(u, "install", job[u])
    <2>1. BackupPairs' /\ BackupsAuthentic'
      BY <1>1, <1>7 DEF CatalogInv, BackupPairs, BackupsAuthentic, Named
    <2>2. <<catalog, catalog>> \in kept /\ <<catalog, StateOf(catalog)>> \in keptState
      BY <1>2, <1>7 DEF CatalogInv, BackupPairs, BackupsAuthentic, Named
    <2>3. /\ pc'[u] = "install" /\ seen'[u] = seen[u] /\ new'[u] = new[u]
      BY <1>7, GoesInOrder DEF Steps, Built, Locked
    <2>4. HolderKnows(u)'
      BY <1>1, <1>2, <1>7, <2>2, <2>3 DEF HolderKnows
    <2> QED BY <1>4, <1>7, <2>1, <2>4
  <1> QED BY <1>5, <1>6, <1>7 DEF Keep

LEMMA WriteStep ==
  ASSUME CatalogInv, NEW u \in Updaters,
         KeepState(u) \/ InstallCatalog(u) \/ InstallState(u)
  PROVE  CatalogInv'
  <1> USE DEF cache, installed, backups, work, At
  <1>1. /\ HolderKnows(u) /\ JobInv(u) /\ stops \in 0..MaxStops
        /\ MaybeCatalog(catalog)
        /\ state # Nothing => ValidCatalog(state.digest) /\ state = StateOf(state.digest)
    BY DEF CatalogInv, CatalogTypeOK
  <1>2. pc[u] \in Locked => holder = u
    BY DEF CatalogInv, CatalogTypeOK, Locked
  <1>3. \A here \in {"keep-state", "install", "install-state"} : here \in Locked /\ here \in Built
    BY DEF Locked, Built
  <1>4. holder' = u => RestsConsistent'
    BY UpdaterAssumption DEF RestsConsistent, UpdaterAssumption
  <1>5. CASE KeepState(u)
    <2>1. /\ pc[u] = "keep-state" /\ Move(u, "install") /\ keptState' = keptState \cup {<<seen[u], state>>}
          /\ UNCHANGED <<body, meta, catalog, state, kept, holder, job, new, seen, runs, stops>>
      BY <1>5 DEF KeepState
    <2>2. Private(u) /\ pc'[u] = "install" /\ JobInv(u)'
      BY <1>3, <2>1, MovesInside
    <2>3. seen[u] = catalog /\ catalog # Nothing /\ state = StateOf(catalog) /\ <<catalog, catalog>> \in kept
      BY <1>1, <2>1 DEF HolderKnows, Pair
    <2>4. BackupPairs' /\ BackupsAuthentic'
      BY <2>1, <2>3 DEF CatalogInv, BackupPairs, BackupsAuthentic, Named
    <2>5. HolderKnows(u)'
      BY <1>1, <2>1, <2>2, <2>3 DEF HolderKnows
    <2> QED BY <1>1, <1>2, <1>3, <1>4, <2>1, <2>2, <2>4, <2>5, LockedStep
  <1>6. CASE InstallCatalog(u)
    <2>1. /\ pc[u] = "install" /\ Move(u, "install-state") /\ catalog' = new[u]
          /\ UNCHANGED <<body, meta, state, kept, keptState, holder, job, new, seen, runs, stops>>
      BY <1>6 DEF InstallCatalog
    <2>2. Private(u) /\ pc'[u] = "install-state" /\ JobInv(u)'
      BY <1>3, <2>1, MovesInside
    <2>3. BackupPairs' /\ BackupsAuthentic'
      BY <2>1 DEF CatalogInv, BackupPairs, BackupsAuthentic, Named
    <2>4. HolderKnows(u)'
      BY <1>1, <2>1, <2>2 DEF HolderKnows, Pair
    <2>5. MaybeCatalog(catalog')
      BY <1>1, <2>1 DEF JobInv
    <2> QED BY <1>1, <1>2, <1>3, <1>4, <2>1, <2>2, <2>3, <2>4, <2>5, LockedStep
  <1>7. CASE InstallState(u)
    <2>1. /\ pc[u] = "install-state" /\ state' = StateOf(new[u]) /\ Ends(u)
          /\ UNCHANGED <<body, meta, catalog, kept, keptState, runs, stops>>
      BY <1>7 DEF InstallState
    <2>2. catalog = new[u] /\ new[u] # Nothing /\ ValidCatalog(new[u])
      BY <1>1, <1>3, <2>1 DEF HolderKnows, JobInv, MaybeCatalog
    <2>3. RestsConsistent'
      BY <2>1, <2>2 DEF RestsConsistent
    <2>4. state'.digest = new[u]
      BY <2>1 DEF StateOf
    <2> QED BY <1>1, <1>3, <2>1, <2>2, <2>3, <2>4, EndsInside
  <1> QED BY <1>5, <1>6, <1>7

LEMMA StopStep == ASSUME CatalogInv, NEW u \in Updaters, Stop(u) PROVE CatalogInv'
  <1> USE DEF files
  <1>1. /\ Ends(u) /\ UNCHANGED <<files, runs>>
        /\ stops' \in 0..MaxStops /\ (stops' = 0 => stops = 0) /\ stops' # 0
    BY UpdaterAssumption DEF UpdaterAssumption, Stop, CatalogInv, CatalogTypeOK
  <1>2. CASE pc[u] \notin Locked
    BY <1>1, <1>2, EndsKeeps
  <1>3. CASE pc[u] \in Locked
    <2>1. RestsConsistent'
      BY <1>1 DEF RestsConsistent
    <2>2. /\ MaybeCatalog(catalog')
          /\ state' # Nothing => ValidCatalog(state'.digest) /\ state' = StateOf(state'.digest)
      BY <1>1 DEF CatalogInv, CatalogTypeOK, installed
    <2> QED BY <1>1, <1>3, <2>1, <2>2, EndsInside
  <1> QED BY <1>2, <1>3

LEMMA CatalogStep == CatalogInv /\ [CatalogNext]_catalogVars => CatalogInv'
  <1> SUFFICES ASSUME CatalogInv, [CatalogNext]_catalogVars PROVE CatalogInv'
    OBVIOUS
  <1>1. CASE UNCHANGED catalogVars
    BY <1>1 DEF catalogVars, files, cache, installed, backups, work, CatalogInv, Shape, CatalogTypeOK,
       BackupPairs, BackupsAuthentic, RestsConsistent, Named, JobInv, HolderKnows, Wanted
  <1>2. ASSUME NEW u \in Updaters, Install(u) PROVE CatalogInv'
    BY <1>2, BeforeLock, LockStep, KeepStep, WriteStep DEF Install
  <1> QED BY <1>1, <1>2, CollectStep, StopStep DEF CatalogNext

-----------------------------------------------------------------------------
(* Every file of the catalog, and every local variable, keeps its type,    *)
(* and the lock is held by the run that is inside.                         *)
THEOREM CatalogTypes == CatalogSpec => []CatalogTypeOK
  <1>1. CatalogInv => CatalogTypeOK
    BY DEF CatalogInv
  <1> QED BY <1>1, CatalogInitially, CatalogStep, PTL DEF CatalogSpec

(* A backup is what its name says; a catalog and a state that do not       *)
(* belong together are left only by a run cut short; what is parsed is     *)
(* what the server answered with.                                          *)
THEOREM SoundDisk == CatalogSpec => []DiskIsSound
  <1>1. CatalogInv => DiskIsSound
    BY DEF CatalogInv, DiskIsSound, ParsedIsAnswered, JobInv, WellFormed
  <1> QED BY <1>1, CatalogInitially, CatalogStep, PTL DEF CatalogSpec

-----------------------------------------------------------------------------
(* Only four actions write outside the cache.                              *)
LEMMA OnlyHoldersWrite ==
  ASSUME NEW u \in Updaters, Collect(u) \/ Install(u) \/ Stop(u)
  PROVE  \/ UNCHANGED <<catalog, state>>
         \/ InstallCatalog(u) \/ InstallState(u)
  BY DEF Collect, Install, Begin, NoDocument, CacheBody, CacheMeta, Offline, NotModified, Fetch,
     FetchFails, WriteBody, WriteMeta, LookCatalog, LookState, DryRun, LockBusy, Lock, Keep,
     KeepState, Stop, files, installed

(* A dry run reaches no step that writes.                                  *)
LEMMA DryWritesNot ==
  ASSUME CatalogInv, NEW u \in Updaters, job[u].dry, Collect(u) \/ Install(u) \/ Stop(u)
  PROVE  UNCHANGED files
  <1>1. pc[u] \notin Writing \cup Locked
    BY DEF CatalogInv, JobInv
  <1> QED BY <1>1 DEF Writing, Locked, At, Collect, Install, Begin, NoDocument, CacheBody, CacheMeta,
      Offline, NotModified, Fetch, FetchFails, WriteBody, WriteMeta, LookCatalog, LookState, DryRun,
      LockBusy, Lock, Keep, KeepState, InstallCatalog, InstallState, Stop

(* Whatever mirrors deliver and whoever was killed: no source goes back,   *)
(* what is replaced has been kept, and a dry run writes nothing.           *)
THEOREM SafeWrites == CatalogSpec => WritesAreSafe
  <1> DEFINE Forward == /\ catalog' # catalog /\ catalog # Nothing
                              => NoRollback(catalog.sources, catalog'.sources)
                        /\ state' # state /\ state # Nothing
                              => NoRollback(state.sources, state'.sources)
             Kept == catalog' # catalog /\ catalog # Nothing =>
                        <<catalog, catalog>> \in kept /\ <<catalog, StateOf(catalog)>> \in keptState
             Dry == \A u \in Updaters : job[u].dry /\ pc[u]' # pc[u] => UNCHANGED files
  <1>1. CatalogInv /\ [CatalogNext]_catalogVars => Forward /\ Kept
    <2> SUFFICES ASSUME CatalogInv, [CatalogNext]_catalogVars PROVE Forward /\ Kept
      OBVIOUS
    <2>1. CASE UNCHANGED <<catalog, state>>
      BY <2>1
    <2>2. ASSUME NEW u \in Updaters, InstallCatalog(u) PROVE Forward /\ Kept
      <3>1. catalog' = new[u] /\ state' = state /\ pc[u] = "install" /\ HolderKnows(u)
        BY <2>2 DEF InstallCatalog, At, CatalogInv
      <3>2. CASE catalog # Nothing
        <4>1. state = StateOf(catalog) /\ NoRollback(state.sources, new[u].sources)
          BY <3>1, <3>2 DEF HolderKnows, Pair, CatalogInv, CatalogTypeOK
        <4> QED BY <3>1, <3>2, <4>1, StateSpeaks DEF HolderKnows
      <3> QED BY <3>1, <3>2
    <2>3. ASSUME NEW u \in Updaters, InstallState(u) PROVE Forward /\ Kept
      <3>1. catalog' = catalog /\ state' = StateOf(new[u]) /\ pc[u] = "install-state" /\ HolderKnows(u)
        BY <2>3 DEF InstallState, CatalogInv
      <3>2. CASE state # Nothing
        <4>1. state = StateOf(state.digest) /\ NoRollback(state.sources, new[u].sources)
          BY <3>1, <3>2 DEF HolderKnows, CatalogInv, CatalogTypeOK
        <4> QED BY <3>1, <3>2, <4>1, StateSpeaks
      <3> QED BY <3>1, <3>2
    <2>4. CASE UNCHANGED catalogVars
      BY <2>1, <2>4 DEF catalogVars, files, installed
    <2> QED BY <2>1, <2>2, <2>3, <2>4, OnlyHoldersWrite DEF CatalogNext
  <1>2. CatalogInv /\ [CatalogNext]_catalogVars => Dry
    <2> SUFFICES ASSUME CatalogInv, [CatalogNext]_catalogVars, NEW u \in Updaters, job[u].dry, pc'[u] # pc[u]
                 PROVE  UNCHANGED files
      OBVIOUS
    <2>1. PICK v \in Updaters : Collect(v) \/ Install(v) \/ Stop(v)
      BY DEF CatalogNext, catalogVars
    <2>2. v = u \/ UNCHANGED files
      <3> SUFFICES ASSUME v # u PROVE FALSE
        OBVIOUS
      <3>1. pc'[u] = pc[u]
        BY <2>1 DEF CatalogInv, Shape, Collect, Install, Begin, NoDocument, CacheBody, CacheMeta,
           Offline, NotModified, Fetch, FetchFails, WriteBody, WriteMeta, LookCatalog, LookState,
           DryRun, LockBusy, Lock, Keep, KeepState, InstallCatalog, InstallState, Stop,
           Received, Goes, Ends, Sees, At, Move
      <3> QED BY <3>1
    <2> QED BY <2>1, <2>2, DryWritesNot
  <1> QED BY <1>1, <1>2, CatalogInitially, CatalogStep, PTL
      DEF CatalogSpec, WritesAreSafe, NoSourceRollback, ReplacedIsKept, DryRunWritesNothing
-----------------------------------------------------------------------------
(* The update service.                                                     *)
USE PublicationAssumption DEF PublicationAssumption

Order == <<"feed", "rules", "audit", "key", "stable">>
Files == {"feed", "rules", "audit", "key", "stable"}

(* A tree: its files, and what is in them.                                 *)
TreeOK(t) ==
    /\ DOMAIN t = Files /\ DOMAIN t.audit = Numbers
    /\ \A k \in Endpoints : t[k] # Absent => t[k] \in Document /\ t[k].kind = k
    /\ \A n \in Numbers : t.audit[n] # Absent => t.audit[n].sequence = n

Types ==
    /\ place \in {"ci", "local"} /\ now \in Times /\ builds \in 0..MaxBuilds
    /\ step \in {"idle", "refresh", "select", "replace", "deploy"}
    /\ edition \in 1..MaxCatalog /\ base.catalog \in 1..MaxCatalog
    /\ DOMAIN head = {"tree", "catalog"} /\ head.catalog \in 1..MaxCatalog
    /\ triggered # Absent => triggered.catalog \in 1..head.catalog /\ TreeOK(triggered.tree)
    /\ \A t \in {tree, made, head.tree, base.tree, site} \cup deploying : TreeOK(t)
    /\ DOMAIN accepted = Clients
    /\ \A c \in Clients : DOMAIN accepted[c] = Endpoints
    /\ \A c \in Clients, k \in Endpoints :
           accepted[c][k] # Absent => accepted[c][k] \in Document /\ accepted[c][k].kind = k

(* A file of the output tree is as it was staged.                          *)
Replaced(file) ==
    IF file = "audit"
    THEN tree.audit[made.feed.sequence] = made.audit[made.feed.sequence]
    ELSE tree[file] = made[file]

(* What was staged is whole; of it the files before those still left are   *)
(* in the tree, and a record of its sequence is its own.                   *)
BuildGoesOn ==
    step = "replace" =>
        /\ Coherent(made) /\ made.key = "key" /\ made.feed.data \notin BadInputs
        /\ tree.audit[made.feed.sequence] \in {Absent, made.audit[made.feed.sequence]}
        /\ left \in Seq(Files) /\ Len(left) \in 0..5
        /\ \A i \in 1..Len(left) : left[i] = Order[i + 5 - Len(left)]
        /\ \A i \in 1..(5 - Len(left)) : Replaced(Order[i])

(* A tree that is or has been that of main: whole, with the documents of   *)
(* its greatest record.                                                    *)
WasMain(t) ==
    t # NoTree => Coherent(t) /\ \A m \in Published(t) : m <= t.feed.sequence

(* What a job works on has been main, and a sequence that it did not have. *)
JobGoesOn ==
    place = "ci" =>
        /\ WasMain(base.tree) /\ (triggered # Absent => WasMain(triggered.tree))
        /\ step \in {"refresh", "select", "replace"} => base.catalog <= edition
        /\ step \in {"refresh", "select"} => tree = base.tree
        /\ step = "replace" =>
               /\ made.feed.data = edition
               /\ \A m \in Published(base.tree) : m < made.feed.sequence
               /\ \A m \in Numbers \ {made.feed.sequence} : tree.audit[m] = base.tree.audit[m]

(* Nothing of a local build is published.                                  *)
LocalStays ==
    place = "local" =>
        /\ step \in {"idle", "replace"}
        /\ head.tree = NoTree /\ deploying = {} /\ site = NoTree
        /\ \A c \in Clients, k \in Endpoints : accepted[c][k] = Absent

(* The record on main binds documents of its sequence, and catalogs that   *)
(* only move forward.                                                      *)
Bound(n, k) == head.tree.audit[n].bound[k]

RecordIsWhole ==
    \A n \in Published(head.tree) :
        /\ \A k \in Endpoints : Bound(n, k) \in Document /\ Bound(n, k).sequence = n
        /\ Bound(n, "feed").data <= head.catalog
        /\ \A m \in Published(head.tree) : m <= n => Bound(m, "feed").data <= Bound(n, "feed").data

(* Every document that main, a deployment, the site or a client holds is   *)
(* on that record.                                                         *)
OnRecord(d, k) ==
    d # Absent => d.sequence \in Published(head.tree) /\ Bound(d.sequence, k) = d

AllOnRecord ==
    \A k \in Endpoints :
        /\ \A t \in {head.tree, site} \cup deploying : OnRecord(t[k], k)
        /\ \A c \in Clients : OnRecord(accepted[c][k], k)

MainIsNewest ==
    head.tree # NoTree => \A m \in Published(head.tree) : m <= head.tree.feed.sequence

PublicationInv ==
    /\ Types
    /\ BuildGoesOn
    /\ JobGoesOn
    /\ LocalStays
    /\ PublishedCoherent
    /\ RecordIsWhole
    /\ AllOnRecord
    /\ MainIsNewest

-----------------------------------------------------------------------------
LEMMA NoTreeOK ==
  /\ TreeOK(NoTree) /\ Published(NoTree) = {}
  /\ \A k \in Endpoints : NoTree[k] = Absent
  BY DEF TreeOK, NoTree, Files, Endpoints, Published

LEMMA PublicationInit == Init => PublicationInv
  <1> SUFFICES ASSUME Init PROVE PublicationInv
    OBVIOUS
  <1>1. Types
    BY NoTreeOK DEF Init, First, Types, Times
  <1>2. BuildGoesOn /\ JobGoesOn /\ LocalStays /\ PublishedCoherent /\ MainIsNewest
    BY DEF Init, First, BuildGoesOn, JobGoesOn, WasMain, LocalStays, PublishedCoherent, MainIsNewest
  <1>3. RecordIsWhole /\ AllOnRecord
    BY NoTreeOK DEF Init, First, RecordIsWhole, AllOnRecord, OnRecord
  <1> QED BY <1>1, <1>2, <1>3 DEF PublicationInv

-----------------------------------------------------------------------------
LEMMA SignedDocument ==
  ASSUME NEW k \in Endpoints, NEW n \in Numbers, NEW generated \in Times, NEW expires \in Times,
         NEW data \in 0..MaxCatalog
  PROVE  LET d == Signed(k, n, generated, expires, data)
         IN  d \in Document /\ d.kind = k
  BY DEF Signed, Document, Times

(* What build comes to before it replaces the first file.                  *)
LEMMA BuildEffect ==
  ASSUME Types, NEW n \in Numbers, NEW generated \in Times, NEW expires \in Times,
         BuildOf(n, generated, expires)
  PROVE  /\ TreeOK(made') /\ Coherent(made') /\ made'.key = "key"
         /\ made'.feed.sequence = n /\ made'.feed.data = edition /\ edition \notin BadInputs
         /\ tree.audit[n] \in {Absent, made'.audit[n]}
         /\ left' = Order
  <1> DEFINE staged == Stage(n, generated, expires)
  <1>1. made' = staged /\ left' = Order /\ edition \notin BadInputs
    BY DEF BuildOf, InputsAccepted, Order
  <1>2. Coherent(staged) /\ staged.feed.sequence = n
    BY DEF BuildOf, VerifyTree
  <1>3. tree.audit[n] \in {Absent, staged.audit[n]}
    BY DEF BuildOf, Refused
  <1>4. staged.key = "key" /\ staged.feed.data = edition
    BY DEF Stage, Signed, Endpoints
  <1>5. TreeOK(staged)
    <2>1. DOMAIN staged = Files
      BY DEF Stage, Files
    <2>2. \A k \in Endpoints :
             staged[k] = Signed(k, n, generated, expires, IF k = "feed" THEN edition ELSE 0)
      BY DEF Stage, Endpoints
    <2>3. \A k \in Endpoints : staged[k] \in Document /\ staged[k].kind = k
      <3> SUFFICES ASSUME NEW k \in Endpoints PROVE staged[k] \in Document /\ staged[k].kind = k
        OBVIOUS
      <3>1. (IF k = "feed" THEN edition ELSE 0) \in 0..MaxCatalog
        BY DEF Types
      <3> QED BY <2>2, <3>1, SignedDocument
    <2>4. /\ DOMAIN staged.audit = Numbers
          /\ \A m \in Numbers \ {n} : staged.audit[m] = Absent
          /\ staged.audit[n].sequence = n
      BY DEF Stage, NoTree
    <2> QED BY <2>1, <2>3, <2>4 DEF TreeOK
  <1> QED BY <1>1, <1>2, <1>3, <1>4, <1>5

LEMMA OrderIs ==
  /\ Len(Order) = 5 /\ Order \in Seq(Files) /\ \A i \in 1..5 : Order[i] \in Files
  /\ Order[1] = "feed" /\ Order[2] = "rules" /\ Order[3] = "audit"
  /\ Order[4] = "key" /\ Order[5] = "stable"
  BY DEF Order, Files

(* One file is replaced, and what was replaced stays so.                   *)
LEMMA ReplaceEffect ==
  ASSUME Types, BuildGoesOn, Replace
  PROVE  /\ step = "replace" /\ UNCHANGED <<place, edition, step, made, commits, world, builds>>
         /\ TreeOK(tree')
         /\ tree'.audit[made.feed.sequence] \in {Absent, made.audit[made.feed.sequence]}
         /\ \A m \in Numbers \ {made.feed.sequence} : tree'.audit[m] = tree.audit[m]
         /\ \A f \in Files : Replaced(f) \/ f = Order[6 - Len(left)] => Replaced(f)'
         /\ \A m \in Numbers : tree.audit[m] # Absent => tree'.audit[m] = tree.audit[m]
         /\ Len(left) \in 1..5 /\ left' = Tail(left)
  <1> DEFINE n == made.feed.sequence
             f == Head(left)
  <1>1. /\ step = "replace" /\ left # <<>> /\ left' = Tail(left)
        /\ UNCHANGED <<place, edition, step, made, commits, world, builds>>
    BY DEF Replace
  <1>2. /\ left \in Seq(Files) /\ Len(left) \in 1..5 /\ f = Order[6 - Len(left)] /\ f \in Files
    <2>1. left \in Seq(Files) /\ Len(left) \in 0..5 /\ \A i \in 1..Len(left) : left[i] = Order[i + 5 - Len(left)]
      BY <1>1 DEF BuildGoesOn
    <2>2. Len(left) \in 1..5 /\ f = left[1]
      BY <1>1, <2>1
    <2>3. 6 - Len(left) \in 1..5 /\ 1 + 5 - Len(left) = 6 - Len(left) /\ 1 \in 1..Len(left)
      <3>1. \A k \in 1..5 : 6 - k \in 1..5 /\ 1 + 5 - k = 6 - k /\ 1 \in 1..k
        OBVIOUS
      <3>2. Len(left) \in 1..5
        BY <2>2
      <3>3. PICK k \in 1..5 : k = Len(left)
        BY <3>2
      <3> QED BY <3>1, <3>3, Zenon
    <2>4. left[1] = Order[1 + 5 - Len(left)]
      BY <2>1, <2>3
    <2>5. f = Order[6 - Len(left)]
      BY <2>2, <2>3, <2>4
    <2> QED BY <2>1, <2>2, <2>3, <2>5, OrderIs
  <1>3. TreeOK(tree) /\ TreeOK(made) /\ tree.audit[n] \in {Absent, made.audit[n]}
    BY <1>1 DEF Types, BuildGoesOn
  <1>4. n \in Numbers
    BY <1>1, <1>3 DEF BuildGoesOn, Coherent, TreeOK, Document, Endpoints
  <1>5. CASE f = "audit"
    <2>1. tree' = [tree EXCEPT !.audit = [tree.audit EXCEPT ![n] = made.audit[n]]]
      BY <1>5 DEF Replace
    <2>2. /\ DOMAIN tree' = Files /\ DOMAIN tree'.audit = Numbers
          /\ tree'.audit[n] = made.audit[n]
          /\ \A m \in Numbers \ {n} : tree'.audit[m] = tree.audit[m]
          /\ \A g \in Files \ {"audit"} : tree'[g] = tree[g]
      BY <1>3, <1>4, <2>1 DEF TreeOK, Files
    <2>3. TreeOK(tree')
      <3>1. \A k \in Endpoints : tree'[k] = tree[k]
        BY <2>2 DEF Files, Endpoints
      <3>2. \A m \in Numbers : tree'.audit[m] # Absent => tree'.audit[m].sequence = m
        BY <1>3, <2>2 DEF TreeOK
      <3> QED BY <1>3, <2>2, <3>1, <3>2 DEF TreeOK
    <2>4. /\ tree'.audit[n] \in {Absent, made.audit[n]}
          /\ \A m \in Numbers : tree.audit[m] # Absent => tree'.audit[m] = tree.audit[m]
      BY <1>3, <2>2
    <2>5. \A g \in Files : Replaced(g) \/ g = f => Replaced(g)'
      BY <1>1, <1>5, <2>2 DEF Replaced
    <2> QED BY <1>1, <1>2, <2>2, <2>3, <2>4, <2>5
  <1>6. CASE f # "audit"
    <2>1. tree' = [tree EXCEPT ![f] = made[f]]
      BY <1>6 DEF Replace
    <2>2. /\ DOMAIN tree' = Files /\ tree'.audit = tree.audit /\ tree'[f] = made[f]
          /\ \A g \in Files \ {f} : tree'[g] = tree[g]
      BY <1>2, <1>3, <1>6, <2>1 DEF TreeOK, Files
    <2>3. TreeOK(tree')
      <3>1. \A k \in Endpoints : tree'[k] \in {tree[k], made[k]}
        BY <2>2 DEF Files, Endpoints
      <3>2. \A k \in Endpoints : tree'[k] # Absent => tree'[k] \in Document /\ tree'[k].kind = k
        BY <1>3, <3>1 DEF TreeOK
      <3> QED BY <1>3, <2>2, <3>2 DEF TreeOK
    <2>4. \A g \in Files : Replaced(g) \/ g = f => Replaced(g)'
      BY <1>1, <1>6, <2>2 DEF Replaced
    <2> QED BY <1>1, <1>2, <1>3, <2>2, <2>3, <2>4
  <1> QED BY <1>5, <1>6

-----------------------------------------------------------------------------
(* The steps by what they may change: a build begins, a file is replaced,  *)
(* the builder goes on otherwise, main gets a publication, or the world    *)
(* goes on without one.                                                    *)
Begins(n, generated, expires) ==
    LocalBuild(n, generated, expires) \/ Select(n, generated, expires)

Turns == LocalEdit \/ LocalDone \/ LocalInterrupt \/ Trigger \/ Checkout \/ Refresh \/ JobFails
Moves == PagesStarts \/ DeployStarts \/ DeployEnds \/ Commit \/ Tick
Reads == \E c \in Clients, k \in Endpoints : ClientReads(c, k)

LEMMA BuilderSteps ==
  ASSUME [Next]_vars
  PROVE  \/ \E n \in Numbers, g \in Times, e \in Times : Begins(n, g, e)
         \/ Turns \/ Replace \/ Push \/ Moves \/ Reads \/ UNCHANGED vars
  BY DEF Next, Local, Workflow, Begins, Turns, Moves, Reads

LEMMA BeginsEffect ==
  ASSUME PublicationInv, NEW n \in Numbers, NEW g \in Times, NEW e \in Times, Begins(n, g, e)
  PROVE  /\ UNCHANGED <<place, tree, edition, commits, world>>
         /\ step' = "replace" /\ builds' \in 0..MaxBuilds
         /\ BuildOf(n, g, e)
         /\ place = "ci" => step = "select" /\ n > Latest(tree)
         /\ place = "local" => step = "idle"
  <1>1. UNCHANGED <<place, tree, edition, commits, world>> /\ step' = "replace" /\ BuildOf(n, g, e)
    BY DEF Begins, LocalBuild, Select
  <1>2. builds' = builds \/ (builds < MaxBuilds /\ builds' = builds + 1)
    BY Zenon DEF Begins, LocalBuild, Select
  <1>3. builds' \in 0..MaxBuilds
    BY <1>2 DEF PublicationInv, Types
  <1>4. place = "ci" => step = "select" /\ n > Latest(tree)
    BY DEF Begins, LocalBuild, Select
  <1>5. place = "local" => step = "idle"
    BY DEF Begins, LocalBuild, Select, PublicationInv, LocalStays
  <1> QED BY <1>1, <1>3, <1>4, <1>5

LEMMA TurnsEffect ==
  ASSUME PublicationInv, Turns
  PROVE  /\ UNCHANGED <<place, world>>
         /\ tree' \in {tree, base'.tree, NoTree} /\ made' \in {made, NoTree}
         /\ edition' \in 1..MaxCatalog /\ builds' \in 0..MaxBuilds
         /\ base' \in {base, First} \/ (triggered # Absent /\ base' = triggered)
         /\ triggered' \in {triggered, Absent, head}
         /\ \/ step' = "idle" \/ UNCHANGED <<step, made, left, tree, edition, base>>
            \/ place = "ci" /\ step' \in {"refresh", "select"}
         /\ place = "ci" /\ step' \in {"refresh", "select"} =>
                base'.catalog <= edition' /\ tree' = base'.tree
         /\ place = "local" => step' = "idle" /\ UNCHANGED tree
  <1> USE DEF PublicationInv, Types, commits
  <1>0. head.catalog \in 1..MaxCatalog /\ (triggered # Absent => triggered.catalog \in 1..MaxCatalog)
    OBVIOUS
  <1>1. CASE LocalEdit \/ LocalDone \/ LocalInterrupt
    <2>1. /\ place = "local" /\ step' = "idle" /\ UNCHANGED <<place, tree, commits, world, builds>>
          /\ made' \in {made, NoTree}
      BY <1>1 DEF LocalEdit, LocalDone, LocalInterrupt
    <2>2. edition' \in 1..MaxCatalog
      BY <1>1 DEF LocalEdit, LocalDone, LocalInterrupt
    <2> QED BY <2>1, <2>2
  <1>2. CASE Trigger
    BY <1>2 DEF Trigger, JobGoesOn
  <1>3. CASE Checkout
    BY <1>0, <1>3 DEF Checkout
  <1>4. CASE Refresh
    <2>1. place = "ci" /\ step = "refresh" /\ step' = "select"
      BY <1>4 DEF Refresh, LocalStays
    <2>2. UNCHANGED <<place, tree, made, commits, world, builds>>
      BY <1>4 DEF Refresh
    <2>3. edition' \in 1..MaxCatalog /\ edition <= edition'
      BY <1>4 DEF Refresh
    <2> QED BY <2>1, <2>2, <2>3 DEF JobGoesOn
  <1>5. CASE JobFails
    <2>1. /\ place = "ci" /\ step' = "idle" /\ tree' = NoTree /\ made' = NoTree
          /\ edition' = 1 /\ base' = First /\ UNCHANGED <<place, triggered, world, builds>>
      BY <1>5 DEF JobFails, Gone, First
    <2> QED BY <2>1
  <1> QED BY <1>1, <1>2, <1>3, <1>4, <1>5 DEF Turns

LEMMA PlaceStays ==
  ASSUME [Next]_vars
  PROVE  UNCHANGED place
  <1>1. ASSUME NEW n \in Numbers, NEW g \in Times, NEW e \in Times, Begins(n, g, e)
        PROVE  UNCHANGED place
    BY <1>1 DEF Begins, LocalBuild, Select
  <1>2. CASE Turns
    BY <1>2 DEF Turns, LocalEdit, LocalDone, LocalInterrupt, Trigger, Checkout, Refresh, JobFails
  <1>3. CASE Replace \/ Push \/ Moves \/ Reads \/ UNCHANGED vars
    BY <1>3 DEF Replace, Push, Moves, PagesStarts, DeployStarts, DeployEnds, Commit, Tick, Reads,
       ClientReads, vars
  <1> QED BY <1>1, <1>2, <1>3, BuilderSteps

LEMMA TypesStep == PublicationInv /\ [Next]_vars => Types'
  <1> SUFFICES ASSUME PublicationInv, [Next]_vars PROVE Types'
    OBVIOUS
  <1>1. Types /\ BuildGoesOn
    BY DEF PublicationInv
  <1> USE DEF Types, world, commits
  <1>2. CASE UNCHANGED vars
    BY <1>1, <1>2 DEF vars, workspace
  <1>3. ASSUME NEW n \in Numbers, NEW g \in Times, NEW e \in Times, Begins(n, g, e) PROVE Types'
    <2>1. UNCHANGED <<place, tree, edition, commits, world>> /\ step' = "replace" /\ builds' \in 0..MaxBuilds
      BY <1>3, BeginsEffect
    <2>2. TreeOK(made')
      BY <1>1, <1>3, BeginsEffect, BuildEffect
    <2> QED BY <1>1, <2>1, <2>2
  <1>4. CASE Turns
    <2>1. /\ UNCHANGED <<place, world>> /\ edition' \in 1..MaxCatalog /\ builds' \in 0..MaxBuilds
          /\ step' \in {step, "idle", "refresh", "select"}
      BY <1>4, TurnsEffect
    <2>2. base'.catalog \in 1..MaxCatalog /\ TreeOK(base'.tree)
      BY <1>1, <1>4, TurnsEffect, NoTreeOK DEF First
    <2>3. TreeOK(tree') /\ TreeOK(made')
      BY <1>1, <1>4, <2>2, TurnsEffect, NoTreeOK
    <2>4. triggered' # Absent => triggered'.catalog \in 1..head.catalog /\ TreeOK(triggered'.tree)
      BY <1>1, <1>4, TurnsEffect
    <2> QED BY <1>1, <2>1, <2>2, <2>3, <2>4
  <1>5. CASE Replace
    BY <1>1, <1>5, ReplaceEffect
  <1>6. CASE Push
    <2>1. /\ head'.tree = tree /\ head'.catalog = edition /\ DOMAIN head' = {"tree", "catalog"}
          /\ step' = "deploy" /\ head = base /\ step = "replace" /\ place = "ci"
          /\ UNCHANGED <<place, tree, edition, made, commits, now, deploying, site, accepted, builds>>
      BY <1>6 DEF Push
    <2>2. head.catalog <= edition
      BY <2>1 DEF PublicationInv, JobGoesOn
    <2>3. triggered' # Absent => triggered'.catalog \in 1..head'.catalog
      BY <1>1, <2>1, <2>2
    <2> QED BY <1>1, <2>1, <2>3
  <1>7. CASE PagesStarts \/ DeployStarts
    <2>1. /\ deploying' \subseteq deploying \cup {head.tree}
          /\ tree' \in {tree, NoTree} /\ made' \in {made, NoTree} /\ step' \in {step, "idle"}
          /\ edition' \in {edition, 1} /\ base' \in {base, First}
          /\ UNCHANGED <<place, triggered, now, head, site, accepted, builds>>
      BY <1>7 DEF PagesStarts, DeployStarts, Gone, First, workspace
    <2>2. base'.catalog \in 1..MaxCatalog /\ TreeOK(base'.tree) /\ edition' \in 1..MaxCatalog
      BY <1>1, <2>1, NoTreeOK DEF First
    <2> QED BY <1>1, <2>1, <2>2, NoTreeOK
  <1>8. CASE DeployEnds
    <2>1. /\ deploying' \subseteq deploying /\ site' \in deploying \cup {site}
          /\ UNCHANGED <<place, workspace, now, head, accepted, builds>>
      BY <1>8 DEF DeployEnds
    <2> QED BY <1>1, <2>1 DEF workspace
  <1>9. CASE Commit
    <2>1. /\ head'.tree = head.tree /\ head'.catalog \in 1..MaxCatalog /\ head'.catalog = head.catalog + 1
          /\ DOMAIN head' = {"tree", "catalog"}
          /\ UNCHANGED <<place, workspace, now, deploying, site, accepted, builds>>
      BY <1>1, <1>9 DEF Commit
    <2> QED BY <1>1, <2>1 DEF workspace
  <1>10. CASE Tick
    <2>1. now' \in Times /\ UNCHANGED <<place, workspace, head, deploying, site, accepted, builds>>
      BY <1>1, <1>10 DEF Tick, Times
    <2> QED BY <1>1, <2>1 DEF workspace
  <1>11. CASE Reads
    <2>1. PICK c \in Clients, k \in Endpoints : ClientReads(c, k)
      BY <1>11 DEF Reads
    <2>2. /\ accepted' = [accepted EXCEPT ![c] = [accepted[c] EXCEPT ![k] = site[k]]]
          /\ site[k] # Absent
          /\ UNCHANGED <<place, workspace, now, head, deploying, site, builds>>
      BY <2>1 DEF ClientReads
    <2>3. site[k] \in Document /\ site[k].kind = k
      BY <1>1, <2>2 DEF TreeOK
    <2>4. /\ DOMAIN accepted' = Clients /\ \A x \in Clients : DOMAIN accepted'[x] = Endpoints
          /\ \A x \in Clients, y \in Endpoints :
                 accepted'[x][y] = IF x = c /\ y = k THEN site[k] ELSE accepted[x][y]
      BY <1>1, <2>2
    <2> QED BY <1>1, <2>2, <2>3, <2>4 DEF workspace
  <1> QED BY <1>2, <1>3, <1>4, <1>5, <1>6, <1>7, <1>8, <1>9, <1>10, <1>11, BuilderSteps DEF Moves

-----------------------------------------------------------------------------
(* A build that goes on.                                                   *)
LEMMA StagedSequence ==
  ASSUME Types, BuildGoesOn, step = "replace"
  PROVE  made.feed.sequence \in Numbers
  BY DEF Types, BuildGoesOn, Coherent, TreeOK, Document, Endpoints

LEMMA Taken ==
  ASSUME NEW q \in Seq(Files), q # <<>>
  PROVE  /\ Tail(q) \in Seq(Files) /\ Len(Tail(q)) = Len(q) - 1
         /\ \A i \in 1..Len(Tail(q)) : Tail(q)[i] = q[i + 1]
  OBVIOUS

LEMMA BuildStep == PublicationInv /\ [Next]_vars => BuildGoesOn'
  <1> SUFFICES ASSUME PublicationInv, [Next]_vars PROVE BuildGoesOn'
    OBVIOUS
  <1>1. Types /\ BuildGoesOn
    BY DEF PublicationInv
  <1>2. CASE UNCHANGED <<step, made, left, tree>>
    BY <1>1, <1>2 DEF BuildGoesOn, Coherent, Replaced
  <1>3. CASE step' # "replace"
    BY <1>3 DEF BuildGoesOn
  <1>4. ASSUME NEW n \in Numbers, NEW g \in Times, NEW e \in Times, Begins(n, g, e)
        PROVE  BuildGoesOn'
    <2>1. /\ Coherent(made') /\ made'.key = "key" /\ made'.feed.sequence = n
          /\ made'.feed.data \notin BadInputs
          /\ tree.audit[n] \in {Absent, made'.audit[n]} /\ left' = Order
      BY <1>1, <1>4, BeginsEffect, BuildEffect
    <2>2. UNCHANGED tree
      BY <1>4, BeginsEffect
    <2> QED BY <2>1, <2>2, OrderIs DEF BuildGoesOn, Coherent
  <1>5. CASE Replace
    <2>1. /\ step = "replace" /\ UNCHANGED made
          /\ tree'.audit[made.feed.sequence] \in {Absent, made.audit[made.feed.sequence]}
          /\ \A f \in Files : Replaced(f) \/ f = Order[6 - Len(left)] => Replaced(f)'
          /\ Len(left) \in 1..5 /\ left' = Tail(left)
      BY <1>1, <1>5, ReplaceEffect
    <2>2. /\ left \in Seq(Files)
          /\ \A i \in 1..Len(left) : left[i] = Order[i + 5 - Len(left)]
          /\ \A i \in 1..(5 - Len(left)) : Replaced(Order[i])
      BY <1>1, <2>1 DEF BuildGoesOn
    <2>3. /\ left' \in Seq(Files) /\ Len(left') = Len(left) - 1
          /\ \A i \in 1..Len(left') : left'[i] = left[i + 1]
      <3>1. left # <<>>
        BY <2>1, <2>2
      <3> QED BY <2>1, <2>2, <3>1, Taken
    <2>4. \A i \in 1..Len(left') : left'[i] = Order[i + 5 - Len(left')]
      BY <2>1, <2>2, <2>3
    <2>5. ASSUME NEW i \in 1..(5 - Len(left')) PROVE Replaced(Order[i])'
      <3>1. i \in 1..5 /\ (i \in 1..(5 - Len(left)) \/ i = 6 - Len(left))
        BY <2>1, <2>3
      <3>2. Order[i] \in Files /\ (Replaced(Order[i]) \/ Order[i] = Order[6 - Len(left)])
        BY <2>2, <3>1, OrderIs
      <3> DEFINE f == Order[i]
      <3>3. f \in Files => (Replaced(f) \/ f = Order[6 - Len(left)] => Replaced(f)')
        BY <2>1
      <3> QED BY <3>2, <3>3
    <2>6. Coherent(made)' /\ made'.key = "key" /\ made'.feed.data \notin BadInputs
      BY <1>1, <2>1 DEF BuildGoesOn, Coherent
    <2>7. Len(left') \in 0..5
      BY <2>1, <2>3
    <2> QED BY <2>1, <2>3, <2>4, <2>5, <2>6, <2>7 DEF BuildGoesOn
  <1>6. CASE Turns
    BY <1>2, <1>3, <1>6, TurnsEffect
  <1>7. CASE Push \/ DeployStarts
    BY <1>3, <1>7 DEF Push, DeployStarts, Gone
  <1>8. CASE Moves \/ Reads \/ UNCHANGED vars
    BY <1>2, <1>7, <1>8 DEF Moves, PagesStarts, DeployEnds, Commit, Tick, Reads, ClientReads,
       workspace, vars
  <1> QED BY <1>4, <1>5, <1>6, <1>7, <1>8, BuilderSteps

(* What such a tree has is not more than the sequence its feed has.        *)
LEMMA LatestIs ==
  ASSUME NEW t, TreeOK(t), WasMain(t)
  PROVE  /\ t # NoTree => Latest(t) = t.feed.sequence
         /\ Latest(t) \in Nat
         /\ \A m \in Published(t) : m <= Latest(t)
  <1> DEFINE S == Published(t)
             n == t.feed.sequence
  <1>1. CASE t = NoTree
    BY <1>1, NoTreeOK DEF Latest
  <1>2. CASE t # NoTree
    <2>1. n \in Numbers /\ t.audit[n] # Absent
      BY <1>2 DEF WasMain, Coherent, TreeOK, Document, Endpoints
    <2>2. n \in S /\ \A m \in S : m <= n
      BY <1>2, <2>1 DEF WasMain, Published
    <2>3. S \subseteq Nat /\ n \in Nat
      BY <2>1 DEF Published, Numbers
    <2>4. Max(S) = n
      <3> HIDE DEF S, n
      <3>1. \E x \in S : \A y \in S : x >= y
        BY <2>2, <2>3
      <3>2. Max(S) \in S /\ \A y \in S : Max(S) >= y
        BY <3>1 DEF Max
      <3>3. Max(S) >= n /\ Max(S) <= n /\ Max(S) \in Nat
        BY <2>2, <2>3, <3>2
      <3> QED BY <2>3, <3>3
    <2>5. Latest(t) = n
      BY <2>2, <2>4 DEF Latest
    <2> QED BY <2>2, <2>3, <2>5
  <1> QED BY <1>1, <1>2

LEMMA MainWasMain == PublicationInv => WasMain(head.tree) /\ TreeOK(head.tree)
  BY DEF PublicationInv, Types, PublishedCoherent, MainIsNewest, WasMain

LEMMA JobStep == PublicationInv /\ [Next]_vars => JobGoesOn'
  <1> SUFFICES ASSUME PublicationInv, [Next]_vars, place = "ci" PROVE JobGoesOn'
    BY PlaceStays DEF JobGoesOn
  <1>1. Types /\ BuildGoesOn /\ JobGoesOn
    BY DEF PublicationInv
  <1>2. CASE UNCHANGED <<place, step, commits, edition, tree, made>>
    BY <1>1, <1>2 DEF JobGoesOn, WasMain, Coherent, Published, commits
  <1>3. CASE step' \in {"idle", "deploy"} /\ triggered' = triggered /\ base' \in {base, First}
    <2>1. WasMain(First.tree)
      BY DEF WasMain, First
    <2>2. WasMain(base.tree) /\ (triggered # Absent => WasMain(triggered.tree))
      BY <1>1 DEF JobGoesOn
    <2>3. WasMain(base'.tree) /\ (triggered' # Absent => WasMain(triggered'.tree))
      BY <1>3, <2>1, <2>2
    <2> QED BY <1>3, <2>3 DEF JobGoesOn, WasMain, Coherent, Published
  <1>4. ASSUME NEW n \in Numbers, NEW g \in Times, NEW e \in Times, Begins(n, g, e)
        PROVE  JobGoesOn'
    <2>1. /\ UNCHANGED <<place, tree, edition, base, triggered>> /\ step' = "replace"
          /\ step = "select" /\ n > Latest(tree)
      BY <1>4, BeginsEffect DEF commits
    <2>2. made'.feed.sequence = n /\ made'.feed.data = edition
      BY <1>1, <1>4, BeginsEffect, BuildEffect
    <2>3. tree = base.tree /\ base.catalog <= edition /\ WasMain(base.tree) /\ TreeOK(base.tree)
      BY <1>1, <2>1 DEF JobGoesOn, Types
    <2>4. \A m \in Published(base.tree) : m < n
      BY <2>1, <2>3, LatestIs DEF Published, Numbers
    <2> QED BY <1>1, <2>1, <2>2, <2>3, <2>4 DEF JobGoesOn, WasMain, Coherent, Published
  <1>5. CASE Replace
    <2>1. /\ step = "replace" /\ UNCHANGED <<place, edition, step, made, base, triggered>>
          /\ \A m \in Numbers \ {made.feed.sequence} : tree'.audit[m] = tree.audit[m]
      BY <1>1, <1>5, ReplaceEffect DEF commits
    <2> QED BY <1>1, <2>1 DEF JobGoesOn, WasMain, Coherent, Published
  <1>6. CASE Turns
    <2>1. WasMain(First.tree) /\ WasMain(head.tree)
      BY MainWasMain DEF WasMain, First
    <2>2. WasMain(base.tree) /\ (triggered # Absent => WasMain(triggered.tree))
      BY <1>1 DEF JobGoesOn
    <2>3. WasMain(base'.tree) /\ (triggered' # Absent => WasMain(triggered'.tree))
      BY <1>6, <2>1, <2>2, TurnsEffect
    <2>4. WasMain(base.tree)' /\ (triggered' # Absent => WasMain(triggered.tree)')
      BY <2>3 DEF WasMain, Coherent, Published
    <2>5. CASE step' = "idle"
      BY <2>4, <2>5 DEF JobGoesOn
    <2>6. CASE UNCHANGED <<step, made, left, tree, edition, base>>
      BY <1>1, <2>4, <2>6 DEF JobGoesOn, Published
    <2>7. CASE step' \in {"refresh", "select"}
      <3>1. base'.catalog <= edition' /\ tree' = base'.tree
        BY <1>6, <2>7, TurnsEffect
      <3> QED BY <2>4, <2>7, <3>1 DEF JobGoesOn
    <2> QED BY <1>6, <2>5, <2>6, <2>7, TurnsEffect
  <1>7. CASE Push \/ DeployStarts
    BY <1>3, <1>7 DEF Push, DeployStarts, Gone, commits
  <1>8. CASE Moves \/ Reads \/ UNCHANGED vars
    BY <1>2, <1>7, <1>8 DEF Moves, PagesStarts, DeployEnds, Commit, Tick, Reads, ClientReads,
       workspace, world, vars, commits
  <1> QED BY <1>4, <1>5, <1>6, <1>7, <1>8, BuilderSteps

LEMMA LocalStep == PublicationInv /\ [Next]_vars => LocalStays'
  <1> SUFFICES ASSUME PublicationInv, [Next]_vars, place = "local" PROVE LocalStays'
    BY PlaceStays DEF PublicationInv, Types, LocalStays
  <1> USE DEF LocalStays, world
  <1>1. LocalStays /\ place # "ci"
    BY DEF PublicationInv
  <1>2. ASSUME NEW n \in Numbers, NEW g \in Times, NEW e \in Times, Begins(n, g, e)
        PROVE  LocalStays'
    BY <1>1, <1>2, BeginsEffect
  <1>3. CASE Replace \/ Turns
    BY <1>1, <1>3, TurnsEffect DEF Replace
  <1>4. ~(Push \/ PagesStarts \/ DeployStarts \/ DeployEnds \/ Commit \/ Reads)
    BY <1>1 DEF Push, PagesStarts, DeployStarts, DeployEnds, Commit, Reads, ClientReads
  <1>5. CASE Tick \/ UNCHANGED vars
    BY <1>1, <1>5 DEF Tick, workspace, vars
  <1> QED BY <1>2, <1>3, <1>4, <1>5, BuilderSteps DEF Moves

-----------------------------------------------------------------------------
(* When nothing is left to replace, the output tree is as it was staged.   *)
LEMMA TreeIsBuilt ==
  ASSUME Types, BuildGoesOn, step = "replace", left = <<>>
  PROVE  /\ Coherent(tree) /\ tree.feed = made.feed /\ tree.key = "key"
         /\ tree.audit[made.feed.sequence] = made.audit[made.feed.sequence]
  <1>1. Coherent(made) /\ made.key = "key" /\ \A i \in 1..5 : Replaced(Order[i])
    BY DEF BuildGoesOn
  <1>2. Replaced("feed") /\ Replaced("rules") /\ Replaced("audit") /\ Replaced("key") /\ Replaced("stable")
    BY <1>1, OrderIs
  <1>3. \A k \in Endpoints : tree[k] = made[k]
    BY <1>2 DEF Replaced, Endpoints
  <1>4. tree.key = "key" /\ tree.audit[made.feed.sequence] = made.audit[made.feed.sequence]
    BY <1>1, <1>2 DEF Replaced
  <1>5. [k \in Endpoints |-> tree[k]] = [k \in Endpoints |-> made[k]]
    BY <1>3
  <1>6. tree.feed = made.feed /\ tree.rules = made.rules /\ tree.stable = made.stable
    BY <1>3 DEF Endpoints
  <1>7. Coherent(tree)
    BY <1>1, <1>3, <1>4, <1>5, <1>6 DEF Coherent
  <1> QED BY <1>4, <1>6, <1>7

(* The four parts of the invariant about what is published.                *)
WorldOK == PublishedCoherent /\ RecordIsWhole /\ AllOnRecord /\ MainIsNewest

(* Main has no new publication; old trees go round.                        *)
LEMMA WorldGoesRound ==
  ASSUME PublicationInv, head'.tree = head.tree, head'.catalog \in {head.catalog, head.catalog + 1},
         deploying' \subseteq deploying \cup {head.tree}, site' \in deploying \cup {site},
         UNCHANGED accepted
  PROVE  WorldOK'
  <1>1. PublishedCoherent' /\ MainIsNewest'
    BY DEF PublicationInv, PublishedCoherent, MainIsNewest, Published
  <1>2. \A n \in Numbers, k \in Endpoints : Bound(n, k)' = Bound(n, k)
    BY DEF Bound
  <1>3. RecordIsWhole'
    <2>1. Published(head.tree) \subseteq Numbers /\ Published(head.tree)' = Published(head.tree)
      BY DEF Published
    <2>2. \A n \in Published(head.tree) : Bound(n, "feed").data <= head'.catalog
      <3> SUFFICES ASSUME NEW n \in Published(head.tree) PROVE Bound(n, "feed").data <= head'.catalog
        OBVIOUS
      <3>1. Bound(n, "feed") \in Document /\ Bound(n, "feed").data <= head.catalog
        BY DEF PublicationInv, RecordIsWhole, Endpoints
      <3>2. Bound(n, "feed").data \in Nat /\ head.catalog \in Nat
        BY <3>1 DEF Document, PublicationInv, Types
      <3> QED BY <3>1, <3>2
    <2> QED BY <1>2, <2>1, <2>2 DEF PublicationInv, RecordIsWhole, Endpoints
  <1>4. AllOnRecord'
    BY DEF PublicationInv, AllOnRecord, OnRecord, Bound, Published
  <1> QED BY <1>1, <1>3, <1>4 DEF WorldOK

(* Main gets a publication: what it had on record stays, what is new is    *)
(* of a greater sequence and of no older a catalog.                        *)
LEMMA WorldIsPushed ==
  ASSUME PublicationInv, Push, NEW n \in Numbers, n = made.feed.sequence
  PROVE  /\ WorldOK'
         /\ \A m \in Published(head.tree) : head'.tree.audit[m] = head.tree.audit[m]
  <1>1. /\ place = "ci" /\ step = "replace" /\ left = <<>> /\ head = base
        /\ head'.tree = tree /\ head'.catalog = edition
        /\ UNCHANGED <<deploying, site, accepted>>
    BY DEF Push
  <1>2. Types /\ BuildGoesOn /\ JobGoesOn /\ TreeOK(tree)
    BY <1>1 DEF PublicationInv, Types
  <1>3. /\ Coherent(tree) /\ tree.feed = made.feed /\ tree.audit[n] = made.audit[n]
        /\ made.feed.data = edition /\ edition \notin BadInputs /\ head.catalog <= edition
        /\ \A m \in Published(head.tree) : m < n
        /\ \A m \in Numbers \ {n} : tree.audit[m] = head.tree.audit[m]
    BY <1>1, <1>2, TreeIsBuilt DEF JobGoesOn, BuildGoesOn
  <1>4. /\ n \notin Published(head.tree) /\ Published(head.tree) \subseteq Numbers
        /\ Published(tree) = Published(head.tree) \cup {n}
    BY <1>2, <1>3 DEF Published, Coherent, Numbers
  <1>5. /\ \A m \in Published(head.tree), k \in Endpoints : Bound(m, k)' = Bound(m, k)
        /\ \A k \in Endpoints : Bound(n, k)' = tree[k]
    BY <1>1, <1>3, <1>4 DEF Bound, Coherent
  <1>6. PublishedCoherent' /\ MainIsNewest'
    <2>1. PublishedCoherent'
      <3>1. ASSUME NEW t \in {tree, site} \cup deploying, t # NoTree
            PROVE  Coherent(t) /\ t.feed.data \notin BadInputs
        BY <1>3, <3>1 DEF PublicationInv, PublishedCoherent
      <3>2. \A t \in {tree, site} \cup deploying : t # NoTree => Coherent(t)' /\ t.feed.data \notin BadInputs
        BY <3>1 DEF Coherent
      <3> QED BY <1>1, <3>2 DEF PublishedCoherent
    <2>2. \A m \in Published(tree) : m <= n
      BY <1>3, <1>4 DEF Numbers
    <2> QED BY <1>1, <1>3, <2>1, <2>2 DEF MainIsNewest, Published
  <1>7. RecordIsWhole'
    <2>1. \A k \in Endpoints : tree[k] \in Document /\ tree[k].sequence = n
      BY <1>2, <1>3 DEF TreeOK, Coherent, Endpoints
    <2>2. \A m \in Published(head.tree) :
             /\ \A k \in Endpoints : Bound(m, k) \in Document /\ Bound(m, k).sequence = m
             /\ Bound(m, "feed").data <= head.catalog
      BY DEF PublicationInv, RecordIsWhole
    <2>3. \A m \in Published(head.tree) : Bound(m, "feed").data <= edition
      <3> SUFFICES ASSUME NEW m \in Published(head.tree) PROVE Bound(m, "feed").data <= edition
        OBVIOUS
      <3>1. Bound(m, "feed").data \in Nat /\ head.catalog \in Nat /\ edition \in Nat
        BY <1>2, <2>2 DEF Document, Endpoints, Types
      <3> QED BY <1>3, <2>2, <3>1
    <2>4. tree["feed"].data = edition /\ edition \in Nat
      BY <1>2, <1>3 DEF Types
    <2>5. /\ \A m \in Published(tree), k \in Endpoints :
                 Bound(m, k)' \in Document /\ Bound(m, k)'.sequence = m
          /\ \A m \in Published(tree) : Bound(m, "feed")'.data <= edition
      BY <1>4, <1>5, <2>1, <2>2, <2>3, <2>4 DEF Endpoints
    <2>6. ASSUME NEW l \in Published(tree), NEW m \in Published(tree), m <= l
          PROVE  Bound(m, "feed")'.data <= Bound(l, "feed")'.data
      <3>1. CASE l = n
        BY <1>5, <2>4, <2>5, <3>1 DEF Endpoints
      <3>2. CASE l # n
        <4>1. l \in Published(head.tree) /\ m \in Published(head.tree)
          BY <1>3, <1>4, <2>6, <3>2 DEF Numbers
        <4> QED BY <1>5, <2>6, <4>1 DEF PublicationInv, RecordIsWhole, Endpoints
      <3> QED BY <3>1, <3>2
    <2> QED BY <1>1, <2>5, <2>6 DEF RecordIsWhole, Published
  <1>8. AllOnRecord'
    <2>1. \A d, k : k \in Endpoints /\ OnRecord(d, k) => OnRecord(d, k)'
      BY <1>1, <1>4, <1>5 DEF OnRecord, Published
    <2>2. \A k \in Endpoints : tree[k].sequence = n /\ Bound(n, k)' = tree[k]
      BY <1>3, <1>5 DEF Coherent, Endpoints
    <2>3. \A d, k : k \in Endpoints /\ d = tree[k] => OnRecord(d, k)'
      BY <1>1, <1>4, <2>2 DEF OnRecord, Published
    <2>4. \A d : \A k \in Endpoints :
             (\E t \in {head.tree, site} \cup deploying : d = t[k]) \/ (\E c \in Clients : d = accepted[c][k])
                 => OnRecord(d, k)
      BY DEF PublicationInv, AllOnRecord
    <2> SUFFICES ASSUME NEW k \in Endpoints, NEW d,
                        \/ \E t \in {head.tree, site}' \cup deploying' : d = t[k]
                        \/ \E c \in Clients : d = accepted'[c][k]
                 PROVE  OnRecord(d, k)'
      BY DEF AllOnRecord, OnRecord, Bound
    <2> QED BY <1>1, <2>1, <2>3, <2>4
  <1>9. \A m \in Published(head.tree) : head'.tree.audit[m] = head.tree.audit[m]
    BY <1>1, <1>3, <1>4
  <1> QED BY <1>6, <1>7, <1>8, <1>9 DEF WorldOK

LEMMA WorldStep == PublicationInv /\ [Next]_vars => WorldOK'
  <1> SUFFICES ASSUME PublicationInv, [Next]_vars PROVE WorldOK'
    OBVIOUS
  <1>1. CASE UNCHANGED world
    BY <1>1, WorldGoesRound DEF world
  <1>2. CASE Turns \/ Replace \/ Tick \/ UNCHANGED vars
    <2>1. UNCHANGED <<head, deploying, site, accepted>>
      BY <1>2, TurnsEffect DEF Replace, Tick, vars, world
    <2> QED BY <2>1, WorldGoesRound
  <1>3. CASE Push
    <2>1. made.feed.sequence \in Numbers
      BY <1>3, StagedSequence DEF Push, PublicationInv
    <2> QED BY <1>3, <2>1, WorldIsPushed
  <1>4. CASE PagesStarts \/ DeployStarts \/ DeployEnds
    <2>1. /\ UNCHANGED <<head, accepted>>
          /\ deploying' \subseteq deploying \cup {head.tree} /\ site' \in deploying \cup {site}
      BY <1>4 DEF PagesStarts, DeployStarts, DeployEnds
    <2> QED BY <2>1, WorldGoesRound
  <1>5. CASE Commit
    <2>1. head'.tree = head.tree /\ head'.catalog = head.catalog + 1
      BY <1>5 DEF Commit, PublicationInv, Types
    <2> QED BY <1>5, <2>1, WorldGoesRound DEF Commit
  <1>6. CASE Reads
    <2>1. PICK c \in Clients, k \in Endpoints : ClientReads(c, k)
      BY <1>6 DEF Reads
    <2>2. UNCHANGED <<head, deploying, site>>
      BY <2>1 DEF ClientReads
    <2>3. PublishedCoherent' /\ RecordIsWhole' /\ MainIsNewest'
      BY <2>2 DEF PublicationInv, PublishedCoherent, RecordIsWhole, MainIsNewest, Published, Bound
    <2>4. \A x \in Clients, y \in Endpoints : accepted'[x][y] \in {accepted[x][y], site[y]}
      BY <2>1 DEF ClientReads, PublicationInv, Types
    <2>5. AllOnRecord'
      <3>1. \A d, y : OnRecord(d, y)' <=> OnRecord(d, y)
        BY <2>2 DEF OnRecord, Bound, Published
      <3> SUFFICES ASSUME NEW y \in Endpoints, NEW d,
                          \/ \E t \in {head.tree, site}' \cup deploying' : d = t[y]
                          \/ \E x \in Clients : d = accepted'[x][y]
                   PROVE  OnRecord(d, y)'
        BY DEF AllOnRecord, OnRecord, Bound
      <3> QED BY <2>2, <2>4, <3>1 DEF PublicationInv, AllOnRecord
    <2> QED BY <2>3, <2>5 DEF WorldOK
  <1>7. ASSUME NEW n \in Numbers, NEW g \in Times, NEW e \in Times, Begins(n, g, e)
        PROVE  WorldOK'
    BY <1>1, <1>7, BeginsEffect
  <1> QED BY <1>2, <1>3, <1>4, <1>5, <1>6, <1>7, BuilderSteps DEF Moves

LEMMA Publishing == Spec => []PublicationInv
  <1>1. Init => PublicationInv
    BY PublicationInit
  <1>2. PublicationInv /\ [Next]_vars => PublicationInv'
    BY TypesStep, BuildStep, JobStep, LocalStep, WorldStep DEF PublicationInv, WorldOK
  <1> QED BY <1>1, <1>2, PTL DEF Spec

-----------------------------------------------------------------------------
(* The types: every file of a tree is a document of its endpoint, every    *)
(* audit record is filed under its own sequence (build_publication).       *)
THEOREM PublicationTypes == Spec => []TypeOK
  <1>1. PublicationInv => TypeOK
    BY DEF PublicationInv, Types, TreeOK, TypeOK
  <1> QED BY <1>1, Publishing, PTL

(* The output tree is what was verified in the staging directory once the  *)
(* last file has been replaced; main, the deployments and the site hold    *)
(* whole publications only; a sequence stands for one document, among main,*)
(* site and clients; and main has the documents of its greatest record.    *)
THEOREM PublicationSound == Spec => []PublishedIsSound
  <1>1. PublicationInv => PublishedIsSound
    <2> SUFFICES ASSUME PublicationInv PROVE PublishedIsSound
      OBVIOUS
    <2>1. BuiltVerifies
      BY TreeIsBuilt DEF PublicationInv, BuiltVerifies
    <2>2. OneDocumentPerSequence
      <3> SUFFICES ASSUME NEW k \in Endpoints,
                          NEW d1, NEW d2, d1 # Absent, d2 # Absent, d1.sequence = d2.sequence,
                          d1 \in {head.tree[k], site[k]} \cup {accepted[c][k] : c \in Clients},
                          d2 \in {head.tree[k], site[k]} \cup {accepted[c][k] : c \in Clients}
                   PROVE  d1 = d2
        BY DEF OneDocumentPerSequence
      <3>1. OnRecord(d1, k) /\ OnRecord(d2, k)
        BY DEF PublicationInv, AllOnRecord
      <3> QED BY <3>1 DEF OnRecord
    <2>3. ServedIsNewest
      BY LatestIs, MainWasMain DEF ServedIsNewest
    <2> QED BY <2>1, <2>2, <2>3 DEF PublicationInv, PublishedIsSound
  <1> QED BY <1>1, Publishing, PTL

(* A client takes a newer sequence only, and of what main has on record a  *)
(* newer sequence never has an older catalog: no deployment of an older    *)
(* tree, and no job, takes a client back. Audit records stand, on main and *)
(* in the tree of an operator who builds again.                            *)
THEOREM PublicationForward == Spec => NothingGoesBack
  <1>1. PublicationInv /\ [Next]_vars =>
            [ \A c \in Clients :
                accepted[c]["feed"] # Absent =>
                    accepted'[c]["feed"].data >= accepted[c]["feed"].data ]_vars
    <2> SUFFICES ASSUME PublicationInv, [Next]_vars, NEW c \in Clients, accepted[c]["feed"] # Absent
                 PROVE  accepted'[c]["feed"].data >= accepted[c]["feed"].data
      OBVIOUS
    <2>1. accepted[c]["feed"].data \in Nat
      BY DEF PublicationInv, Types, Document, Endpoints
    <2>2. CASE UNCHANGED accepted
      BY <2>1, <2>2
    <2>3. CASE Reads
      <3>1. PICK x \in Clients, k \in Endpoints : ClientReads(x, k)
        BY <2>3 DEF Reads
      <3>2. CASE x = c /\ k = "feed"
        <4> DEFINE d == accepted[c]["feed"]
                   e == site["feed"]
        <4>1. accepted'[c]["feed"] = e /\ e # Absent /\ e.sequence > d.sequence
          BY <3>1, <3>2 DEF ClientReads, PublicationInv, Types, Endpoints
        <4>2. OnRecord(d, "feed") /\ OnRecord(e, "feed")
          BY DEF PublicationInv, AllOnRecord, Endpoints
        <4>3. /\ d.sequence \in Published(head.tree) /\ e.sequence \in Published(head.tree)
              /\ Bound(d.sequence, "feed") = d /\ Bound(e.sequence, "feed") = e
              /\ d.sequence <= e.sequence
          BY <4>1, <4>2 DEF OnRecord, Published, Numbers
        <4>4. d.data <= e.data
          BY <4>3 DEF PublicationInv, RecordIsWhole
        <4>5. e.data \in Nat
          BY <4>1 DEF PublicationInv, Types, TreeOK, Document, Endpoints
        <4> QED BY <2>1, <4>1, <4>4, <4>5
      <3>3. CASE ~(x = c /\ k = "feed")
        BY <2>1, <3>1, <3>3 DEF ClientReads, PublicationInv, Types, Endpoints
      <3> QED BY <3>2, <3>3
    <2>4. ASSUME NEW n \in Numbers, NEW g \in Times, NEW e \in Times, Begins(n, g, e)
          PROVE  UNCHANGED accepted
      BY <2>4, BeginsEffect DEF world
    <2>5. CASE Turns \/ Replace \/ Push \/ Moves \/ UNCHANGED vars
      BY <2>2, <2>5, TurnsEffect DEF Replace, Push, Moves, PagesStarts, DeployStarts, DeployEnds,
         Commit, Tick, vars, world
    <2> QED BY <2>2, <2>3, <2>4, <2>5, BuilderSteps
  <1>2. PublicationInv /\ [Next]_vars =>
            [ \A n \in Numbers :
                /\ head.tree.audit[n] # Absent => head'.tree.audit[n] = head.tree.audit[n]
                /\ place = "local" /\ tree.audit[n] # Absent => tree'.audit[n] = tree.audit[n]
            ]_vars
    <2> SUFFICES ASSUME PublicationInv, [Next]_vars, NEW n \in Numbers
                 PROVE  /\ head.tree.audit[n] # Absent => head'.tree.audit[n] = head.tree.audit[n]
                        /\ place = "local" /\ tree.audit[n] # Absent => tree'.audit[n] = tree.audit[n]
      OBVIOUS
    <2>1. ASSUME NEW m \in Numbers, NEW g \in Times, NEW e \in Times, Begins(m, g, e)
          PROVE  UNCHANGED <<head, tree>>
      BY <2>1, BeginsEffect DEF world
    <2>2. CASE Turns
      BY <2>2, TurnsEffect DEF world
    <2>3. CASE Replace
      BY <2>3, ReplaceEffect DEF PublicationInv, world
    <2>4. CASE Push
      <3>1. made.feed.sequence \in Numbers /\ UNCHANGED tree
        BY <2>4, StagedSequence DEF Push, PublicationInv
      <3> QED BY <2>4, <3>1, WorldIsPushed DEF Published
    <2>5. CASE DeployStarts
      BY <2>5 DEF DeployStarts, PublicationInv, LocalStays
    <2>6. CASE Commit
      BY <2>6 DEF Commit, PublicationInv, Types, workspace
    <2>7. CASE PagesStarts \/ DeployEnds \/ Tick \/ Reads \/ UNCHANGED vars
      BY <2>7 DEF PagesStarts, DeployEnds, Tick, Reads, ClientReads, vars, workspace, world
    <2> QED BY <2>1, <2>2, <2>3, <2>4, <2>5, <2>6, <2>7, BuilderSteps DEF Moves
  <1> QED BY <1>1, <1>2, Publishing, PTL DEF Spec, NothingGoesBack, ClientCatalogForward, AuditStands
=============================================================================
