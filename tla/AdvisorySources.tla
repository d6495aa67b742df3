--------------------------- MODULE AdvisorySources ---------------------------
(***************************************************************************)
(* From the body a public source serves to the advisory catalog            *)
(* (src/zsec_shield/intelligence.py). The four parsers differ in where the *)
(* version of a result comes from, which records make an advisory, and     *)
(* what refuses a whole body; texts, products, severities and URLs are     *)
(* left out. A body is a record of the times it declares (first and        *)
(* current release), the month it is about and its items; its digest is    *)
(* the name of the document and the number of its edition, for two         *)
(* editions never have the same bytes. The digest of a catalog is the      *)
(* catalog.                                                                *)
(***************************************************************************)
EXTENDS Integers, Sequences, FiniteSets, FiniteSetsExt

CONSTANTS
    Editions,           \* of each document, the bodies its server has had, in order
    Now,                \* the time of the runs
    Nothing             \* no file, no result

Months == {"jan", "feb"}
Documents == {"kev", "usn", "apple", "index"} \cup Months
SourceIds == {"cisa-kev", "microsoft-msrc", "ubuntu-usn", "apple-security"}

(* An item: id, date, date of its last revision (0: none), whether it      *)
(* concerns a desktop, is a livepatch notice (LSN), and has a link.        *)
Body == [first : Nat, declared : Nat, month : Months,
         items : SUBSET [id : Nat, date : Nat, revised : Nat, desktop : BOOLEAN,
                         livepatch : BOOLEAN, linked : BOOLEAN]]

ASSUME SourceAssumption ==
    /\ Editions \in [Documents -> Seq(Body)]
    /\ Now \in Nat

BodyOf(d, e) == Editions[d][e]

Advisory(s, i, published, modified, digest) ==
    [id |-> i.id, source |-> s, published |-> published, modified |-> modified, body |-> digest]

(* What an advisory says, whatever bytes it was read from.                 *)
Meaning(a) ==
    [id |-> a.id, source |-> a.source, published |-> a.published, modified |-> a.modified]

Summary(version, digest, advisories) ==
    [version |-> version, body |-> digest, count |-> Cardinality(advisories),
     contribution |-> advisories, meaning |-> {Meaning(a) : a \in advisories}]

Result(version, digest, advisories) ==
    [summary |-> Summary(version, digest, advisories), advisories |-> advisories]

Desktop(items) == {i \in items : i.desktop}

(* An identifier that occurs twice refuses the whole body.                 *)
Repeated(items) == \E i, j \in items : i.id = j.id /\ i # j

(* The version is the release time the catalog declares; there must be a   *)
(* record, not necessarily one about a desktop.                            *)
ParseKev(d, e) ==
    LET b == BodyOf(d, e)  digest == <<d, e>>
    IN  IF b.items = {} \/ Repeated(b.items) THEN Nothing
        ELSE Result(b.declared, digest,
                    {Advisory("cisa-kev", i, i.date, i.date, digest) : i \in Desktop(b.items)})

(* The newest monthly document that is released already.                   *)
LatestMonth(e) ==
    LET listed == {i \in BodyOf("index", e).items : i.date <= Now}
        MonthOf(i) == IF i.id = 1 THEN "jan" ELSE "feb"
    IN  IF listed = {} THEN Nothing
        ELSE MonthOf(CHOOSE i \in listed : \A j \in listed : j.date <= i.date)

(* The version is the document's, its digest that of both bodies. A record *)
(* is dated by the document's first release and its own last revision.     *)
ParseMsrc(index, d, e) ==
    LET b == BodyOf(d, e)
        digest == <<"index", index, d, e>>
        Revised(i) == IF i.revised = 0 THEN b.first ELSE i.revised
    IN  IF b.month # d \/ Repeated(b.items) THEN Nothing
        ELSE Result(b.declared, digest,
                    {Advisory("microsoft-msrc", i, b.first, Revised(i), digest) :
                        i \in Desktop(b.items)})

(* The version is the date of the newest notice, desktop or not. Livepatch *)
(* notices only have their identity checked; of nothing else there is no   *)
(* newest one, and the run ends in an exception.                           *)
ParseUsn(d, e) ==
    LET b == BodyOf(d, e)  digest == <<d, e>>  notices == {i \in b.items : ~i.livepatch}
    IN  IF notices = {} \/ Repeated(b.items) THEN Nothing
        ELSE Result(Max({i.date : i \in notices}), digest,
                    {Advisory("ubuntu-usn", i, i.date, i.date, digest) : i \in Desktop(notices)})

(* The version is the newest desktop release or the Last-Modified header.  *)
(* A release that has no link yet counts, but makes no advisory.           *)
ParseApple(d, e) ==
    LET b == BodyOf(d, e)  digest == <<d, e>>
        rows == Desktop(b.items)
        linked == {i \in rows : i.linked}
    IN  IF linked = {} \/ Repeated(linked) THEN Nothing
        ELSE Result(Max({i.date : i \in rows} \cup {b.declared}), digest,
                    {Advisory("apple-security", i, i.date, i.date, digest) : i \in linked})

(* The result of source s from the editions got of its documents.          *)
ParseSource(s, got) ==
    IF s = "cisa-kev" THEN ParseKev("kev", got["kev"])
    ELSE IF s = "ubuntu-usn" THEN ParseUsn("usn", got["usn"])
    ELSE IF s = "apple-security" THEN ParseApple("apple", got["apple"])
    ELSE LET m == LatestMonth(got["index"]) IN ParseMsrc(got["index"], m, got[m])

-----------------------------------------------------------------------------
(* Sources and advisories of a catalog must agree with each other.         *)
ValidCatalog(c) ==
    /\ c.advisories # {}
    /\ c.generated = Max({c.sources[s].version : s \in DOMAIN c.sources})
    /\ \A a, b \in c.advisories : a.id = b.id /\ a.source = b.source => a = b
    /\ \A a \in c.advisories :
           /\ a.source \in DOMAIN c.sources
           /\ a.body = c.sources[a.source].body
           /\ a.modified >= a.published
    /\ \A s \in DOMAIN c.sources :
           LET mine == {a \in c.advisories : a.source = s}
           IN  /\ c.sources[s].count = Cardinality(mine)
               /\ c.sources[s].contribution = mine
               /\ c.sources[s].meaning = {Meaning(a) : a \in mine}

(* The catalog of the results; Nothing when validation refuses it.         *)
BuildCatalog(results) ==
    LET c == [generated |-> Max({results[s].summary.version : s \in DOMAIN results}),
              sources |-> [s \in DOMAIN results |-> results[s].summary],
              advisories |-> UNION {results[s].advisories : s \in DOMAIN results}]
    IN  IF ValidCatalog(c) THEN c ELSE Nothing

(* The rollback state binds the catalog and each source's version.         *)
StateOf(c) ==
    [digest |-> c,
     sources |-> [s \in DOMAIN c.sources |->
                     [version |-> c.sources[s].version, meaning |-> c.sources[s].meaning]]]

(* No source disappears, goes back, or changes its meaning in place.       *)
NoRollback(old, new) ==
    /\ DOMAIN old \subseteq DOMAIN new
    /\ \A s \in DOMAIN old :
           /\ new[s].version >= old[s].version
           /\ new[s].version = old[s].version => new[s].meaning = old[s].meaning
=============================================================================
