----------------------------- MODULE Publication -----------------------------
(***************************************************************************)
(* The signed static update service (scripts/publish_update_service.py and *)
(* the workflows that run it). `build` makes four signed documents and the *)
(* public key, verifies them in a staging directory and replaces the files *)
(* of the output tree one by one. In CI the tree is a checkout: a job      *)
(* refreshes the catalog, selects a sequence, builds, commits and pushes,  *)
(* and the pushed tree is deployed whole; the workspace of a job that      *)
(* fails is thrown away. Locally, an operator builds into a tree that      *)
(* keeps whatever an interrupted build left. Clients read one document at  *)
(* a time from whatever tree is deployed.                                  *)
(*                                                                         *)
(* Contents are numbers (of a catalog, of a release), times are numbers, a *)
(* signature is that of the one key: a document is the record it signs.    *)
(***************************************************************************)
EXTENDS Integers, FiniteSets, FiniteSetsExt, Sequences

CONSTANTS
    Clients,
    Absent,                 \* no document
    BadInputs,              \* editions of the catalog that validation refuses
    Validity, Skew,         \* longest window; tolerated clock difference
    MaxTime, MaxSequence,   \* bounds: the clock; sequence numbers
    MaxCatalog, MaxBuilds   \* bounds: editions of the catalog; builds begun

ASSUME PublicationAssumption ==
    /\ Validity \in Nat \ {0} /\ Skew \in Nat
    /\ MaxTime \in Nat /\ MaxSequence \in Nat \ {0}
    /\ MaxCatalog \in Nat \ {0} /\ MaxBuilds \in Nat
    /\ BadInputs \subseteq 2..MaxCatalog

VARIABLES
    place,      \* "ci" or "local": where the builds of this behaviour run
    now,        \* the clock
    head,       \* the main branch: [tree, catalog]
    tree,       \* the output tree the builder works on
    edition,    \* the catalog in the workspace
    step,       \* where the builder is
    made,       \* the staged files of the build
    left,       \* the files still to be replaced
    base,       \* the commit that the job checked out
    triggered,  \* the commit that has triggered a job which waits
    deploying,  \* trees checked out by deployments that have not finished
    site,       \* the tree that is served
    accepted,   \* per client and endpoint, the newest document accepted
    builds      \* history: builds begun

commits == <<base, triggered>>
workspace == <<tree, edition, step, made, left, commits>>
world == <<now, head, deploying, site, accepted>>
vars == <<place, workspace, world, builds>>

Numbers == 1..MaxSequence
Times == 0..MaxTime
Endpoints == {"feed", "rules", "stable"}

Document == [kind : Endpoints, sequence : Numbers, generated : Int, expires : Int,
             data : 0..MaxCatalog]

(* An audit record binds the digests of the three documents.               *)
Audit == [sequence : Numbers, generated : Int, expires : Int,
          bound : [Endpoints -> Document]]

NoTree == [feed |-> Absent, rules |-> Absent, stable |-> Absent, key |-> Absent,
           audit |-> [n \in Numbers |-> Absent]]

(* Main before the first publication; no commit is checked out either.     *)
First == [tree |-> NoTree, catalog |-> 1]

Init ==
    /\ place \in {"ci", "local"}
    /\ now = 0
    /\ head = First
    /\ tree = NoTree /\ edition = 1
    /\ step = "idle" /\ made = NoTree /\ left = <<>> /\ base = First /\ triggered = Absent
    /\ deploying = {} /\ site = NoTree
    /\ accepted = [c \in Clients |-> [k \in Endpoints |-> Absent]]
    /\ builds = 0

-----------------------------------------------------------------------------
(* _validate_common; the lower bound of the sequence is in Sequences.      *)
WindowAccepted(generated, expires) ==
    /\ expires > generated
    /\ expires - generated <= Validity
    /\ generated <= now + Skew
    /\ expires > now

(* Catalog, release and rules have the one shape and policy; the rules are *)
(* the canonical test rules.                                               *)
InputsAccepted == edition \notin BadInputs

Signed(kind, n, generated, expires, data) ==
    [kind |-> kind, sequence |-> n, generated |-> generated, expires |-> expires, data |-> data]

(* The files of one publication. Rules and release never change here.      *)
Stage(n, generated, expires) ==
    LET bound == [k \in Endpoints |->
                    Signed(k, n, generated, expires, IF k = "feed" THEN edition ELSE 0)]
        audit == [sequence |-> n, generated |-> generated, expires |-> expires, bound |-> bound]
    IN  [feed |-> bound["feed"], rules |-> bound["rules"], stable |-> bound["stable"],
         key |-> "key", audit |-> [NoTree.audit EXCEPT ![n] = audit]]

(* The part of verify_tree that does not look at the clock.                *)
Coherent(t) ==
    /\ \A k \in Endpoints : t[k] # Absent /\ t[k].kind = k
    /\ LET n == t.feed.sequence  audit == t.audit[n]
       IN  /\ t.stable.sequence = n /\ t.rules.sequence = n
           /\ audit # Absent /\ audit.sequence = n
           /\ audit.generated = t.feed.generated /\ audit.expires = t.feed.expires
           /\ audit.bound = [k \in Endpoints |-> t[k]]

VerifyTree(t, n) ==
    /\ Coherent(t)
    /\ t.feed.sequence = n
    /\ \A k \in Endpoints : WindowAccepted(t[k].generated, t[k].expires)

(* An existing audit record of the sequence must have the same bytes.      *)
Refused(staged, n) == tree.audit[n] # Absent /\ tree.audit[n] # staged.audit[n]

(* Everything build does before it replaces the first file.                *)
BuildOf(n, generated, expires) ==
    LET staged == Stage(n, generated, expires)
    IN  /\ WindowAccepted(generated, expires)
        /\ InputsAccepted
        /\ VerifyTree(staged, n)
        /\ ~Refused(staged, n)
        /\ made' = staged
        /\ left' = <<"feed", "rules", "audit", "key", "stable">>

(* Mutant: the documents of two endpoints are exchanged.                   *)
ReplaceMixed ==
    LET file == Head(left)
        from == IF file = "rules" THEN "stable" ELSE IF file = "stable" THEN "rules" ELSE file
    IN  /\ step = "replace" /\ left # <<>>
        /\ tree' = IF file = "audit"
                   THEN [tree EXCEPT !.audit[made.feed.sequence] = made.audit[made.feed.sequence]]
                   ELSE [tree EXCEPT ![file] = made[from]]
        /\ left' = Tail(left)
        /\ UNCHANGED <<place, edition, step, made, commits, world, builds>>

Replace ==
    LET file == Head(left)
    IN  /\ step = "replace" /\ left # <<>>
        /\ tree' = IF file = "audit"
                   THEN [tree EXCEPT !.audit[made.feed.sequence] = made.audit[made.feed.sequence]]
                   ELSE [tree EXCEPT ![file] = made[file]]
        /\ left' = Tail(left)
        /\ UNCHANGED <<place, edition, step, made, commits, world, builds>>

-----------------------------------------------------------------------------
(* A local build, with any arguments, of the catalog as it is by then.     *)
LocalBuild(n, generated, expires) ==
    /\ place = "local" /\ step = "idle" /\ builds < MaxBuilds
    /\ BuildOf(n, generated, expires)
    /\ step' = "replace" /\ builds' = builds + 1
    /\ UNCHANGED <<place, tree, edition, commits, world>>

LocalEdit ==
    /\ place = "local" /\ step = "idle" /\ edition < MaxCatalog
    /\ edition' = edition + 1
    /\ UNCHANGED <<place, tree, step, made, left, commits, world, builds>>

LocalDone ==
    /\ place = "local" /\ step = "replace" /\ left = <<>>
    /\ step' = "idle" /\ made' = NoTree
    /\ UNCHANGED <<place, tree, edition, left, commits, world, builds>>

(* The build is interrupted, or cannot write: what was replaced stays.     *)
LocalInterrupt ==
    /\ place = "local" /\ step = "replace" /\ left # <<>>
    /\ step' = "idle" /\ made' = NoTree /\ left' = <<>>
    /\ UNCHANGED <<place, tree, edition, commits, world, builds>>

-----------------------------------------------------------------------------
(* A push, the schedule or an operator triggers a job for the commit that  *)
(* main has then. One runs at a time; of those that wait the last remains. *)
Trigger ==
    /\ place = "ci" /\ builds < MaxBuilds /\ triggered # head
    /\ triggered' = head
    /\ UNCHANGED <<place, tree, edition, step, made, left, base, world, builds>>

(* It checks out that commit, which main may have left behind by then.     *)
Checkout ==
    /\ place = "ci" /\ step = "idle" /\ builds < MaxBuilds /\ triggered # Absent
    /\ tree' = triggered.tree /\ edition' = triggered.catalog
    /\ base' = triggered /\ triggered' = Absent
    /\ step' = "refresh" /\ builds' = builds + 1
    /\ UNCHANGED <<place, made, left, world>>

(* The advisory sources give a newer catalog, the same one, or fail.       *)
Refresh ==
    /\ step = "refresh" /\ step' = "select"
    /\ edition' \in {edition} \cup ((edition + 1)..MaxCatalog \ BadInputs)
    /\ UNCHANGED <<place, tree, made, left, commits, world, builds>>

Published(t) == {n \in Numbers : t.audit[n] # Absent}
Latest(t) == IF Published(t) = {} THEN 0 ELSE Max(Published(t))

(* The next sequence or a requested one; the arguments of a manual run.    *)
Select(n, generated, expires) ==
    /\ step = "select"
    /\ n > Latest(tree)
    /\ BuildOf(n, generated, expires)
    /\ step' = "replace"
    /\ UNCHANGED <<place, tree, edition, commits, world, builds>>

(* The push succeeds if main is still the commit that was checked out.     *)
Push ==
    /\ place = "ci" /\ step = "replace" /\ left = <<>>
    /\ head = base
    /\ head' = [tree |-> tree, catalog |-> edition]
    /\ step' = "deploy"
    /\ UNCHANGED <<place, tree, edition, made, left, commits, now, deploying, site, accepted, builds>>

(* The workspace of a job that is over is gone.                            *)
Gone ==
    /\ step' = "idle" /\ tree' = NoTree /\ made' = NoTree
    /\ edition' = First.catalog /\ base' = First

(* Mutant: what was built is deployed, pushed or not.                      *)
JobFailsDeploys ==
    /\ place = "ci" /\ step \in {"refresh", "select", "replace"}
    /\ deploying' = IF step = "replace" /\ left = <<>> THEN deploying \cup {tree} ELSE deploying
    /\ Gone /\ left' = <<>>
    /\ UNCHANGED <<place, triggered, now, head, site, accepted, builds>>

(* A step of the job fails, or the push does because main has moved.       *)
JobFails ==
    /\ place = "ci" /\ step \in {"refresh", "select", "replace"}
    /\ Gone /\ left' = <<>>
    /\ UNCHANGED <<place, triggered, world, builds>>

(* The deployment job checks out main as it is then, or fails.             *)
DeployStarts ==
    /\ step = "deploy"
    /\ deploying' \in {deploying, deploying \cup {head.tree}}
    /\ Gone
    /\ UNCHANGED <<place, left, triggered, now, head, site, accepted, builds>>

(* The other workflow deploys main whenever a page was pushed, in a        *)
(* concurrency group of its own.                                           *)
PagesStarts ==
    /\ place = "ci" /\ head.tree \notin deploying
    /\ deploying' = deploying \cup {head.tree}
    /\ UNCHANGED <<place, workspace, now, head, site, accepted, builds>>

DeployEnds ==
    \E t \in deploying :
        /\ deploying' = deploying \ {t}
        /\ site' \in {t, site}
        /\ UNCHANGED <<place, workspace, now, head, accepted, builds>>

(* Someone pushes to main: a newer catalog.                                *)
Commit ==
    /\ place = "ci" /\ head.catalog < MaxCatalog
    /\ head' = [head EXCEPT !.catalog = @ + 1]
    /\ UNCHANGED <<place, workspace, now, deploying, site, accepted, builds>>

Tick ==
    /\ now < MaxTime
    /\ now' = now + 1
    /\ UNCHANGED <<place, workspace, head, deploying, site, accepted, builds>>

(* Mutant: a client takes whatever is valid.                               *)
ClientReadsAny(c, k) ==
    /\ place = "ci" /\ site[k] # Absent
    /\ WindowAccepted(site[k].generated, site[k].expires)
    /\ site[k] # accepted[c][k]
    /\ accepted' = [accepted EXCEPT ![c][k] = site[k]]
    /\ UNCHANGED <<place, workspace, now, head, deploying, site, builds>>

(* A client takes a valid document of a greater sequence than any before.  *)
ClientReads(c, k) ==
    /\ place = "ci" /\ site[k] # Absent
    /\ WindowAccepted(site[k].generated, site[k].expires)
    /\ accepted[c][k] # Absent => site[k].sequence > accepted[c][k].sequence
    /\ accepted' = [accepted EXCEPT ![c][k] = site[k]]
    /\ UNCHANGED <<place, workspace, now, head, deploying, site, builds>>

Local ==
    \/ \E n \in Numbers, g \in Times, e \in Times : LocalBuild(n, g, e)
    \/ LocalEdit \/ LocalDone \/ LocalInterrupt

Workflow ==
    \/ Trigger \/ Checkout \/ Refresh \/ Push \/ JobFails \/ DeployStarts \/ PagesStarts \/ DeployEnds
    \/ \E n \in Numbers, g \in Times, e \in Times : Select(n, g, e)
    \/ Commit

Next ==
    \/ Local \/ Replace \/ Workflow \/ Tick
    \/ \E c \in Clients, k \in Endpoints : ClientReads(c, k)

Spec == Init /\ [][Next]_vars

-----------------------------------------------------------------------------
TypeOK ==
    /\ place \in {"ci", "local"} /\ now \in Times
    /\ \A t \in {tree, made, head.tree, base.tree, site} \cup deploying :
           /\ \A k \in Endpoints : t[k] # Absent => t[k] \in Document /\ t[k].kind = k
           /\ \A n \in Numbers : t.audit[n] # Absent => t.audit[n].sequence = n
    /\ edition \in 1..MaxCatalog /\ head.catalog \in 1..MaxCatalog
    /\ triggered # Absent => triggered.catalog \in 1..head.catalog
    /\ step \in {"idle", "refresh", "select", "replace", "deploy"}
    /\ \A c \in Clients, k \in Endpoints :
           accepted[c][k] # Absent => accepted[c][k] \in Document /\ accepted[c][k].kind = k
    /\ builds \in 0..MaxBuilds

(* What was verified was the staging directory; when the last file has     *)
(* been replaced the output tree is as good, whatever interrupted builds   *)
(* of other sequences had left in it.                                      *)
BuiltVerifies ==
    step = "replace" /\ left = <<>> =>
        Coherent(tree) /\ tree.feed = made.feed /\ tree.key = "key"

(* Nobody is ever served half a publication, or one of refused inputs.     *)
PublishedCoherent ==
    \A t \in {head.tree, site} \cup deploying :
        t # NoTree => Coherent(t) /\ t.feed.data \notin BadInputs

(* A sequence number never stands for two documents, among all that main,  *)
(* the site and the clients hold, although jobs fail after they have       *)
(* signed, deployments overtake each other, and others push to main.       *)
OneDocumentPerSequence ==
    \A k \in Endpoints :
        LET there == {head.tree[k], site[k]} \cup {accepted[c][k] : c \in Clients}
        IN  \A d1, d2 \in there \ {Absent} : d1.sequence = d2.sequence => d1 = d2

(* The documents on main are those of the greatest sequence on record.     *)
ServedIsNewest == head.tree # NoTree => head.tree.feed.sequence = Latest(head.tree)

(* The catalog of a client only moves forward, also when a deployment puts *)
(* an older tree back.                                                     *)
ClientCatalogForward ==
    [][ \A c \in Clients :
            accepted[c]["feed"] # Absent =>
                accepted'[c]["feed"].data >= accepted[c]["feed"].data ]_vars

(* A record of what was published is never changed, on main or in a local  *)
(* tree.                                                                   *)
AuditStands ==
    [][ \A n \in Numbers :
            /\ head.tree.audit[n] # Absent => head'.tree.audit[n] = head.tree.audit[n]
            /\ place = "local" /\ tree.audit[n] # Absent => tree'.audit[n] = tree.audit[n]
      ]_vars

(* What is built, published and deployed, at every moment: all four.       *)
PublishedIsSound ==
    BuiltVerifies /\ PublishedCoherent /\ OneDocumentPerSequence /\ ServedIsNewest

(* Neither a client nor the record of publications ever goes back.         *)
NothingGoesBack == ClientCatalogForward /\ AuditStands
=============================================================================
