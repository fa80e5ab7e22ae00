-------------------------- MODULE ReleasePublishing --------------------------
(***************************************************************************)
(* From the repository to a release the platform serves: work trees are    *)
(* prepared and built, a build is packaged as a candidate, publisher       *)
(* processes sign candidates into directories, and the platform registers  *)
(* what it finds there.  All of it is run by hand, so nothing is fair: a   *)
(* process that is killed is one that takes no further step.               *)
(*                                                                         *)
(* Contents stand for their hashes.  A build is one step: nobody prepares  *)
(* a tree while its compiler runs.  There is one profile and one channel,  *)
(* and one review for each candidate.                                      *)
(*                                                                         *)
(* The repository has three kinds of inputs.  Prepare stages the overlay,  *)
(* which package compares, and the rest of firmware/ (wifi-overlay, patch  *)
(* tools, partitions, sdkconfig), which it does not; a build converts the  *)
(* brand images, which it does not compare either.                         *)
(***************************************************************************)
EXTENDS Integers, FiniteSets

CONSTANTS
    Tree,          \* work directories
    Trust,         \* public trust inputs a build may be given
    Publisher,     \* publisher processes
    Output,        \* directories releases are published to
    Budgets,       \* the bounds, see Budget
    None

\* What may still happen: trees prepared, edits of the repository, packages
\* begun, and faults, which are interrupted preparations, failed writes and
\* releases that lose their trust.
Budget == [prepares: Nat, edits: Nat, packages: Nat, faults: Nat]

ASSUME ReleaseAssumption ==
    /\ Trust \subseteq [sequence: Nat, testing: BOOLEAN]
    /\ Budgets \subseteq Budget
    /\ None \notin Output \cup Tree \cup Trust
    /\ None \notin Nat

Version == Nat

Inputs == [overlay: Version, rest: Version, images: Version]

\* What an app was compiled from.
App == [source: Inputs, header: Trust]

\* A review bundle: the copied app and trust, and what its manifest records:
\* repository_inputs, and of the generated_inputs the overlay of the tree.
\* disturbed is history: the tree, or the overlay of the repository, changed
\* while it was packaged.
Candidate == [app: App, trust: Trust, header: Trust, recorded_app: App,
              recorded_trust: Trust, inputs: Inputs, prepared: Version,
              verified: BOOLEAN, disturbed: BOOLEAN]

ASSUME ReleaseNone == None \notin App /\ None \notin Candidate

VARIABLES
    repo,        \* the versions of the inputs in the repository
    trees,       \* the work directories
    packaging,   \* the package run in progress
    candidates,  \* the review bundles it left
    publishers,  \* the publisher processes
    ledger,      \* releases whose sequence is reserved
    outputs,     \* the published directories
    registering, \* a register_firmware_release run, between its read and its save
    rows,        \* FirmwareRelease rows
    distrusted,  \* releases verify_envelope refuses: expired, revoked, below the floor
    budget       \* a member of Budgets, and what is left of it

buildVars    == <<repo, trees, packaging, candidates>>
publishVars  == <<publishers, ledger, outputs>>
platformVars == <<registering, rows, distrusted>>
vars         == <<buildVars, publishVars, platformVars, budget>>

\* newer: the inputs that are newer than the app of the last build.
WorkTree == [patched: {"no", "partly", "yes"},
             overlay: Version \cup {None}, rest: Version, header: Trust \cup {None},
             trust: Trust \cup {None}, newer: SUBSET {"overlay", "header"},
             app: App \cup {None}]

Packaging == [tree: Tree, seen: WorkTree, repo: Inputs, verified: BOOLEAN]

\* A file that is missing or incomplete is None.
Directory == [exists: BOOLEAN, app: App \cup {None}, archive: Candidate \cup {None},
              marker: Candidate \cup {None}]

Process == [at: {"idle", "validated", "reserved", "made", "app", "archived",
                 "marked", "done", "removing", "failed"},
            release: Candidate \cup {None}, output: Output \cup {None}]

Row == [release: Candidate, directory: Output, revoked: BOOLEAN]

ReleaseTypeOK ==
    /\ repo \in Inputs
    /\ trees \in [Tree -> WorkTree]
    /\ packaging \in Packaging \cup {None}
    /\ candidates \subseteq Candidate
    /\ publishers \in [Publisher -> Process]
    /\ ledger \subseteq Candidate
    /\ outputs \in [Output -> Directory]
    /\ registering \in [release: Candidate, directory: Output] \cup {None}
    /\ rows \subseteq Row
    /\ distrusted \subseteq Candidate
    /\ budget \in Budget

Original == [overlay |-> 0, rest |-> 0, images |-> 0]

Checkout == [patched |-> "no", overlay |-> None, rest |-> 0, header |-> None,
             trust |-> None, newer |-> {}, app |-> None]
Built(k) == [patched |-> "yes", overlay |-> 0, rest |-> 0, header |-> k, trust |-> k,
             newer |-> {}, app |-> [source |-> Original, header |-> k]]
Absent   == [exists |-> FALSE, app |-> None, archive |-> None, marker |-> None]

\* Work begins with fresh checkouts, or with trees that were built alike.
Init ==
    /\ repo = Original
    /\ \E tree \in {Checkout} \cup {Built(k) : k \in Trust} : trees = [t \in Tree |-> tree]
    /\ packaging = None
    /\ candidates = {}
    /\ publishers = [p \in Publisher |-> [at |-> "idle", release |-> None, output |-> None]]
    /\ ledger = {}
    /\ outputs = [o \in Output |-> Absent]
    /\ registering = None
    /\ rows = {}
    /\ distrusted = {}
    /\ budget \in Budgets

Spend(what) == budget[what] > 0 /\ budget' = [budget EXCEPT ![what] = @ - 1]

----------------------------------------------------------------------------
(* The repository and the work trees.                                      *)

Edit ==
    /\ Spend("edits")
    /\ \E part \in {"overlay", "rest", "images"} : repo' = [repo EXCEPT ![part] = @ + 1]
    /\ UNCHANGED <<trees, packaging, candidates, publishVars, platformVars>>

\* Mutation of Staged: the copy keeps the timestamps of the repository.
StagedAsDated(tree) ==
    [tree EXCEPT !.patched = "yes", !.rest = repo.rest, !.overlay = repo.overlay]

\* Restaged files are newer than every object compiled before.
Staged(tree) ==
    [tree EXCEPT !.patched = "yes", !.rest = repo.rest, !.overlay = repo.overlay,
                 !.newer = @ \cup {"overlay"}]

Trusting(tree, k) == [tree EXCEPT !.header = k, !.newer = @ \cup {"header"}]

\* prepare patches a checkout once, then stages the rest, the overlay and the
\* trust.
Prepare(t, k) ==
    /\ Spend("prepares")
    /\ trees[t].patched # "partly"
    /\ trees' = [trees EXCEPT ![t] = [Trusting(Staged(@), k) EXCEPT !.trust = k]]
    /\ UNCHANGED <<repo, packaging, candidates, publishVars, platformVars>>

\* It is interrupted: while it patches, which no later run repairs, before or
\* after the overlay, or between the two files of the trust.
PrepareInterrupted(t, k) ==
    /\ Spend("faults")
    /\ trees[t].patched # "partly"
    /\ \/ /\ trees[t].patched = "no"
          /\ trees' = [trees EXCEPT ![t].patched = "partly"]
       \/ trees' = [trees EXCEPT ![t].rest = repo.rest]
       \/ trees' = [trees EXCEPT ![t] = Staged(@)]
       \/ trees' = [trees EXCEPT ![t] = Trusting(Staged(@), k)]
    /\ UNCHANGED <<repo, packaging, candidates, publishVars, platformVars>>

\* The compiler takes what changed since the last build; of the overlay and the
\* trust the rest is old objects.
Compiled(tree) ==
    LET stale(input) == tree.app # None /\ input \notin tree.newer IN
    [source |-> [overlay |-> IF stale("overlay") THEN tree.app.source.overlay
                                                 ELSE tree.overlay,
                 rest    |-> tree.rest,
                 images  |-> repo.images],
     header |-> IF stale("header") THEN tree.app.header ELSE tree.header]

\* The images are converted anew by every build.
Build(t) ==
    /\ trees[t].patched = "yes"
    /\ trees[t].header # None
    /\ trees' = [trees EXCEPT ![t].app = Compiled(trees[t]), ![t].newer = {}]
    /\ UNCHANGED <<repo, packaging, candidates, publishVars, platformVars, budget>>

----------------------------------------------------------------------------
(* package: it checks the tree, then copies it.                            *)

\* Mutation of Packageable: the times are not compared.
PackageableUndated(tree) ==
    /\ tree.app # None
    /\ tree.header = tree.trust
    /\ tree.overlay = repo.overlay

Packageable(tree) ==
    /\ tree.app # None
    /\ tree.header = tree.trust
    /\ tree.overlay = repo.overlay
    /\ tree.newer = {}

\* compare: another tree has built the same app.
Reproduced(t) == \E s \in Tree \ {t} : trees[s].app = trees[t].app

CheckPackage(t) ==
    /\ Spend("packages")
    /\ packaging = None
    /\ Packageable(trees[t])
    /\ \E verified \in BOOLEAN :
          /\ verified => Reproduced(t)
          /\ packaging' = [tree |-> t, seen |-> trees[t], repo |-> repo, verified |-> verified]
    /\ UNCHANGED <<repo, trees, candidates, publishVars, platformVars>>

Packaged ==
    LET tree == trees[packaging.tree] IN
    [app            |-> tree.app,
     trust          |-> tree.trust,
     header         |-> tree.header,
     recorded_app   |-> packaging.seen.app,
     recorded_trust |-> packaging.seen.trust,
     inputs         |-> repo,
     prepared       |-> tree.overlay,
     verified       |-> packaging.verified,
     disturbed      |-> tree # packaging.seen \/ repo.overlay # packaging.repo.overlay]

WritePackage ==
    /\ packaging # None
    /\ candidates' = candidates \cup {Packaged}
    /\ packaging' = None
    /\ UNCHANGED <<repo, trees, publishVars, platformVars, budget>>

\* It stops halfway: a bundle without its manifest cannot be published.
PackageStops ==
    /\ packaging # None
    /\ packaging' = None
    /\ UNCHANGED <<repo, trees, candidates, publishVars, platformVars, budget>>

----------------------------------------------------------------------------
(* publish: everything is read and signed first, then the sequence is      *)
(* reserved, then the directory is made and filled.                        *)

\* Mutation of Publishable: the recorded app is not compared.
PublishableUnread(c) ==
    /\ c.trust = c.recorded_trust
    /\ c.header = c.trust
    /\ ~c.trust.testing
    /\ c.trust.sequence > 0
    /\ c.verified

Publishable(c) ==
    /\ c.trust = c.recorded_trust
    /\ c.header = c.trust
    /\ ~c.trust.testing
    /\ c.trust.sequence > 0
    /\ c.app = c.recorded_app
    /\ c.verified

Sequence(release) == release.trust.sequence

At(p, step) == publishers[p].at = step

Release(p) == publishers[p].release
Into(p)    == publishers[p].output

Goes(p, step) == publishers' = [publishers EXCEPT ![p].at = step]

Validate(p, c, o) ==
    /\ At(p, "idle")
    /\ Publishable(c)
    /\ ~outputs[o].exists
    /\ publishers' = [publishers EXCEPT ![p] = [at |-> "validated", release |-> c, output |-> o]]
    /\ UNCHANGED <<buildVars, ledger, outputs, platformVars, budget>>

\* Mutation of Reserved: a sequence is taken once its release is published.
ReservedWhenMarked == {outputs[o].marker : o \in Output} \ {None}

Reserved == ledger

\* The transaction of the ledger; what it reserves stays reserved.
Reserve(p) ==
    /\ At(p, "validated")
    /\ IF \A r \in Reserved : Sequence(r) < Sequence(Release(p))
       THEN ledger' = ledger \cup {Release(p)} /\ Goes(p, "reserved")
       ELSE Goes(p, "failed") /\ UNCHANGED ledger
    /\ UNCHANGED <<buildVars, outputs, platformVars, budget>>

\* Mutation of Refused: the new directory is made inside the try.
RefusedInTry == "removing"

\* Where a publisher goes that finds its directory made by another.
Refused == "failed"

MakeDirectory(p) ==
    /\ At(p, "reserved")
    /\ IF outputs[Into(p)].exists
       THEN Goes(p, Refused) /\ UNCHANGED outputs
       ELSE Goes(p, "made") /\ outputs' = [outputs EXCEPT ![Into(p)].exists = TRUE]
    /\ UNCHANGED <<buildVars, ledger, platformVars, budget>>

\* Mutation of Order: the envelope is written first.
OrderMarkerFirst == [made |-> "marker", app |-> "app", archived |-> "archive"]

\* What is written at each step.
Order == [made |-> "app", app |-> "archive", archived |-> "marker"]
After == [made |-> "app", app |-> "archived", archived |-> "marked"]

\* Mutation of File: the archive is written under the name of the app.
FileSwapped(p, name) == IF name = "archive" THEN Release(p).app ELSE Release(p)

File(p, name) == IF name = "app" THEN Release(p).app ELSE Release(p)

Write(p) ==
    /\ publishers[p].at \in DOMAIN Order
    /\ LET name == Order[publishers[p].at] IN
       outputs' = [outputs EXCEPT ![Into(p)] = [@ EXCEPT ![name] = File(p, name)]]
    /\ Goes(p, After[publishers[p].at])
    /\ UNCHANGED <<buildVars, ledger, platformVars, budget>>

Finish(p) ==
    /\ At(p, "marked")
    /\ Goes(p, "done")
    /\ UNCHANGED <<buildVars, ledger, outputs, platformVars, budget>>

\* A write fails, or a change of mode after the marker.
Fail(p) ==
    /\ publishers[p].at \in DOMAIN Order \cup {"marked"}
    /\ Spend("faults")
    /\ Goes(p, "removing")
    /\ UNCHANGED <<buildVars, ledger, outputs, platformVars>>

\* rmtree takes the files in any order, then the directory.
Remove(p) ==
    /\ At(p, "removing")
    /\ \E name \in {"app", "archive", "marker"} :
          /\ outputs[Into(p)][name] # None
          /\ outputs' = [outputs EXCEPT ![Into(p)] = [@ EXCEPT ![name] = None]]
    /\ UNCHANGED <<buildVars, publishers, ledger, platformVars, budget>>

Removed(p) ==
    /\ At(p, "removing")
    /\ outputs[Into(p)] \in {Absent, [Absent EXCEPT !.exists = TRUE]}
    /\ outputs' = [outputs EXCEPT ![Into(p)] = Absent]
    /\ Goes(p, "failed")
    /\ UNCHANGED <<buildVars, ledger, platformVars, budget>>

----------------------------------------------------------------------------
(* The platform.                                                           *)

\* read_release: the envelope verifies, and the artifacts are those it names.
Readable(o) ==
    LET release == outputs[o].marker IN
    /\ release # None
    /\ release \notin distrusted
    /\ outputs[o].app = release.app
    /\ outputs[o].archive = release

RegisterReads(o) ==
    /\ registering = None
    /\ Readable(o)
    /\ registering' = [release |-> outputs[o].marker, directory |-> o]
    /\ UNCHANGED <<buildVars, publishVars, rows, distrusted, budget>>

\* A row of the same release or of the same sequence is left as it is.
RegisterSaves ==
    /\ registering # None
    /\ rows' = IF \E row \in rows : Sequence(row.release) = Sequence(registering.release)
               THEN rows
               ELSE rows \cup {[release   |-> registering.release,
                                directory |-> registering.directory, revoked |-> FALSE]}
    /\ registering' = None
    /\ UNCHANGED <<buildVars, publishVars, distrusted, budget>>

\* revoke_firmware_release.
Revoke(row) ==
    /\ ~row.revoked
    /\ rows' = (rows \ {row}) \cup {[row EXCEPT !.revoked = TRUE]}
    /\ UNCHANGED <<buildVars, publishVars, registering, distrusted, budget>>

\* The approval expires, or the trust registry drops the release or its key.
Distrust(release) ==
    /\ Spend("faults")
    /\ distrusted' = distrusted \cup {release}
    /\ UNCHANGED <<buildVars, publishVars, registering, rows>>

\* verified_release: the platform offers, and serves, the app of this row.
Served(row) ==
    /\ ~row.revoked
    /\ Readable(row.directory)
    /\ outputs[row.directory].marker = row.release

----------------------------------------------------------------------------
Engineer == \/ Edit
            \/ \E t \in Tree, k \in Trust : Prepare(t, k) \/ PrepareInterrupted(t, k)
            \/ \E t \in Tree : Build(t) \/ CheckPackage(t)
            \/ WritePackage
            \/ PackageStops

Publishes(p) == \/ \E c \in candidates, o \in Output : Validate(p, c, o)
                \/ Reserve(p)
                \/ MakeDirectory(p)
                \/ Write(p)
                \/ Finish(p)
                \/ Fail(p)
                \/ Remove(p)
                \/ Removed(p)

Platform == \/ \E o \in Output : RegisterReads(o)
            \/ RegisterSaves
            \/ \E row \in rows : Revoke(row)
            \/ \E row \in rows : Distrust(row.release)

Next == \/ Engineer
        \/ \E p \in Publisher : Publishes(p)
        \/ Platform

Spec == Init /\ [][Next]_vars
----------------------------------------------------------------------------
(* What must hold.                                                         *)

Marked == {o \in Output : outputs[o].marker # None}

\* No two directories are ever published with the same sequence, and each has
\* reserved its own in the ledger, however publishers race, fail and stop
\* between the reservation and the marker (publish).
SequenceIsUnique ==
    /\ \A o \in Marked : outputs[o].marker \in ledger
    /\ \A o, q \in Marked :
          Sequence(outputs[o].marker) = Sequence(outputs[q].marker) => o = q

\* A directory with the signed envelope holds the app and the archive the
\* envelope names, unless its publisher failed and was removing it.
MarkerIsLast ==
    \A o \in Marked :
        \/ outputs[o].app = outputs[o].marker.app /\ outputs[o].archive = outputs[o].marker
        \/ \E p \in Publisher : At(p, "removing") /\ Into(p) = o

\* What the platform serves was compiled with the sequence it is signed for,
\* from a real trust input, and from the overlay the manifest records unless that
\* changed while the manifest was written.  Of the other inputs the manifest may
\* record newer ones than were compiled: package does not compare them.
ServedAsBuilt ==
    \A row \in rows : Served(row) =>
        LET app == outputs[row.directory].app IN
        /\ app.header.sequence = Sequence(row.release)
        /\ ~app.header.testing
        /\ ~row.release.disturbed => /\ row.release.inputs.overlay = app.source.overlay
                                     /\ row.release.prepared = app.source.overlay

\* A finished publication is never changed or removed, whichever other
\* publisher was given the same directory (publish).
DoneStays ==
    [][\A p \in Publisher : At(p, "done") => outputs'[Into(p)] = outputs[Into(p)]]_vars
=============================================================================
