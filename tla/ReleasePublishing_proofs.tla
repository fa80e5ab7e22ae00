----------------------- MODULE ReleasePublishing_proofs -----------------------
(***************************************************************************)
(* Proofs about ReleasePublishing, for any trees, trust inputs, publishers *)
(* and directories: type correctness; what one directory and one sequence  *)
(* number are to the publisher that holds them, from which the published   *)
(* releases are unique, complete and lasting; and what a candidate says of *)
(* its app, from which the platform serves what was built.                 *)
(***************************************************************************)
EXTENDS ReleasePublishing, TLAPS

----------------------------------------------------------------------------
(* Type correctness.  A tree that was patched has an overlay, and one that *)
(* was built has a trust, so what is packaged is never missing.            *)

Complete(tree) ==
    /\ tree.patched = "yes" => tree.overlay # None
    /\ tree.app # None => tree.patched = "yes" /\ tree.header # None

Whole(tree) == Complete(tree) /\ tree.app # None /\ tree.trust # None

Sound ==
    /\ ReleaseTypeOK
    /\ \A t \in Tree : Complete(trees[t])
    /\ packaging # None => Whole(packaging.seen) /\ Whole(trees[packaging.tree])

LEMMA Paying ==
    ASSUME budget \in Budget, NEW what \in {"prepares", "edits", "packages", "faults"}, Spend(what)
    PROVE  budget' \in Budget
  BY DEF Budget, Spend

LEMMA Going ==
    ASSUME publishers \in [Publisher -> Process], NEW p \in Publisher, NEW step,
           step \in {"idle", "validated", "reserved", "made", "app", "archived",
                     "marked", "done", "removing", "failed"},
           Goes(p, step)
    PROVE  publishers' \in [Publisher -> Process]
  BY DEF Goes, Process

LEMMA SoundInit == Init => Sound
  <1> SUFFICES ASSUME Init PROVE Sound
    OBVIOUS
  <1> USE ReleaseAssumption DEF Init
  <1>1. Checkout \in WorkTree /\ Complete(Checkout)
    BY DEF Checkout, WorkTree, Complete, Version
  <1>2. ASSUME NEW k \in Trust PROVE Built(k) \in WorkTree /\ Complete(Built(k))
    BY DEF Built, Original, WorkTree, Complete, App, Inputs, Version
  <1>3. trees \in [Tree -> WorkTree] /\ \A t \in Tree : Complete(trees[t])
    BY <1>1, <1>2
  <1>4. publishers \in [Publisher -> Process]
    BY DEF Process
  <1>5. outputs \in [Output -> Directory]
    BY DEF Absent, Directory
  <1>6. budget \in Budget /\ repo \in Inputs
    BY DEF Original, Inputs, Version
  <1> QED
    BY <1>3, <1>4, <1>5, <1>6 DEF Sound, ReleaseTypeOK

\* What the operations on a tree leave of it.
LEMMA TreeOperations ==
    ASSUME repo \in Inputs, NEW tree \in WorkTree, Complete(tree), NEW k \in Trust
    PROVE  /\ Staged(tree) \in WorkTree /\ Complete(Staged(tree))
           /\ Trusting(Staged(tree), k) \in WorkTree /\ Complete(Trusting(Staged(tree), k))
           /\ [Trusting(Staged(tree), k) EXCEPT !.trust = k] \in WorkTree
           /\ Complete([Trusting(Staged(tree), k) EXCEPT !.trust = k])
           /\ tree.patched = "no" =>
                 /\ [tree EXCEPT !.patched = "partly"] \in WorkTree
                 /\ Complete([tree EXCEPT !.patched = "partly"])
           /\ [tree EXCEPT !.rest = repo.rest] \in WorkTree
           /\ Complete([tree EXCEPT !.rest = repo.rest])
           /\ Whole(tree) => /\ Whole(Staged(tree))
                             /\ Whole(Trusting(Staged(tree), k))
                             /\ Whole([Trusting(Staged(tree), k) EXCEPT !.trust = k])
                             /\ Whole([tree EXCEPT !.rest = repo.rest])
                             /\ tree.patched # "no"
  <1> USE ReleaseAssumption, ReleaseNone
  <1>0. repo.overlay \in Version /\ repo.rest \in Version /\ None \notin Version
    BY DEF Inputs, Version
  <1>1. Staged(tree) \in WorkTree /\ Complete(Staged(tree)) /\ (Whole(tree) => Whole(Staged(tree)))
    BY <1>0 DEF Staged, WorkTree, Complete, Whole
  <1>2. ASSUME NEW w \in WorkTree, Complete(w)
        PROVE  /\ Trusting(w, k) \in WorkTree /\ Complete(Trusting(w, k))
               /\ Whole(w) => Whole(Trusting(w, k))
    BY <1>2 DEF Trusting, WorkTree, Complete, Whole
  <1>3. ASSUME NEW w \in WorkTree, Complete(w)
        PROVE  /\ [w EXCEPT !.trust = k] \in WorkTree /\ Complete([w EXCEPT !.trust = k])
               /\ Whole(w) => Whole([w EXCEPT !.trust = k])
    BY <1>3 DEF WorkTree, Complete, Whole
  <1>4. tree.patched = "no" => /\ [tree EXCEPT !.patched = "partly"] \in WorkTree
                               /\ Complete([tree EXCEPT !.patched = "partly"])
    BY DEF WorkTree, Complete
  <1>5. Whole(tree) => tree.patched # "no"
    BY DEF Whole, Complete
  <1>6. /\ [tree EXCEPT !.rest = repo.rest] \in WorkTree
        /\ Complete([tree EXCEPT !.rest = repo.rest])
        /\ Whole(tree) => Whole([tree EXCEPT !.rest = repo.rest])
    BY <1>0 DEF WorkTree, Complete, Whole
  <1> QED
    BY <1>1, <1>2, <1>3, <1>4, <1>5, <1>6

LEMMA BuildOperation ==
    ASSUME repo \in Inputs, NEW tree \in WorkTree, Complete(tree), tree.patched = "yes",
           tree.header # None
    PROVE  /\ Compiled(tree) \in App
           /\ [tree EXCEPT !.app = Compiled(tree), !.newer = {}] \in WorkTree
           /\ Complete([tree EXCEPT !.app = Compiled(tree), !.newer = {}])
           /\ Whole(tree) => Whole([tree EXCEPT !.app = Compiled(tree), !.newer = {}])
  <1> USE ReleaseAssumption, ReleaseNone
  <1>1. Compiled(tree) \in App
    <2>1. /\ tree.overlay \in Version /\ tree.rest \in Version /\ tree.header \in Trust
          /\ repo.images \in Version
      BY DEF WorkTree, Complete, Inputs
    <2>2. tree.app # None => tree.app.source.overlay \in Version /\ tree.app.header \in Trust
      BY DEF WorkTree, App, Inputs
    <2>3. PICK v \in Version :
             v = IF tree.app # None /\ "overlay" \notin tree.newer
                 THEN tree.app.source.overlay ELSE tree.overlay
      BY <2>1, <2>2
    <2>4. PICK h \in Trust :
             h = IF tree.app # None /\ "header" \notin tree.newer
                 THEN tree.app.header ELSE tree.header
      BY <2>1, <2>2
    <2>5. Compiled(tree) = [source |-> [overlay |-> v, rest |-> tree.rest,
                                        images |-> repo.images], header |-> h]
      BY <2>3, <2>4 DEF Compiled
    <2> QED
      BY <2>1, <2>5 DEF App, Inputs
  <1>2. [tree EXCEPT !.app = Compiled(tree), !.newer = {}] \in WorkTree
    BY <1>1 DEF WorkTree
  <1>3. Compiled(tree) # None
    BY <1>1
  <1> QED
    BY <1>1, <1>2, <1>3 DEF WorkTree, Complete, Whole

LEMMA PackagedType ==
    ASSUME Sound, packaging # None
    PROVE  Packaged \in Candidate
  <1> DEFINE tree == trees[packaging.tree]
  <1>1. packaging \in Packaging /\ packaging.tree \in Tree
    BY DEF Sound, ReleaseTypeOK, Packaging
  <1>2. tree \in WorkTree /\ packaging.seen \in WorkTree /\ packaging.verified \in BOOLEAN
    BY <1>1 DEF Sound, ReleaseTypeOK, Packaging
  <1>3. /\ tree.app \in App /\ tree.trust \in Trust /\ tree.header \in Trust
        /\ tree.overlay \in Version
    BY <1>2 DEF Sound, Whole, Complete, WorkTree
  <1>4. packaging.seen.app \in App /\ packaging.seen.trust \in Trust
    BY <1>2 DEF Sound, Whole, Complete, WorkTree
  <1>5. repo \in Inputs
    BY DEF Sound, ReleaseTypeOK
  <1> QED
    BY <1>2, <1>3, <1>4, <1>5 DEF Packaged, Candidate

LEMMA EngineerSound ==
    ASSUME Sound, Engineer
    PROVE  Sound'
  <1> USE ReleaseAssumption, ReleaseNone
  <1>0. /\ repo \in Inputs /\ trees \in [Tree -> WorkTree] /\ packaging \in Packaging \cup {None}
        /\ candidates \subseteq Candidate /\ budget \in Budget
        /\ \A t \in Tree : trees[t] \in WorkTree /\ Complete(trees[t])
        /\ packaging # None =>
              /\ packaging.tree \in Tree /\ packaging.seen \in WorkTree
              /\ Whole(packaging.seen) /\ Whole(trees[packaging.tree])
    BY DEF Sound, ReleaseTypeOK, Packaging
  <1>1. CASE Edit
    <2>1. repo' \in Inputs
      <3>1. PICK part \in {"overlay", "rest", "images"} : repo' = [repo EXCEPT ![part] = @ + 1]
        BY <1>1 DEF Edit
      <3> QED
        BY <1>0, <3>1 DEF Inputs, Version
    <2>2. budget' \in Budget
      BY <1>0, <1>1, Paying DEF Edit
    <2> QED
      BY <2>1, <2>2, <1>1 DEF Sound, ReleaseTypeOK, Edit, publishVars, platformVars
  <1>2. ASSUME NEW t \in Tree, NEW new \in WorkTree, Complete(new),
               Whole(trees[t]) => Whole(new), trees' = [trees EXCEPT ![t] = new],
               budget' \in Budget,
               UNCHANGED <<repo, packaging, candidates, publishVars, platformVars>>
        PROVE  Sound'
    <2>1. trees' \in [Tree -> WorkTree] /\ \A s \in Tree : Complete(trees'[s])
      BY <1>0, <1>2
    <2>2. packaging' # None => Whole(packaging'.seen) /\ Whole(trees'[packaging'.tree])
      BY <1>0, <1>2
    <2>3. ReleaseTypeOK'
      BY <1>2, <2>1 DEF Sound, ReleaseTypeOK, publishVars, platformVars
    <2> QED
      BY <2>1, <2>2, <2>3 DEF Sound
  <1>3. ASSUME NEW t \in Tree, NEW k \in Trust, Prepare(t, k) PROVE Sound'
    <2> DEFINE new == [Trusting(Staged(trees[t]), k) EXCEPT !.trust = k]
    <2>1. new \in WorkTree /\ Complete(new) /\ (Whole(trees[t]) => Whole(new))
      BY <1>0, TreeOperations
    <2>2. trees' = [trees EXCEPT ![t] = new]
      BY <1>0, <1>3 DEF Prepare
    <2>3. budget' \in Budget /\ UNCHANGED <<repo, packaging, candidates, publishVars, platformVars>>
      BY <1>0, <1>3, Paying DEF Prepare
    <2> HIDE DEF new
    <2> QED
      BY <1>2, <2>1, <2>2, <2>3
  <1>4. ASSUME NEW t \in Tree, NEW k \in Trust, PrepareInterrupted(t, k) PROVE Sound'
    <2>1. budget' \in Budget /\ UNCHANGED <<repo, packaging, candidates, publishVars, platformVars>>
      BY <1>0, <1>4, Paying DEF PrepareInterrupted
    <2>2. ASSUME trees[t].patched = "no", trees' = [trees EXCEPT ![t].patched = "partly"]
          PROVE  Sound'
      <3> DEFINE new == [trees[t] EXCEPT !.patched = "partly"]
      <3>1. new \in WorkTree /\ Complete(new) /\ ~Whole(trees[t])
        BY <1>0, <2>2, TreeOperations
      <3>2. trees' = [trees EXCEPT ![t] = new]
        BY <1>0, <2>2
      <3> HIDE DEF new
      <3> QED
        BY <1>2, <2>1, <3>1, <3>2
    <2>3. ASSUME trees' = [trees EXCEPT ![t] = Staged(@)] PROVE Sound'
      <3> DEFINE new == Staged(trees[t])
      <3>1. new \in WorkTree /\ Complete(new) /\ (Whole(trees[t]) => Whole(new))
        BY <1>0, TreeOperations
      <3>2. trees' = [trees EXCEPT ![t] = new]
        BY <1>0, <2>3
      <3> HIDE DEF new
      <3> QED
        BY <1>2, <2>1, <3>1, <3>2
    <2>4. ASSUME trees' = [trees EXCEPT ![t] = Trusting(Staged(@), k)] PROVE Sound'
      <3> DEFINE new == Trusting(Staged(trees[t]), k)
      <3>1. new \in WorkTree /\ Complete(new) /\ (Whole(trees[t]) => Whole(new))
        BY <1>0, TreeOperations
      <3>2. trees' = [trees EXCEPT ![t] = new]
        BY <1>0, <2>4
      <3> HIDE DEF new
      <3> QED
        BY <1>2, <2>1, <3>1, <3>2
    <2>5. ASSUME trees' = [trees EXCEPT ![t].rest = repo.rest] PROVE Sound'
      <3> DEFINE new == [trees[t] EXCEPT !.rest = repo.rest]
      <3>1. new \in WorkTree /\ Complete(new) /\ (Whole(trees[t]) => Whole(new))
        BY <1>0, TreeOperations
      <3>2. trees' = [trees EXCEPT ![t] = new]
        BY <1>0, <2>5
      <3> HIDE DEF new
      <3> QED
        BY <1>2, <2>1, <3>1, <3>2
    <2> QED
      BY <1>4, <2>2, <2>3, <2>4, <2>5 DEF PrepareInterrupted
  <1>5. ASSUME NEW t \in Tree, Build(t) PROVE Sound'
    <2> DEFINE new == [trees[t] EXCEPT !.app = Compiled(trees[t]), !.newer = {}]
    <2>1. new \in WorkTree /\ Complete(new) /\ (Whole(trees[t]) => Whole(new))
      BY <1>0, <1>5, BuildOperation DEF Build
    <2>2. trees' = [trees EXCEPT ![t] = new]
      BY <1>0, <1>5 DEF Build
    <2>3. budget' \in Budget /\ UNCHANGED <<repo, packaging, candidates, publishVars, platformVars>>
      BY <1>0, <1>5 DEF Build
    <2> HIDE DEF new
    <2> QED
      BY <1>2, <2>1, <2>2, <2>3
  <1>6. ASSUME NEW t \in Tree, CheckPackage(t) PROVE Sound'
    <2>1. trees[t].app # None /\ trees[t].header = trees[t].trust
      BY <1>6 DEF CheckPackage, Packageable
    <2>2. Whole(trees[t])
      BY <1>0, <2>1 DEF Whole, Complete
    <2>3. PICK verified \in BOOLEAN :
             packaging' = [tree |-> t, seen |-> trees[t], repo |-> repo, verified |-> verified]
      BY <1>6 DEF CheckPackage
    <2>4. packaging' \in Packaging
      BY <1>0, <2>3 DEF Packaging
    <2>5. UNCHANGED <<repo, trees, candidates, publishVars, platformVars>> /\ budget' \in Budget
      BY <1>0, <1>6, Paying DEF CheckPackage
    <2>6. Whole(packaging'.seen) /\ Whole(trees'[packaging'.tree])
      BY <2>2, <2>3, <2>5
    <2> QED
      BY <1>0, <2>4, <2>5, <2>6 DEF Sound, ReleaseTypeOK, publishVars, platformVars
  <1>7. CASE WritePackage
    <2>1. Packaged \in Candidate
      BY <1>7, PackagedType DEF WritePackage
    <2> QED
      BY <1>0, <1>7, <2>1 DEF Sound, ReleaseTypeOK, WritePackage, publishVars, platformVars
  <1>8. CASE PackageStops
    BY <1>0, <1>8 DEF Sound, ReleaseTypeOK, PackageStops, publishVars, platformVars
  <1> QED
    BY <1>1, <1>3, <1>4, <1>5, <1>6, <1>7, <1>8 DEF Engineer

----------------------------------------------------------------------------
(* A publisher that is past the idle state has a release it may publish.   *)

Employment ==
    \A p \in Publisher : ~At(p, "idle") =>
        Release(p) \in candidates /\ Into(p) \in Output /\ Publishable(Release(p))

LEMMA EngineerEmploys ==
    ASSUME Employment, Engineer
    PROVE  Employment'
  <1>1. publishers' = publishers /\ candidates \subseteq candidates'
    BY DEF Engineer, Edit, Prepare, PrepareInterrupted, Build, CheckPackage, WritePackage,
           PackageStops, publishVars
  <1> QED
    BY <1>1 DEF Employment, At, Release, Into, Publishable

LEMMA PublisherEmploys ==
    ASSUME Employment, publishers \in [Publisher -> Process], NEW p \in Publisher, Publishes(p)
    PROVE  Employment'
  <1>1. UNCHANGED candidates
    BY DEF Publishes, Validate, Reserve, MakeDirectory, Write, Finish, Fail, Remove, Removed, buildVars
  <1>2. ASSUME NEW step, Goes(p, step), ~At(p, "idle") PROVE Employment'
    BY <1>1, <1>2 DEF Employment, Goes, At, Release, Into, Publishable, Process
  <1>3. ASSUME NEW c \in candidates, NEW o \in Output, Validate(p, c, o) PROVE Employment'
    BY <1>1, <1>3 DEF Employment, Validate, At, Release, Into, Publishable
  <1>4. CASE Reserve(p)
    BY <1>2, <1>4 DEF Reserve, At
  <1>5. CASE MakeDirectory(p)
    BY <1>2, <1>5 DEF MakeDirectory, At
  <1>6. CASE Write(p)
    BY <1>2, <1>6 DEF Write, At, Order
  <1>7. CASE Finish(p)
    BY <1>2, <1>7 DEF Finish, At
  <1>8. CASE Fail(p)
    BY <1>2, <1>8 DEF Fail, At, Order
  <1>9. CASE Remove(p)
    BY <1>1, <1>9 DEF Employment, Remove, At, Release, Into, Publishable
  <1>10. CASE Removed(p)
    BY <1>2, <1>10 DEF Removed, At
  <1> QED
    BY <1>3, <1>4, <1>5, <1>6, <1>7, <1>8, <1>9, <1>10 DEF Publishes

LEMMA PlatformEmploys ==
    ASSUME Employment, Platform
    PROVE  Employment'
  BY DEF Employment, Platform, RegisterReads, RegisterSaves, Revoke, Distrust, publishVars,
         buildVars, At, Release, Into, Publishable

LEMMA PublisherSound ==
    ASSUME Sound, Employment, NEW p \in Publisher, Publishes(p)
    PROVE  Sound'
  <1> USE ReleaseAssumption, ReleaseNone
  <1>0. /\ publishers \in [Publisher -> Process] /\ publishers[p] \in Process
        /\ outputs \in [Output -> Directory] /\ ledger \subseteq Candidate
        /\ candidates \subseteq Candidate /\ budget \in Budget
    BY DEF Sound, ReleaseTypeOK
  <1>1. ASSUME publishers' \in [Publisher -> Process], ledger' \subseteq Candidate,
               outputs' \in [Output -> Directory], budget' \in Budget,
               UNCHANGED <<buildVars, platformVars>>
        PROVE  Sound'
    BY <1>1 DEF Sound, ReleaseTypeOK, buildVars, platformVars
  <1>2. ASSUME NEW step \in {"validated", "reserved", "made", "app", "archived",
                             "marked", "done", "removing", "failed"}, Goes(p, step)
        PROVE  publishers' \in [Publisher -> Process]
    BY <1>0, <1>2, Going
  <1>3. ~At(p, "idle") =>
           /\ Into(p) \in Output /\ outputs[Into(p)] \in Directory
           /\ Release(p) \in Candidate /\ Release(p).app \in App
    BY <1>0 DEF Employment, Candidate
  <1>4. ASSUME NEW c \in candidates, NEW o \in Output, Validate(p, c, o) PROVE Sound'
    <2>1. [at |-> "validated", release |-> c, output |-> o] \in Process
      BY <1>0 DEF Process
    <2>2. publishers' \in [Publisher -> Process]
      BY <1>0, <1>4, <2>1 DEF Validate
    <2> QED
      BY <1>0, <1>1, <1>4, <2>2 DEF Validate
  <1>5. CASE Reserve(p)
    <2>1. UNCHANGED <<buildVars, outputs, platformVars, budget>> /\ ~At(p, "idle")
      BY <1>5 DEF Reserve, At
    <2>2. ledger' \subseteq Candidate /\ (Goes(p, "reserved") \/ Goes(p, "failed"))
      BY <1>0, <1>3, <1>5, <2>1 DEF Reserve
    <2> QED
      BY <1>0, <1>1, <1>2, <2>1, <2>2
  <1>6. CASE MakeDirectory(p)
    <2>1. UNCHANGED <<buildVars, ledger, platformVars, budget>> /\ ~At(p, "idle")
      BY <1>6 DEF MakeDirectory, At
    <2>2. [outputs[Into(p)] EXCEPT !.exists = TRUE] \in Directory
      BY <1>3, <2>1 DEF Directory
    <2>3. outputs' \in [Output -> Directory]
      BY <1>0, <1>6, <2>2 DEF MakeDirectory
    <2>4. Goes(p, "made") \/ Goes(p, "failed")
      BY <1>6 DEF MakeDirectory, Refused
    <2> QED
      BY <1>0, <1>1, <1>2, <2>1, <2>3, <2>4
  <1>7. CASE Write(p)
    <2>1. UNCHANGED <<buildVars, ledger, platformVars, budget>> /\ ~At(p, "idle")
      BY <1>7 DEF Write, At, Order
    <2>2. ASSUME NEW name \in {"app", "archive", "marker"}
          PROVE  [outputs[Into(p)] EXCEPT ![name] = File(p, name)] \in Directory
      BY <1>3, <2>1, <2>2 DEF Directory, File
    <2>3. Order[publishers[p].at] \in {"app", "archive", "marker"}
      BY <1>7 DEF Write, Order
    <2>4. outputs' \in [Output -> Directory]
      BY <1>0, <1>7, <2>2, <2>3 DEF Write
    <2>5. After[publishers[p].at] \in {"app", "archived", "marked"}
      BY <1>7 DEF Write, Order, After
    <2>6. publishers' \in [Publisher -> Process]
      BY <1>7, <1>2, <2>5 DEF Write
    <2> QED
      BY <1>0, <1>1, <2>1, <2>4, <2>6
  <1>8. CASE Finish(p)
    BY <1>0, <1>1, <1>2, <1>8 DEF Finish
  <1>9. CASE Fail(p)
    <2>1. budget' \in Budget
      BY <1>0, <1>9, Paying DEF Fail
    <2> QED
      BY <1>0, <1>1, <1>2, <1>9, <2>1 DEF Fail
  <1>10. CASE Remove(p)
    <2>1. ~At(p, "idle")
      BY <1>10 DEF Remove, At
    <2>2. ASSUME NEW name \in {"app", "archive", "marker"}
          PROVE  [outputs[Into(p)] EXCEPT ![name] = None] \in Directory
      BY <1>3, <2>1, <2>2 DEF Directory
    <2>3. outputs' \in [Output -> Directory]
      BY <1>0, <1>10, <2>2 DEF Remove
    <2> QED
      BY <1>0, <1>1, <1>10, <2>3 DEF Remove, buildVars, platformVars
  <1>11. CASE Removed(p)
    <2>1. Absent \in Directory
      BY DEF Absent, Directory
    <2>2. outputs' \in [Output -> Directory]
      BY <1>0, <1>11, <2>1 DEF Removed
    <2> QED
      BY <1>0, <1>1, <1>2, <1>11, <2>2 DEF Removed
  <1> QED
    BY <1>4, <1>5, <1>6, <1>7, <1>8, <1>9, <1>10, <1>11 DEF Publishes

LEMMA PlatformSound ==
    ASSUME Sound, Platform
    PROVE  Sound'
  <1> USE ReleaseAssumption, ReleaseNone
  <1>0. /\ outputs \in [Output -> Directory] /\ rows \subseteq Row /\ distrusted \subseteq Candidate
        /\ registering \in [release: Candidate, directory: Output] \cup {None}
        /\ budget \in Budget
    BY DEF Sound, ReleaseTypeOK
  <1>1. ASSUME UNCHANGED <<buildVars, publishVars>>, rows' \subseteq Row,
               registering' \in [release: Candidate, directory: Output] \cup {None},
               distrusted' \subseteq Candidate, budget' \in Budget
        PROVE  Sound'
    BY <1>1 DEF Sound, ReleaseTypeOK, buildVars, publishVars
  <1>2. ASSUME NEW o \in Output, RegisterReads(o) PROVE Sound'
    <2>1. outputs[o].marker \in Candidate
      BY <1>0, <1>2 DEF RegisterReads, Readable, Directory
    <2> QED
      BY <1>0, <1>1, <1>2, <2>1 DEF RegisterReads
  <1>3. CASE RegisterSaves
    <2>1. [release |-> registering.release, directory |-> registering.directory,
           revoked |-> FALSE] \in Row
      BY <1>0, <1>3 DEF RegisterSaves, Row
    <2>2. rows' \subseteq Row
      BY <1>0, <1>3, <2>1 DEF RegisterSaves
    <2> QED
      BY <1>0, <1>1, <1>3, <2>2 DEF RegisterSaves
  <1>4. ASSUME NEW row \in rows, Revoke(row) PROVE Sound'
    <2>1. [row EXCEPT !.revoked = TRUE] \in Row
      BY <1>0 DEF Row
    <2> QED
      BY <1>0, <1>1, <1>4, <2>1 DEF Revoke
  <1>5. ASSUME NEW row \in rows, Distrust(row.release) PROVE Sound'
    <2>1. budget' \in Budget /\ row.release \in Candidate
      BY <1>0, <1>5, Paying DEF Distrust, Row
    <2> QED
      BY <1>0, <1>1, <1>5, <2>1 DEF Distrust
  <1> QED
    BY <1>2, <1>3, <1>4, <1>5 DEF Platform

LEMMA SoundAlways == Spec => [](Sound /\ Employment)
  <1>1. Init => Sound /\ Employment
    BY SoundInit DEF Init, Employment, At
  <1>2. Sound /\ Employment /\ [Next]_vars => Sound' /\ Employment'
    <2> SUFFICES ASSUME Sound, Employment, [Next]_vars PROVE Sound' /\ Employment'
      OBVIOUS
    <2>1. CASE Engineer
      BY <2>1, EngineerSound, EngineerEmploys
    <2>2. ASSUME NEW p \in Publisher, Publishes(p) PROVE Sound' /\ Employment'
      <3>1. publishers \in [Publisher -> Process]
        BY DEF Sound, ReleaseTypeOK
      <3> QED
        BY <2>2, <3>1, PublisherSound, PublisherEmploys
    <2>3. CASE Platform
      BY <2>3, PlatformSound, PlatformEmploys
    <2>4. CASE UNCHANGED vars
      <3>1. UNCHANGED <<repo, trees, packaging, candidates, publishers, ledger, outputs,
                        registering, rows, distrusted, budget>>
        BY <2>4 DEF vars, buildVars, publishVars, platformVars
      <3>2. Sound'
        BY <3>1 DEF Sound, ReleaseTypeOK
      <3>3. Employment'
        BY <3>1 DEF Employment, At, Release, Into
      <3> QED
        BY <3>2, <3>3
    <2> QED
      BY <2>1, <2>2, <2>3, <2>4 DEF Next
  <1> QED
    BY <1>1, <1>2, PTL DEF Spec

\* Every variable keeps its type: what is packaged, signed or registered is
\* always there (prepare, release.py package, publish).
THEOREM ReleaseTypeCorrect == Spec => []ReleaseTypeOK
  <1>1. Sound => ReleaseTypeOK
    BY DEF Sound
  <1> QED
    BY <1>1, SoundAlways, PTL

----------------------------------------------------------------------------
(* The ledger: a publisher that has reserved its sequence is in it, and no *)
(* two of them have the same.                                              *)

Holding(p)   == publishers[p].at \in {"made", "app", "archived", "marked", "done", "removing"}
Reserving(p) == At(p, "reserved") \/ Holding(p)

Reservations ==
    /\ \A p \in Publisher : Reserving(p) => Release(p) \in ledger
    /\ \A p, q \in Publisher :
          Reserving(p) /\ Reserving(q) /\ Sequence(Release(p)) = Sequence(Release(q)) => p = q

\* A step of one publisher leaves the others, and what it publishes and where.
LEMMA OthersStay ==
    ASSUME publishers \in [Publisher -> Process], NEW p \in Publisher, NEW step, Goes(p, step)
    PROVE  /\ publishers'[p].at = step
           /\ Release(p)' = Release(p) /\ Into(p)' = Into(p)
           /\ \A q \in Publisher \ {p} : publishers'[q] = publishers[q]
  BY DEF Goes, Process, Release, Into

LEMMA PublisherReserves ==
    ASSUME Sound, Employment, Reservations, NEW p \in Publisher, Publishes(p)
    PROVE  Reservations'
  <1>0. publishers \in [Publisher -> Process] /\ ledger \subseteq Candidate
    BY DEF Sound, ReleaseTypeOK
  <1>1. \A c \in Candidate : Sequence(c) \in Nat
    BY ReleaseAssumption DEF Candidate, Sequence
  <1>2. ASSUME NEW step, Goes(p, step), UNCHANGED ledger,
               step = "failed" \/ Reserving(p)
        PROVE  Reservations'
    <2>1. /\ publishers'[p].at = step /\ Release(p)' = Release(p)
          /\ \A q \in Publisher \ {p} : publishers'[q] = publishers[q]
      BY <1>0, <1>2, OthersStay
    <2>2. \A q \in Publisher : Reserving(q)' => Reserving(q) /\ Release(q)' = Release(q)
      BY <1>2, <2>1 DEF Reserving, Holding, At, Release
    <2> QED
      BY <1>2, <2>2 DEF Reservations, Sequence
  <1>3. ASSUME NEW c \in candidates, NEW o \in Output, Validate(p, c, o) PROVE Reservations'
    <2>1. /\ publishers'[p].at = "validated" /\ UNCHANGED ledger
          /\ \A q \in Publisher \ {p} : publishers'[q] = publishers[q]
      BY <1>0, <1>3 DEF Validate
    <2>2. \A q \in Publisher : Reserving(q)' => Reserving(q) /\ Release(q)' = Release(q)
      BY <2>1 DEF Reserving, Holding, At, Release
    <2> QED
      BY <2>1, <2>2 DEF Reservations, Sequence
  <1>4. CASE Reserve(p)
    <2>1. CASE \A r \in Reserved : Sequence(r) < Sequence(Release(p))
      <3>1. ledger' = ledger \cup {Release(p)} /\ Goes(p, "reserved")
        BY <1>4, <2>1 DEF Reserve
      <3>2. /\ Release(p)' = Release(p)
            /\ \A q \in Publisher \ {p} : publishers'[q] = publishers[q]
        BY <1>0, <3>1, OthersStay
      <3>3. \A q \in Publisher \ {p} :
               /\ Release(q)' = Release(q)
               /\ Reserving(q)' => Reserving(q)
        BY <3>2 DEF Reserving, Holding, At, Release
      <3>4. \A q \in Publisher \ {p} : Reserving(q)' => Sequence(Release(q)) < Sequence(Release(p))
        BY <2>1, <3>3 DEF Reservations, Reserved
      <3>5. Sequence(Release(p)) \in Nat
        BY <1>1, <1>4 DEF Employment, Reserve, At, Sound, ReleaseTypeOK
      <3>6. \A q \in Publisher \ {p} :
               Reserving(q)' => Sequence(Release(q)') # Sequence(Release(p)')
        <4>1. \A q \in Publisher \ {p} : Reserving(q)' => Sequence(Release(q)) \in Nat
          BY <1>0, <1>1, <3>3 DEF Reservations
        <4> QED
          BY <3>2, <3>3, <3>4, <3>5, <4>1
      <3>7. \A q \in Publisher : Reserving(q)' => Release(q)' \in ledger'
        BY <3>1, <3>2, <3>3 DEF Reservations
      <3>8. \A q, r \in Publisher :
               Reserving(q)' /\ Reserving(r)' /\ Sequence(Release(q)') = Sequence(Release(r)') => q = r
        BY <3>3, <3>6 DEF Reservations
      <3> QED
        BY <3>7, <3>8 DEF Reservations, Sequence
    <2>2. CASE ~(\A r \in Reserved : Sequence(r) < Sequence(Release(p)))
      BY <1>2, <1>4, <2>2 DEF Reserve
    <2> QED
      BY <2>1, <2>2
  <1>5. CASE MakeDirectory(p)
    BY <1>2, <1>5 DEF MakeDirectory, Reserving
  <1>6. CASE Write(p)
    BY <1>2, <1>6 DEF Write, Reserving, Holding, Order
  <1>7. CASE Finish(p)
    BY <1>2, <1>7 DEF Finish, Reserving, Holding, At
  <1>8. CASE Fail(p)
    BY <1>2, <1>8 DEF Fail, Reserving, Holding, Order
  <1>9. CASE Remove(p)
    BY <1>9 DEF Remove, Reservations, Reserving, Holding, At, Release, Sequence
  <1>10. CASE Removed(p)
    BY <1>2, <1>10 DEF Removed, Reserving, Holding, At
  <1> QED
    BY <1>3, <1>4, <1>5, <1>6, <1>7, <1>8, <1>9, <1>10 DEF Publishes

----------------------------------------------------------------------------
(* The directories: one that exists is held by the publisher that made it, *)
(* which is the only one to change it and wrote what it holds.             *)

Filled(p) ==
    LET directory == outputs[Into(p)] IN
    /\ publishers[p].at \in {"app", "archived", "marked", "done"} =>
          directory.app = Release(p).app
    /\ publishers[p].at \in {"archived", "marked", "done"} => directory.archive = Release(p)
    /\ publishers[p].at \in {"made", "app", "archived"} => directory.marker = None

Holdings ==
    /\ \A p \in Publisher : Holding(p) => outputs[Into(p)].exists /\ Filled(p)
    /\ \A p, q \in Publisher : Holding(p) /\ Holding(q) /\ Into(p) = Into(q) => p = q
    /\ \A o \in Output : ~outputs[o].exists => outputs[o] = Absent
    /\ \A o \in Marked : \E p \in Publisher :
          Holding(p) /\ Into(p) = o /\ Release(p) = outputs[o].marker

\* A publisher that holds its directory before and after a step changes that
\* directory only, which stays there and holds what it should.
LEMMA HolderKeeps ==
    ASSUME Holdings, outputs \in [Output -> Directory], NEW p \in Publisher, Holding(p), Holding(p)',
           Into(p) \in Output, Into(p)' = Into(p), Release(p)' = Release(p),
           \A q \in Publisher \ {p} : publishers'[q] = publishers[q],
           NEW new, outputs' = [outputs EXCEPT ![Into(p)] = new],
           new.exists, new.marker \in {None, Release(p), outputs[Into(p)].marker}, Filled(p)'
    PROVE  Holdings'
  <1>1. outputs'[Into(p)] = new /\ \A o \in Output \ {Into(p)} : outputs'[o] = outputs[o]
    OBVIOUS
  <1>2. \A q \in Publisher : /\ Holding(q)' = Holding(q) /\ Into(q)' = Into(q)
                             /\ Release(q)' = Release(q)
    BY DEF Holding, Into, Release
  <1>3. ASSUME NEW q \in Publisher, Holding(q)' PROVE outputs'[Into(q)'].exists /\ Filled(q)'
    <2>1. CASE q = p
      BY <1>1, <1>2, <2>1
    <2>2. CASE q # p
      <3>1. Holding(q) /\ Into(q) # Into(p)
        BY <1>2, <1>3, <2>2 DEF Holdings
      <3>2. outputs'[Into(q)] = outputs[Into(q)]
        BY <3>1
      <3> QED
        BY <1>2, <2>2, <3>1, <3>2 DEF Holdings, Filled, Into, Release
    <2> QED
      BY <2>1, <2>2
  <1>4. ASSUME NEW q \in Publisher, NEW r \in Publisher, Holding(q)', Holding(r)', Into(q)' = Into(r)'
        PROVE  q = r
    BY <1>2, <1>4 DEF Holdings
  <1>5. ASSUME NEW o \in Output, ~outputs'[o].exists PROVE outputs'[o] = Absent
    BY <1>1, <1>5 DEF Holdings
  <1>6. ASSUME NEW o \in Output, outputs'[o].marker # None
        PROVE  \E q \in Publisher :
                  Holding(q)' /\ Into(q)' = o /\ Release(q)' = outputs'[o].marker
    <2>1. CASE o # Into(p)
      BY <1>1, <1>2, <1>6, <2>1 DEF Holdings, Marked
    <2>2. CASE o = Into(p)
      <3>1. new.marker = Release(p) \/ (new.marker = outputs[o].marker /\ o \in Marked)
        BY <1>1, <1>6, <2>2 DEF Marked
      <3>2. CASE new.marker = Release(p)
        BY <1>1, <1>2, <2>2, <3>2
      <3>3. CASE new.marker = outputs[o].marker /\ o \in Marked
        BY <1>1, <1>2, <2>2, <3>3 DEF Holdings
      <3> QED
        BY <3>1, <3>2, <3>3
    <2> QED
      BY <2>1, <2>2
  <1> QED
    BY <1>3, <1>4, <1>5, <1>6 DEF Holdings, Marked

\* A publisher that holds nothing before and after a step changes no directory.
LEMMA BystanderKeeps ==
    ASSUME Holdings, NEW p \in Publisher, ~Holding(p), ~Holding(p)', outputs' = outputs,
           \A q \in Publisher \ {p} : publishers'[q] = publishers[q]
    PROVE  Holdings'
  <1>1. \A q \in Publisher : Holding(q)' => Holding(q) /\ publishers'[q] = publishers[q]
    BY DEF Holding
  <1>2. \A q \in Publisher : Holding(q) => Holding(q)' /\ publishers'[q] = publishers[q]
    BY DEF Holding
  <1> QED
    BY <1>1, <1>2 DEF Holdings, Filled, Marked, Into, Release

LEMMA MakerHolds ==
    ASSUME Sound, Employment, Holdings, NEW p \in Publisher, MakeDirectory(p)
    PROVE  Holdings'
  <1>0. /\ publishers \in [Publisher -> Process] /\ outputs \in [Output -> Directory]
        /\ Into(p) \in Output /\ ~Holding(p) /\ outputs[Into(p)] \in Directory
    BY DEF Sound, ReleaseTypeOK, MakeDirectory, At, Holding, Employment
  <1>1. CASE outputs[Into(p)].exists
    <2>1. Goes(p, "failed") /\ outputs' = outputs
      BY <1>1 DEF MakeDirectory, Refused
    <2>2. ~Holding(p)' /\ \A q \in Publisher \ {p} : publishers'[q] = publishers[q]
      BY <1>0, <2>1, OthersStay DEF Holding
    <2> QED
      BY <1>0, <2>1, <2>2, BystanderKeeps
  <1>2. CASE ~outputs[Into(p)].exists
    <2> DEFINE new == [outputs[Into(p)] EXCEPT !.exists = TRUE]
    <2>1. Goes(p, "made") /\ outputs' = [outputs EXCEPT ![Into(p)] = new]
      BY <1>0, <1>2 DEF MakeDirectory
    <2>2. new.exists /\ new.marker = None
      <3>1. outputs[Into(p)] = Absent
        BY <1>0, <1>2 DEF Holdings
      <3> QED
        BY <3>1 DEF Absent
    <2> HIDE DEF new
    <2>3. outputs'[Into(p)] = new /\ \A o \in Output \ {Into(p)} : outputs'[o] = outputs[o]
      BY <1>0, <2>1
    <2>4. /\ publishers'[p].at = "made" /\ Into(p)' = Into(p)
          /\ \A q \in Publisher \ {p} : publishers'[q] = publishers[q]
      BY <1>0, <2>1, OthersStay
    <2>5. \A q \in Publisher \ {p} : /\ Holding(q)' = Holding(q) /\ Into(q)' = Into(q)
                                     /\ Release(q)' = Release(q)
      BY <2>4 DEF Holding, Into, Release
    <2>6. \A q \in Publisher \ {p} : Holding(q) => Into(q) # Into(p)
      BY <1>2 DEF Holdings
    <2>7. ASSUME NEW q \in Publisher, Holding(q)' PROVE outputs'[Into(q)'].exists /\ Filled(q)'
      <3>1. CASE q = p
        BY <2>2, <2>3, <2>4, <3>1 DEF Filled
      <3>2. CASE q # p
        <4>1. Holding(q) /\ Into(q) # Into(p)
          BY <2>5, <2>6, <2>7, <3>2
        <4>2. outputs'[Into(q)] = outputs[Into(q)]
          BY <1>0, <2>1, <4>1
        <4> QED
          BY <2>4, <2>5, <3>2, <4>1, <4>2 DEF Holdings, Filled
      <3> QED
        BY <3>1, <3>2
    <2>8. ASSUME NEW q \in Publisher, NEW r \in Publisher, Holding(q)', Holding(r)',
                 Into(q)' = Into(r)'
          PROVE  q = r
      BY <2>4, <2>5, <2>6, <2>8 DEF Holdings
    <2>9. ASSUME NEW o \in Output, ~outputs'[o].exists PROVE outputs'[o] = Absent
      BY <2>2, <2>3, <2>9 DEF Holdings
    <2>10. ASSUME NEW o \in Output, outputs'[o].marker # None
           PROVE  \E q \in Publisher :
                     Holding(q)' /\ Into(q)' = o /\ Release(q)' = outputs'[o].marker
      <3>1. o # Into(p) /\ outputs'[o] = outputs[o]
        BY <2>2, <2>3, <2>10
      <3>2. PICK q \in Publisher : Holding(q) /\ Into(q) = o /\ Release(q) = outputs[o].marker
        BY <2>10, <3>1 DEF Holdings, Marked
      <3>3. q # p
        BY <1>0, <3>2
      <3> QED
        BY <2>5, <3>1, <3>2, <3>3
    <2> QED
      BY <2>7, <2>8, <2>9, <2>10 DEF Holdings, Marked
  <1> QED
    BY <1>1, <1>2

LEMMA WriterHolds ==
    ASSUME Sound, Employment, Holdings, NEW p \in Publisher, Write(p)
    PROVE  Holdings'
  <1>0. /\ publishers \in [Publisher -> Process] /\ outputs \in [Output -> Directory]
        /\ publishers[p].at \in {"made", "app", "archived"} /\ Holding(p)
        /\ Into(p) \in Output /\ outputs[Into(p)] \in Directory
    BY DEF Sound, ReleaseTypeOK, Write, Order, At, Holding, Employment
  <1>1. outputs[Into(p)].exists /\ Filled(p)
    BY <1>0 DEF Holdings
  <1> DEFINE new(name) == [outputs[Into(p)] EXCEPT ![name] = File(p, name)]
  <1>2. ASSUME NEW name \in {"app", "archive", "marker"}, NEW step \in {"app", "archived", "marked"},
               outputs' = [outputs EXCEPT ![Into(p)] = new(name)], Goes(p, step),
               \/ At(p, "made") /\ name = "app" /\ step = "app"
               \/ At(p, "app") /\ name = "archive" /\ step = "archived"
               \/ At(p, "archived") /\ name = "marker" /\ step = "marked"
        PROVE  Holdings'
    <2>1. /\ publishers'[p].at = step /\ Release(p)' = Release(p) /\ Into(p)' = Into(p)
          /\ \A q \in Publisher \ {p} : publishers'[q] = publishers[q]
      BY <1>0, <1>2, OthersStay
    <2>2. Holding(p)'
      BY <1>2, <2>1 DEF Holding
    <2>3. /\ new(name).exists = outputs[Into(p)].exists
          /\ new(name).app = IF name = "app" THEN Release(p).app ELSE outputs[Into(p)].app
          /\ new(name).archive = IF name = "archive" THEN Release(p) ELSE outputs[Into(p)].archive
          /\ new(name).marker = IF name = "marker" THEN Release(p) ELSE outputs[Into(p)].marker
      BY <1>0, <1>2 DEF Directory, File
    <2>4. outputs'[Into(p)'] = new(name)
      BY <1>0, <1>2, <2>1
    <2> HIDE DEF new
    <2>5. Filled(p)'
      BY <1>1, <1>2, <2>1, <2>3, <2>4 DEF Filled, At
    <2> QED
      BY <1>0, <1>1, <1>2, <2>1, <2>2, <2>3, <2>5, HolderKeeps
  <1>3. CASE At(p, "made")
    BY <1>2, <1>3 DEF Write, At, Order, After
  <1>4. CASE At(p, "app")
    BY <1>2, <1>4 DEF Write, At, Order, After
  <1>5. CASE At(p, "archived")
    BY <1>2, <1>5 DEF Write, At, Order, After
  <1> QED
    BY <1>0, <1>3, <1>4, <1>5 DEF At

LEMMA PublisherHolds ==
    ASSUME Sound, Employment, Holdings, NEW p \in Publisher, Publishes(p)
    PROVE  Holdings'
  <1>0. /\ publishers \in [Publisher -> Process] /\ outputs \in [Output -> Directory]
    BY DEF Sound, ReleaseTypeOK
  <1>1. ASSUME NEW c \in candidates, NEW o \in Output, Validate(p, c, o) PROVE Holdings'
    <2>1. ~Holding(p) /\ ~Holding(p)' /\ outputs' = outputs
      BY <1>0, <1>1 DEF Validate, Holding, At
    <2>2. \A q \in Publisher \ {p} : publishers'[q] = publishers[q]
      BY <1>0, <1>1 DEF Validate
    <2> QED
      BY <2>1, <2>2, BystanderKeeps
  <1>2. CASE Reserve(p)
    <2>1. outputs' = outputs /\ ~Holding(p) /\ (Goes(p, "reserved") \/ Goes(p, "failed"))
      BY <1>2 DEF Reserve, Holding, At
    <2>2. ~Holding(p)' /\ \A q \in Publisher \ {p} : publishers'[q] = publishers[q]
      BY <1>0, <2>1, OthersStay DEF Holding
    <2> QED
      BY <2>1, <2>2, BystanderKeeps
  <1>3. ASSUME NEW step \in {"done", "removing"}, Goes(p, step), outputs' = outputs, Holding(p),
               step = "done" => At(p, "marked")
        PROVE  Holdings'
    <2>1. /\ publishers'[p].at = step /\ Release(p)' = Release(p) /\ Into(p)' = Into(p)
          /\ \A q \in Publisher \ {p} : publishers'[q] = publishers[q]
      BY <1>0, <1>3, OthersStay
    <2>2. Into(p) \in Output /\ outputs[Into(p)].exists /\ Filled(p) /\ Holding(p)'
      BY <1>3, <2>1 DEF Holding, Employment, At, Holdings
    <2>3. Filled(p)'
      BY <1>3, <2>1, <2>2 DEF Filled, At
    <2>4. outputs' = [outputs EXCEPT ![Into(p)] = outputs[Into(p)]]
      BY <1>0, <1>3
    <2> QED
      BY <1>0, <1>3, <2>1, <2>2, <2>3, <2>4, HolderKeeps
  <1>4. CASE Finish(p)
    BY <1>3, <1>4 DEF Finish, Holding, At
  <1>5. CASE Fail(p)
    BY <1>3, <1>5 DEF Fail, Holding, Order
  <1>6. CASE Remove(p)
    <2>1. publishers' = publishers /\ Holding(p) /\ publishers[p].at = "removing"
      BY <1>6 DEF Remove, Holding, At
    <2>2. Into(p) \in Output /\ outputs[Into(p)] \in Directory /\ outputs[Into(p)].exists
      BY <1>0, <2>1 DEF Employment, At, Holdings
    <2>3. PICK name \in {"app", "archive", "marker"} :
             outputs' = [outputs EXCEPT ![Into(p)] = [@ EXCEPT ![name] = None]]
      BY <1>6 DEF Remove
    <2> DEFINE new == [outputs[Into(p)] EXCEPT ![name] = None]
    <2>4. outputs' = [outputs EXCEPT ![Into(p)] = new]
      BY <1>0, <2>2, <2>3
    <2>5. new.exists /\ new.marker \in {None, outputs[Into(p)].marker}
      BY <2>2, <2>3 DEF Directory
    <2> HIDE DEF new
    <2>6. Filled(p)' /\ Holding(p)' /\ Into(p)' = Into(p) /\ Release(p)' = Release(p)
      BY <2>1 DEF Filled, Holding, Into, Release
    <2> QED
      BY <1>0, <2>1, <2>2, <2>4, <2>5, <2>6, HolderKeeps
  <1>7. CASE Removed(p)
    <2>1. Goes(p, "failed") /\ Holding(p) /\ At(p, "removing")
      BY <1>7 DEF Removed, Holding, At
    <2>2. Into(p) \in Output /\ outputs' = [outputs EXCEPT ![Into(p)] = Absent]
      BY <1>7, <2>1 DEF Removed, Employment, At
    <2>3. outputs'[Into(p)] = Absent /\ \A o \in Output \ {Into(p)} : outputs'[o] = outputs[o]
      BY <1>0, <2>2
    <2>4. ~Holding(p)' /\ \A q \in Publisher \ {p} : publishers'[q] = publishers[q]
      BY <1>0, <2>1, OthersStay DEF Holding
    <2>5. \A q \in Publisher \ {p} : /\ Holding(q)' = Holding(q) /\ Into(q)' = Into(q)
                                     /\ Release(q)' = Release(q)
      BY <2>4 DEF Holding, Into, Release
    <2>6. ASSUME NEW q \in Publisher, Holding(q)'
          PROVE  Holding(q) /\ Into(q) # Into(p) /\ outputs'[Into(q)'].exists /\ Filled(q)'
      <3>1. q # p /\ Holding(q) /\ Into(q) # Into(p)
        BY <2>1, <2>4, <2>5, <2>6 DEF Holdings
      <3>2. outputs'[Into(q)] = outputs[Into(q)]
        BY <1>0, <2>2, <3>1
      <3> QED
        BY <2>4, <2>5, <3>1, <3>2 DEF Holdings, Filled
    <2>7. ASSUME NEW q \in Publisher, NEW r \in Publisher, Holding(q)', Holding(r)',
                 Into(q)' = Into(r)'
          PROVE  q = r
      BY <2>4, <2>5, <2>7 DEF Holdings
    <2>8. ASSUME NEW o \in Output, ~outputs'[o].exists PROVE outputs'[o] = Absent
      BY <2>3, <2>8 DEF Holdings
    <2>9. ASSUME NEW o \in Output, outputs'[o].marker # None
          PROVE  \E q \in Publisher :
                    Holding(q)' /\ Into(q)' = o /\ Release(q)' = outputs'[o].marker
      <3>1. o # Into(p) /\ outputs'[o] = outputs[o]
        BY <2>3, <2>9 DEF Absent
      <3>2. PICK q \in Publisher : Holding(q) /\ Into(q) = o /\ Release(q) = outputs[o].marker
        BY <2>9, <3>1 DEF Holdings, Marked
      <3>3. q # p
        BY <3>1, <3>2
      <3> QED
        BY <2>5, <3>1, <3>2, <3>3
    <2> QED
      BY <2>6, <2>7, <2>8, <2>9 DEF Holdings, Marked
  <1> QED
    BY <1>1, <1>2, <1>4, <1>5, <1>6, <1>7, MakerHolds, WriterHolds DEF Publishes

Published == Sound /\ Employment /\ Reservations /\ Holdings

LEMMA PublishedAlways == Spec => []Published
  <1>1. Init => Reservations /\ Holdings
    BY DEF Init, Reservations, Holdings, Reserving, Holding, At, Marked, Absent
  <1>2. Sound /\ Employment /\ Reservations /\ Holdings /\ [Next]_vars => Reservations' /\ Holdings'
    <2> SUFFICES ASSUME Sound, Employment, Reservations, Holdings, [Next]_vars
                 PROVE  Reservations' /\ Holdings'
      OBVIOUS
    <2>1. ASSUME NEW p \in Publisher, Publishes(p) PROVE Reservations' /\ Holdings'
      BY <2>1, PublisherReserves, PublisherHolds
    <2>2. ASSUME UNCHANGED publishVars PROVE Reservations' /\ Holdings'
      BY <2>2 DEF publishVars, Reservations, Holdings, Reserving, Holding, At, Marked, Filled,
                  Release, Into, Sequence
    <2>3. Engineer \/ Platform => UNCHANGED publishVars
      BY DEF Engineer, Edit, Prepare, PrepareInterrupted, Build, CheckPackage, WritePackage,
             PackageStops, Platform, RegisterReads, RegisterSaves, Revoke, Distrust
    <2> QED
      BY <2>1, <2>2, <2>3 DEF Next, vars
  <1> QED
    BY <1>1, <1>2, SoundAlways, PTL DEF Spec, Published

\* No sequence is published twice, whatever the publishers do to each other and
\* wherever they fail: the ledger is written before the directory is made, and is
\* never taken back (publish).
THEOREM SequencesAreUnique == Spec => []SequenceIsUnique
  <1>1. Published => SequenceIsUnique
    <2> SUFFICES ASSUME Published PROVE SequenceIsUnique
      OBVIOUS
    <2>1. \A o \in Marked : \E p \in Publisher :
             Reserving(p) /\ Into(p) = o /\ Release(p) = outputs[o].marker
      BY DEF Published, Holdings, Reserving
    <2> QED
      BY <2>1 DEF Published, Reservations, SequenceIsUnique
  <1> QED
    BY <1>1, PublishedAlways, PTL

\* An envelope is written after what it names, and only a publisher that failed
\* takes its directory apart (publish).
THEOREM MarkersAreLast == Spec => []MarkerIsLast
  <1>1. Published => MarkerIsLast
    <2> SUFFICES ASSUME Published, NEW o \in Marked
                 PROVE  \/ outputs[o].app = outputs[o].marker.app /\ outputs[o].archive = outputs[o].marker
                        \/ \E p \in Publisher : At(p, "removing") /\ Into(p) = o
      BY DEF MarkerIsLast
    <2>1. PICK p \in Publisher : Holding(p) /\ Into(p) = o /\ Release(p) = outputs[o].marker
      BY DEF Published, Holdings
    <2>2. Filled(p)
      BY <2>1 DEF Published, Holdings
    <2>3. publishers[p].at \in {"marked", "done", "removing"}
      BY <2>1, <2>2 DEF Filled, Holding, Marked
    <2> QED
      BY <2>1, <2>2, <2>3 DEF Filled, At
  <1> QED
    BY <1>1, PublishedAlways, PTL

\* What is published stays: no publisher writes into, or removes, the directory of
\* one that is done (publish).
THEOREM PublicationsStay == Spec => DoneStays
  <1>1. Published /\ [Next]_vars =>
           [\A p \in Publisher : At(p, "done") => outputs'[Into(p)] = outputs[Into(p)]]_vars
    <2> SUFFICES ASSUME Published, Next, NEW p \in Publisher, At(p, "done")
                 PROVE  outputs'[Into(p)] = outputs[Into(p)]
      OBVIOUS
    <2>0. /\ outputs \in [Output -> Directory] /\ Holding(p) /\ Into(p) \in Output
          /\ outputs[Into(p)].exists
      BY DEF Published, Sound, ReleaseTypeOK, Employment, Holdings, Holding, At
    <2>1. ASSUME NEW q \in Publisher, Publishes(q) PROVE outputs'[Into(p)] = outputs[Into(p)]
      <3>1. ASSUME Holding(q), q # p, Into(q) \in Output,
                   \E new : outputs' = [outputs EXCEPT ![Into(q)] = new]
            PROVE  outputs'[Into(p)] = outputs[Into(p)]
        <4>1. Into(q) # Into(p)
          BY <2>0, <3>1 DEF Published, Holdings
        <4> QED
          BY <2>0, <3>1, <4>1
      <3>2. CASE Write(q) \/ Remove(q) \/ Removed(q)
        <4>1. Holding(q) /\ ~At(q, "idle") /\ q # p
          BY <3>2 DEF Write, Order, Remove, Removed, Holding, At
        <4>2. Into(q) \in Output
          BY <4>1 DEF Published, Employment
        <4>3. \E new : outputs' = [outputs EXCEPT ![Into(q)] = new]
          BY <3>2 DEF Write, Remove, Removed
        <4> QED
          BY <3>1, <4>1, <4>2, <4>3
      <3>3. CASE MakeDirectory(q)
        <4>1. CASE outputs[Into(q)].exists
          BY <3>3, <4>1 DEF MakeDirectory
        <4>2. CASE ~outputs[Into(q)].exists
          <5>1. Into(q) # Into(p)
            BY <2>0, <4>2
          <5> QED
            BY <2>0, <3>3, <4>2, <5>1 DEF MakeDirectory
        <4> QED
          BY <4>1, <4>2
      <3>4. CASE outputs' = outputs
        BY <3>4
      <3> QED
        BY <2>1, <3>2, <3>3, <3>4 DEF Publishes, Validate, Reserve, Finish, Fail
    <2>2. Engineer \/ Platform => outputs' = outputs
      BY DEF Engineer, Edit, Prepare, PrepareInterrupted, Build, CheckPackage, WritePackage,
             PackageStops, Platform, RegisterReads, RegisterSaves, Revoke, Distrust, publishVars
    <2> QED
      BY <2>1, <2>2 DEF Next
  <1> QED
    BY <1>1, PublishedAlways, PTL DEF Spec, DoneStays

----------------------------------------------------------------------------
(* The build: an app none of whose inputs is newer was compiled from those *)
(* inputs, which is what the checks of the packager turn into a record.    *)

Agrees(tree) ==
    tree.app # None =>
        /\ "overlay" \notin tree.newer => tree.app.source.overlay = tree.overlay
        /\ "header" \notin tree.newer => tree.app.header = tree.header

Fits(c) ==
    /\ c.recorded_app.header = c.recorded_trust
    /\ ~c.disturbed => /\ c.inputs.overlay = c.recorded_app.source.overlay
                       /\ c.prepared = c.recorded_app.source.overlay

BuiltFromInputs ==
    /\ \A t \in Tree : Agrees(trees[t])
    /\ packaging # None =>
          /\ packaging.seen.app.header = packaging.seen.trust
          /\ packaging.seen.app.source.overlay = packaging.repo.overlay
          /\ packaging.seen.overlay = packaging.repo.overlay
    /\ \A c \in candidates : Fits(c)

LEMMA TreeAgrees ==
    ASSUME NEW tree \in WorkTree, Agrees(tree), NEW k \in Trust
    PROVE  /\ Agrees(Staged(tree)) /\ Agrees(Trusting(Staged(tree), k))
           /\ Agrees([Trusting(Staged(tree), k) EXCEPT !.trust = k])
           /\ Agrees([tree EXCEPT !.patched = "partly"])
           /\ Agrees([tree EXCEPT !.rest = repo.rest])
           /\ Agrees([tree EXCEPT !.app = Compiled(tree), !.newer = {}])
  <1>1. Agrees(Staged(tree))
    BY DEF Agrees, Staged, WorkTree
  <1>2. Agrees(Trusting(Staged(tree), k))
    BY DEF Agrees, Staged, Trusting, WorkTree
  <1>3. Agrees([Trusting(Staged(tree), k) EXCEPT !.trust = k])
    BY DEF Agrees, Staged, Trusting, WorkTree
  <1>4. Agrees([tree EXCEPT !.patched = "partly"])
    BY DEF Agrees, WorkTree
  <1>5. Agrees([tree EXCEPT !.app = Compiled(tree), !.newer = {}])
    BY DEF Agrees, Compiled, WorkTree
  <1>6. Agrees([tree EXCEPT !.rest = repo.rest])
    BY DEF Agrees, WorkTree
  <1> QED
    BY <1>1, <1>2, <1>3, <1>4, <1>5, <1>6

LEMMA EngineerBuilds ==
    ASSUME Sound, BuiltFromInputs, Engineer
    PROVE  BuiltFromInputs'
  <1>0. /\ trees \in [Tree -> WorkTree]
        /\ \A t \in Tree : trees[t] \in WorkTree /\ Agrees(trees[t])
    BY DEF Sound, ReleaseTypeOK, BuiltFromInputs
  <1>1. ASSUME NEW t \in Tree, NEW new, Agrees(new), trees' = [trees EXCEPT ![t] = new],
               UNCHANGED <<packaging, candidates>>
        PROVE  BuiltFromInputs'
    <2>1. \A s \in Tree : Agrees(trees'[s])
      BY <1>0, <1>1
    <2> QED
      BY <1>1, <2>1 DEF BuiltFromInputs, Fits
  <1>2. CASE Edit
    BY <1>2 DEF Edit, BuiltFromInputs, Fits, Agrees
  <1>3. ASSUME NEW t \in Tree, NEW k \in Trust, Prepare(t, k) PROVE BuiltFromInputs'
    <2> DEFINE new == [Trusting(Staged(trees[t]), k) EXCEPT !.trust = k]
    <2>1. Agrees(new) /\ trees' = [trees EXCEPT ![t] = new]
      BY <1>0, <1>3, TreeAgrees DEF Prepare
    <2> HIDE DEF new
    <2> QED
      BY <1>1, <1>3, <2>1 DEF Prepare
  <1>4. ASSUME NEW t \in Tree, NEW k \in Trust, PrepareInterrupted(t, k) PROVE BuiltFromInputs'
    <2> DEFINE partly == [trees[t] EXCEPT !.patched = "partly"]
    <2> DEFINE rest == [trees[t] EXCEPT !.rest = repo.rest]
    <2> DEFINE staged == Staged(trees[t])
    <2> DEFINE trusting == Trusting(Staged(trees[t]), k)
    <2>1. Agrees(partly) /\ Agrees(rest) /\ Agrees(staged) /\ Agrees(trusting)
      BY <1>0, TreeAgrees
    <2>2. \/ trees' = [trees EXCEPT ![t] = partly]
          \/ trees' = [trees EXCEPT ![t] = rest]
          \/ trees' = [trees EXCEPT ![t] = staged]
          \/ trees' = [trees EXCEPT ![t] = trusting]
      BY <1>0, <1>4 DEF PrepareInterrupted
    <2>3. UNCHANGED <<packaging, candidates>>
      BY <1>4 DEF PrepareInterrupted
    <2> HIDE DEF partly, rest, staged, trusting
    <2> QED
      BY <1>1, <2>1, <2>2, <2>3
  <1>5. ASSUME NEW t \in Tree, Build(t) PROVE BuiltFromInputs'
    <2> DEFINE new == [trees[t] EXCEPT !.app = Compiled(trees[t]), !.newer = {}]
    <2>1. PICK k \in Trust : TRUE
      BY <1>0, <1>5 DEF Build, WorkTree
    <2>2. Agrees(new) /\ trees' = [trees EXCEPT ![t] = new]
      BY <1>0, <1>5, <2>1, TreeAgrees DEF Build
    <2> HIDE DEF new
    <2> QED
      BY <1>1, <1>5, <2>2 DEF Build
  <1>6. ASSUME NEW t \in Tree, CheckPackage(t) PROVE BuiltFromInputs'
    <2>1. Packageable(trees[t]) /\ UNCHANGED <<trees, candidates>>
      BY <1>6 DEF CheckPackage
    <2>2. packaging'.seen = trees[t] /\ packaging'.repo = repo
      BY <1>6 DEF CheckPackage
    <2>3. /\ trees[t].app.header = trees[t].trust
          /\ trees[t].app.source.overlay = repo.overlay /\ trees[t].overlay = repo.overlay
      BY <1>0, <2>1 DEF Packageable, Agrees
    <2> QED
      BY <2>1, <2>2, <2>3 DEF BuiltFromInputs, Fits, Agrees
  <1>7. CASE WritePackage
    <2>1. packaging # None /\ packaging' = None /\ candidates' = candidates \cup {Packaged}
          /\ trees' = trees
      BY <1>7 DEF WritePackage
    <2>2. Packaged.recorded_app.header = Packaged.recorded_trust
      BY <2>1 DEF Packaged, BuiltFromInputs
    <2>3. ~Packaged.disturbed =>
             /\ Packaged.inputs.overlay = Packaged.recorded_app.source.overlay
             /\ Packaged.prepared = Packaged.recorded_app.source.overlay
      BY <2>1 DEF Packaged, BuiltFromInputs
    <2>4. \A c \in candidates' : Fits(c)
      BY <2>1, <2>2, <2>3 DEF BuiltFromInputs, Fits
    <2> QED
      BY <2>1, <2>4 DEF BuiltFromInputs, Agrees
  <1>8. CASE PackageStops
    BY <1>8 DEF PackageStops, BuiltFromInputs, Fits, Agrees
  <1> QED
    BY <1>2, <1>3, <1>4, <1>5, <1>6, <1>7, <1>8 DEF Engineer

\* The app the platform serves carries the sequence and the trust it is signed for
\* and was compiled from the overlay on record, though nothing but timestamps and
\* hashes ties a build to its inputs (prepare, package, publish, verified_release).
THEOREM BuildsAreServed == Spec => []ServedAsBuilt
  <1>1. Init => BuiltFromInputs
    BY DEF Init, BuiltFromInputs, Agrees, Checkout, Built, Original
  <1>2. Sound /\ BuiltFromInputs /\ [Next]_vars => BuiltFromInputs'
    <2>1. ASSUME BuiltFromInputs, UNCHANGED buildVars PROVE BuiltFromInputs'
      BY <2>1 DEF BuiltFromInputs, buildVars, Agrees, Fits
    <2>2. ASSUME NEW p \in Publisher, Publishes(p) PROVE UNCHANGED buildVars
      BY <2>2 DEF Publishes, Validate, Reserve, MakeDirectory, Write, Finish, Fail, Remove, Removed
    <2>3. Platform => UNCHANGED buildVars
      BY DEF Platform, RegisterReads, RegisterSaves, Revoke, Distrust
    <2> QED
      BY <2>1, <2>2, <2>3, EngineerBuilds DEF Next, vars
  <1>3. Published /\ BuiltFromInputs => ServedAsBuilt
    <2> SUFFICES ASSUME Published, BuiltFromInputs, NEW row \in rows, Served(row)
                 PROVE  LET app == outputs[row.directory].app IN
                        /\ app.header.sequence = Sequence(row.release)
                        /\ ~app.header.testing
                        /\ ~row.release.disturbed =>
                              /\ row.release.inputs.overlay = app.source.overlay
                              /\ row.release.prepared = app.source.overlay
      BY DEF ServedAsBuilt
    <2>1. /\ row.directory \in Marked /\ outputs[row.directory].marker = row.release
          /\ outputs[row.directory].app = row.release.app
      BY DEF Served, Readable, Marked, Published, Sound, ReleaseTypeOK, Row
    <2>2. PICK p \in Publisher : Holding(p) /\ Release(p) = row.release
      BY <2>1 DEF Published, Holdings
    <2>3. row.release \in candidates /\ Publishable(row.release)
      BY <2>2 DEF Published, Employment, Holding, At
    <2>4. Fits(row.release)
      BY <2>3 DEF BuiltFromInputs
    <2> QED
      BY <2>1, <2>3, <2>4 DEF Publishable, Fits, Sequence
  <1>4. Published => Sound
    BY DEF Published
  <1> QED
    BY <1>1, <1>2, <1>3, <1>4, PublishedAlways, PTL DEF Spec
=============================================================================
