--------------------------- MODULE ReleasePipeline ---------------------------
(***************************************************************************)
(* How a release gets from a source tag to the public registry before the  *)
(* database becomes the writer: the central builder (ocp_builder.py and    *)
(* its workflow), candidate pull requests (registry_candidate.py), the     *)
(* publication of reviewed bytes (registry_promote.py) and of any file     *)
(* (publish_artifact.py), the legacy JSON promotion (promote_candidate.py),*)
(* registry pull requests with their CI gates (validate_registry.py,       *)
(* verify_artifacts.py) and the mirror loop of a deployment                *)
(* (publish_artifacts.py).  The store is ImmutableStore.                   *)
(*                                                                         *)
(* Bytes are a record of what they were built from, so equal digests mean  *)
(* equal bytes.  Git merges are three-way per release entry.  GitHub (tag, *)
(* release asset, pull request, Actions artifact) is external.             *)
(***************************************************************************)
EXTENDS Naturals, Sequences

CONSTANTS
    Runs,        \* dispatches of the builder workflow
    Authors,     \* people who open registry pull requests
    Order,       \* every object (module, version), sorted by id and SemVer
    ModuleOf,    \* the module of an object
    Prerelease,  \* objects whose version is a prerelease
    Allowlisted, \* modules of config/first-party
    Channels, Commits,
    Tagged,      \* Tagged[o]: the commit the tag of o was created at
    Manifest,    \* Manifest[c]: the object the files of commit c declare
    Needs,       \* Needs[c]: modules required by the manifest of c
    Satisfies,   \* Satisfies[c]: objects its version constraints admit
    Parts,       \* wheels and frontend archives
    Wheels,      \* Wheels[c]: backend wheels a build of c can produce
    Fronts,      \* Fronts[c]: frontend archives, or {None} without a frontend
    HostAccepts, \* bundles the pinned host verifies and can install
    Requests,    \* [obj, channel]: workflows maintainers may dispatch
    Retags,      \* [obj, commit]: tags maintainers may move
    Assets,      \* [obj, bytes]: release assets module repositories may upload
    Drafts,      \* [obj, new]: registry changes authors may propose
    Files,       \* [obj, bytes]: local files operators may publish
    Proposed,    \* Proposed[o]: candidate an earlier run left in review, or None
    Imported,    \* Imported[o]: release already on main, or None
    None,
    MaxEvents    \* bound: what people do in all, beside builds and candidates

Objects == {Order[i] : i \in DOMAIN Order}
Urls == {"github", "mirror"}
Bundle == [commit : Commits, wheel : Parts, front : Parts \cup {None}]
Statuses == {"new", "already-registered"}
Candidate == [commit : Commits, bundle : Bundle, channel : Channels,
              status : Statuses, run : Runs]
Release == [commit : Commits, digest : Bundle, channel : Channels, url : Urls]
Entry == Release \cup {None}
\* served: the mirror had the registered bytes when it was opened.
PullRequest == [obj : Objects, base : Entry, new : Entry, checked : BOOLEAN, served : BOOLEAN]

ASSUME PipelineAssumption ==
    /\ Order \in Seq(Objects) /\ Order # <<>> /\ Channels # {}
    /\ \A i, j \in DOMAIN Order : Order[i] = Order[j] => i = j
    /\ Prerelease \subseteq Objects
    /\ Tagged \in [Objects -> Commits] /\ Manifest \in [Commits -> Objects]
    /\ Satisfies \in [Commits -> SUBSET Objects]
    /\ Wheels \in [Commits -> SUBSET Parts]
    /\ Fronts \in [Commits -> SUBSET (Parts \cup {None})]
    /\ HostAccepts \subseteq Bundle
    /\ Requests \subseteq [obj : Objects, channel : Channels]
    /\ Retags \subseteq [obj : Objects, commit : Commits]
    /\ Assets \subseteq [obj : Objects, bytes : Bundle]
    /\ Drafts \subseteq [obj : Objects, new : Entry]
    /\ Files \subseteq [obj : Objects, bytes : Bundle]
    /\ Imported \in [Objects -> Entry]
    /\ Proposed \in [Objects -> Candidate \cup {None}]
    /\ \A o \in Objects : Proposed[o] # None =>
         Proposed[o].bundle.commit = Proposed[o].commit /\ Manifest[Proposed[o].commit] = o
    /\ None \notin Release \cup Bundle \cup Candidate \cup PullRequest \cup [base : Entry] \cup Commits
    /\ Authors \cap Objects = {}
    /\ MaxEvents \in Nat

VARIABLES
    tag,       \* the commit each object's source tag points to
    hosted,    \* bytes of each object's GitHub Release asset, or None
    bound,     \* artifact store: bytes behind each canonical name, or None
    cand,      \* candidates/ on main
    rel,       \* registry/modules/ on main
    branch,    \* candidate on the automation branch, None without a branch
    prOpen,    \* whether that branch has an open pull request
    run,       \* builder runs
    uploaded,  \* the candidate archive each run uploaded, or None
    prs,       \* registry pull requests: one per author and promoted object
    legacy,    \* legacy promotion of each object: the entry it checked out
    op,        \* operators publishing reviewed bytes
    manual,    \* objects whose name an operator bound to a file of their own
    unserved,  \* objects moved to the mirror unchecked, before it had their bytes
    batch,     \* the mirror loop of a deployment
    events     \* tags moved, assets and files put up, batches and pull requests

mainVars == <<cand, rel>>
reviewVars == <<branch, prOpen>>
buildVars == <<run, uploaded>>
worldVars == <<tag, hosted, events>>
pastVars == <<manual, unserved>>
offBuild == <<worldVars, batch, pastVars, prs, legacy, op>>
offRun == <<bound, mainVars, reviewVars, uploaded, offBuild>>
vars == <<bound, mainVars, reviewVars, buildVars, offBuild>>

\* Acknowledgements play no role here: nothing in this model loses bytes.
Store == INSTANCE ImmutableStore WITH Digests <- Bundle, promised <- {}

Active == {"checkout", "second", "build", "main", "branch", "host", "review", "push",
           "pr"}
RunState == [pc : Active \cup {"idle", "queued", "done"}, obj : Objects,
             channel : Channels, localCand : Candidate \cup {None}, tree : [Objects -> Entry],
             commit : Commits \cup {None}, built : Bundle \cup {None},
             found : Candidate \cup {None},
             outcome : {"none", "failed", "refused", "unchanged", "proposed"}]
\* A release the mirror loop has yet to publish, by its place in Order.
Job == [at : DOMAIN Order, digest : Bundle, url : Urls]

\* One type invariant for the whole pipeline.
TypeOK ==
    /\ tag \in [Objects -> Commits]
    /\ hosted \in [Objects -> Bundle \cup {None}]
    /\ bound \in [Objects -> Bundle \cup {None}]
    /\ cand \in [Objects -> Candidate \cup {None}]
    /\ rel \in [Objects -> Entry]
    /\ branch \in [Objects -> Candidate \cup {None}]
    /\ prOpen \in [Objects -> BOOLEAN]
    /\ run \in [Runs -> RunState]
    /\ uploaded \in [Runs -> Candidate \cup {None}]
    /\ prs \in [Authors \cup Objects -> PullRequest \cup {None}]
    /\ legacy \in [Objects -> [base : Entry] \cup {None}]
    /\ op \in [Objects -> {"idle", "publish"}]
    /\ manual \subseteq Objects /\ unserved \subseteq Objects
    /\ batch \in [pc : {"idle", "inspect", "download", "publish"},
                  todo : SUBSET Job]
    /\ events \in Nat

-----------------------------------------------------------------------------
(* Shared rules. *)

\* What a download of an object's artifact URL returns, None for a failure.
Served(o, url) == IF url = "mirror" THEN bound[o] ELSE hosted[o]

\* run_host_verifier: accepted bytes whose embedded identity is the object's.
HostVerified(o, b) == b \in HostAccepts /\ Manifest[b.commit] = o

\* validate_module and _validate_release of a proposed entry.
ValidRelease(o, x) == x.channel = "stable" => o \notin Prerelease

\* Mutant: any change of the URL alone is taken for a promotion to the mirror.
IsUrlChange(proposed, published) == [proposed EXCEPT !.url = published.url] = published

\* _is_mirror_promotion: the one change a published release may make.
IsMirrorPromotion(proposed, published) ==
    /\ published.url = "github" /\ proposed.url = "mirror"
    /\ [proposed EXCEPT !.url = published.url] = published

\* validate_immutability of one entry against the base branch.
Immutable(proposed, published) ==
    \/ published = None
    \/ /\ proposed # None
       /\ proposed = published \/ IsMirrorPromotion(proposed, published)

\* candidate_release: the registry entry a candidate stands for.
ReleaseOf(c) ==
    [commit |-> c.commit, digest |-> c.bundle, channel |-> c.channel, url |-> "mirror"]

SameProvenance(x, y) == x.commit = y.commit /\ x.bundle = y.bundle

\* store_candidate compares every field but builder_commit and artifact_candidate.
SameCandidate(x, y) ==
    SameProvenance(x, y) /\ x.channel = y.channel /\ x.status = y.status

Event == events < MaxEvents /\ events' = events + 1

\* A builder run before it is dispatched.
Fresh == [pc |-> "idle", obj |-> Order[1], channel |-> CHOOSE c \in Channels : TRUE,
          localCand |-> None, tree |-> Imported, commit |-> None, built |-> None,
          found |-> None, outcome |-> "none"]

\* What an earlier run left in review.
Earlier(r) == {o \in Objects : Proposed[o] # None /\ Proposed[o].run = r}

Init ==
    /\ tag = Tagged
    /\ hosted = [o \in Objects |-> IF Imported[o] = None THEN None ELSE Imported[o].digest]
    /\ bound = [o \in Objects |-> IF Imported[o] # None /\ Imported[o].url = "mirror"
                                 THEN Imported[o].digest ELSE None]
    /\ cand = [o \in Objects |-> None]
    /\ rel = Imported
    /\ branch = Proposed
    /\ prOpen = [o \in Objects |-> Proposed[o] # None]
    /\ run = [r \in Runs |-> IF Earlier(r) = {} THEN Fresh
                             ELSE [Fresh EXCEPT !.pc = "done", !.outcome = "proposed",
                                                !.obj = CHOOSE o \in Earlier(r) : TRUE]]
    /\ uploaded = [r \in Runs |-> IF Earlier(r) = {} THEN None
                                  ELSE Proposed[CHOOSE o \in Earlier(r) : TRUE]]
    /\ prs = [s \in Authors \cup Objects |-> None]
    /\ legacy = [o \in Objects |-> None]
    /\ op = [o \in Objects |-> "idle"]
    /\ manual = {} /\ unserved = {}
    /\ batch = [pc |-> "idle", todo |-> {}]
    /\ events = 0

-----------------------------------------------------------------------------
(* The central builder. *)

Step(r, label) == run' = [run EXCEPT ![r].pc = label]

\* The runner and its checkouts are discarded.
End(r, result) ==
    run' = [run EXCEPT ![r] = [Fresh EXCEPT !.pc = "done", !.obj = run[r].obj, !.outcome = result]]

\* workflow_dispatch for an allowlisted module: github.sha is main right now.
Dispatch(r, q) ==
    /\ run[r].pc = "idle"
    /\ ModuleOf[q.obj] \in Allowlisted
    /\ run' = [run EXCEPT ![r] = [@ EXCEPT !.pc = "queued", !.obj = q.obj, !.tree = rel,
                                   !.channel = q.channel, !.localCand = cand[q.obj]]]
    /\ UNCHANGED offRun

\* The workflow's concurrency group: one running workflow per object.
Start(r) ==
    /\ run[r].pc = "queued"
    /\ \A q \in Runs : run[q].obj = run[r].obj => run[q].pc \notin Active
    /\ Step(r, "checkout")
    /\ UNCHANGED offRun

\* prepare_checkout and validate_source: the tag names a commit of this version.
FirstCheckout(r) ==
    LET c == tag[run[r].obj] IN
    /\ run[r].pc = "checkout"
    /\ IF Manifest[c] = run[r].obj
       THEN run' = [run EXCEPT ![r].pc = "second", ![r].commit = c]
       ELSE End(r, "failed")
    /\ UNCHANGED offRun

\* The second, independent resolution of the tag must agree.
SecondCheckout(r) ==
    /\ run[r].pc = "second"
    /\ IF tag[run[r].obj] = run[r].commit THEN Step(r, "build") ELSE End(r, "failed")
    /\ UNCHANGED offRun

\* build_backend, build_frontend and assemble_bundle of one checkout.
BuildBackend(c) == Wheels[c]
BuildFrontend(c) == Fronts[c]
Bundles(c) == {[commit |-> c, wheel |-> w, front |-> f] : w \in BuildBackend(c), f \in BuildFrontend(c)}

\* Two builds, compared byte for byte.
BuildTwice(r) ==
    /\ run[r].pc = "build"
    /\ \E first, second \in Bundles(run[r].commit) :
         IF first = second
         THEN run' = [run EXCEPT ![r].pc = "main", ![r].built = first]
         ELSE End(r, "failed")
    /\ UNCHANGED offRun

\* A record agrees with what the run built.
Agrees(r, c) == c = None \/ SameProvenance(c, [commit |-> run[r].commit, bundle |-> run[r].built])

\* check_candidate_history, first the local file and the remote main ...
CheckMainHistory(r) ==
    /\ run[r].pc = "main"
    /\ IF Agrees(r, run[r].localCand) /\ Agrees(r, cand[run[r].obj])
       THEN Step(r, "branch") ELSE End(r, "failed")
    /\ UNCHANGED offRun

\* ... then the remote automation branch.
CheckBranchHistory(r) ==
    /\ run[r].pc = "branch"
    /\ IF Agrees(r, branch[run[r].obj]) THEN Step(r, "host") ELSE End(r, "failed")
    /\ UNCHANGED offRun

\* _dependency_candidates: the newest registered release the constraint admits.
Dependency(tree, c, m) ==
    LET found == {i \in DOMAIN Order : /\ ModuleOf[Order[i]] = m /\ tree[Order[i]] # None
                                       /\ Order[i] \in Satisfies[c]}
    IN  IF found = {} THEN None
        ELSE Order[CHOOSE i \in found : \A j \in found : j <= i]

\* run_host_lifecycle: dependencies by their registered digest, then the bundle.
HostLifecycle(tree, o, b) ==
    /\ \A m \in Needs[b.commit] :
         LET d == Dependency(tree, b.commit, m) IN
         /\ d # None
         /\ Served(d, tree[d].url) = tree[d].digest
         /\ tree[d].digest \in HostAccepts
    /\ HostVerified(o, b)

\* A module has a reviewed identity once some release of it is on main.
Registered(tree, m) == \E o \in Objects : ModuleOf[o] = m /\ tree[o] # None

\* check_registry_immutability against the checked out registry.
RegistryStatus(tree, o, c, b) ==
    IF ~Registered(tree, ModuleOf[o]) THEN "conflict"
    ELSE IF tree[o] = None THEN "new"
    ELSE IF tree[o].commit = c /\ tree[o].digest = b THEN "already-registered"
    ELSE "conflict"

\* create_candidate: the provenance record of a run.
NewCandidate(r, status) ==
    [commit |-> run[r].commit, bundle |-> run[r].built, channel |-> run[r].channel,
     status |-> status, run |-> r]

\* The candidate archive is uploaded and the build job ends.
Upload(r, c) ==
    /\ uploaded' = [uploaded EXCEPT ![r] = c]
    /\ Step(r, "review")

\* Mutant: a conflict with the registry is only recorded.
EmitUnguarded(r) ==
    LET s == run[r] IN
    /\ s.pc = "host"
    /\ HostLifecycle(s.tree, s.obj, s.built)
    /\ Upload(r, NewCandidate(r, RegistryStatus(s.tree, s.obj, s.commit, s.built)))
    /\ UNCHANGED <<bound, mainVars, reviewVars, offBuild>>

\* Mutant: provenance names whatever the tag points to by now.
EmitRetagged(r) ==
    LET s == run[r] IN
    /\ s.pc = "host"
    /\ HostLifecycle(s.tree, s.obj, s.built)
    /\ Upload(r, [NewCandidate(r, "new") EXCEPT !.commit = tag[s.obj]])
    /\ UNCHANGED <<bound, mainVars, reviewVars, offBuild>>

\* Host contract passed and no conflict with the registry: provenance is
\* written and uploaded.
EmitCandidate(r) ==
    LET s == run[r]
        status == RegistryStatus(s.tree, s.obj, s.commit, s.built)
    IN
    /\ s.pc = "host"
    /\ IF HostLifecycle(s.tree, s.obj, s.built) /\ status # "conflict"
       THEN Upload(r, NewCandidate(r, status))
       ELSE End(r, "failed") /\ UNCHANGED uploaded
    /\ UNCHANGED <<bound, mainVars, reviewVars, offBuild>>

\* prepare-review checks out the automation branch, or github.sha without one.
ReviewCheckout(r) ==
    LET o == run[r].obj IN
    /\ run[r].pc = "review"
    /\ run' = [run EXCEPT ![r].pc = "push",
                          ![r].found = IF branch[o] = None THEN run[r].localCand ELSE branch[o]]
    /\ UNCHANGED offRun

\* store_candidate on that checkout; a new file is committed and pushed.
StoreCandidate(r) ==
    LET o == run[r].obj  f == run[r].found IN
    /\ run[r].pc = "push"
    /\ IF f = None
       THEN branch' = [branch EXCEPT ![o] = uploaded[r]] /\ Step(r, "pr")
       ELSE /\ End(r, IF SameCandidate(f, uploaded[r]) THEN "unchanged" ELSE "refused")
            /\ UNCHANGED branch
    /\ UNCHANGED <<bound, mainVars, prOpen, uploaded, offBuild>>

\* The pull request of a branch this run pushed.
OpenCandidate(r) ==
    LET o == run[r].obj IN
    /\ run[r].pc = "pr"
    /\ IF branch[o] = None THEN End(r, "failed") ELSE End(r, "proposed")
    /\ prOpen' = [prOpen EXCEPT ![o] = @ \/ branch[o] \notin {None, cand[o]}]
    /\ UNCHANGED <<bound, mainVars, branch, uploaded, offBuild>>

\* Any command of a run may fail or time out.
RunFails(r) ==
    /\ run[r].pc \in Active
    /\ End(r, "failed")
    /\ UNCHANGED offRun

-----------------------------------------------------------------------------
(* Review of candidates, and publication of the reviewed bytes. *)

\* A person merges the candidate; main already holding another one conflicts.
MergeCandidate(o) ==
    /\ prOpen[o]
    /\ cand[o] \in {None, branch[o]}
    /\ cand' = [cand EXCEPT ![o] = branch[o]]
    /\ prOpen' = [prOpen EXCEPT ![o] = FALSE]
    /\ UNCHANGED <<bound, rel, branch, buildVars, offBuild>>

\* Also a branch whose run failed before its pull request.
ReopenCandidate(o) ==
    /\ ~prOpen[o] /\ branch[o] \notin {None, cand[o]}
    /\ prOpen' = [prOpen EXCEPT ![o] = TRUE]
    /\ UNCHANGED <<bound, mainVars, branch, buildVars, offBuild>>

CloseCandidate(o) ==
    /\ prOpen[o]
    /\ prOpen' = [prOpen EXCEPT ![o] = FALSE]
    /\ UNCHANGED <<bound, mainVars, branch, buildVars, offBuild>>

DeleteBranch(o) ==
    /\ branch[o] # None /\ ~prOpen[o]
    /\ branch' = [branch EXCEPT ![o] = None]
    /\ UNCHANGED <<bound, mainVars, prOpen, buildVars, offBuild>>

\* download_reviewed_artifact: the archive of the run the record names.
ReviewedArchive(c) ==
    run[c.run].outcome \in {"proposed", "unchanged"} /\ uploaded[c.run] = c

\* registry_promote.py: the record is on main, its bytes are downloaded from
\* the run it names or given as a file.
LoadReviewed(o) ==
    /\ op[o] = "idle" /\ cand[o] # None
    /\ ReviewedArchive(cand[o]) \/ [obj |-> o, bytes |-> cand[o].bundle] \in Files
    /\ op' = [op EXCEPT ![o] = "publish"]
    /\ UNCHANGED <<bound, mainVars, reviewVars, buildVars, worldVars, batch, pastVars, prs, legacy>>

\* store.publish: the name is bound once; afterwards nothing changes.
Publish(o, b) == Store!Bind(o, b) \/ (bound[o] # None /\ UNCHANGED bound)

PublishReviewed(o) ==
    /\ op[o] = "publish"
    /\ Publish(o, cand[o].bundle)
    /\ op' = [op EXCEPT ![o] = "idle"]
    /\ UNCHANGED <<mainVars, reviewVars, buildVars, worldVars, batch, pastVars, prs, legacy>>

\* publish_artifact.py: any file under any name, with the digest the operator
\* gives; nothing asks whether it was reviewed.
PublishFile(x) ==
    /\ Event
    /\ Publish(x.obj, x.bytes)
    /\ manual' = IF bound[x.obj] = None THEN manual \cup {x.obj} ELSE manual
    /\ UNCHANGED <<mainVars, reviewVars, buildVars, tag, hosted, batch, unserved, prs, legacy, op>>

-----------------------------------------------------------------------------
(* Legacy JSON promotion: one workflow per object. *)

LegacyCheckout(o) ==
    /\ ModuleOf[o] \in Allowlisted /\ legacy[o] = None
    /\ legacy' = [legacy EXCEPT ![o] = [base |-> rel[o]]]
    /\ UNCHANGED <<bound, mainVars, reviewVars, buildVars, worldVars, pastVars, batch, prs, op>>

\* promote(): a reviewed candidate, not yet registered, whose permanent URL
\* serves exactly its bytes.  A missing artifact only leaves a plan.
Promotable(o) ==
    /\ cand[o] # None /\ Registered(rel, ModuleOf[o])
    /\ legacy[o].base = None
    /\ ValidRelease(o, ReleaseOf(cand[o]))
    /\ Served(o, "mirror") = cand[o].bundle

\* The workflow never replaces an open promotion branch.
LegacyPromote(o) ==
    /\ legacy[o] # None
    /\ legacy' = [legacy EXCEPT ![o] = None]
    /\ prs' = IF Promotable(o) /\ prs[o] = None
              THEN [prs EXCEPT ![o] = [obj |-> o, base |-> None, new |-> ReleaseOf(cand[o]),
                                       checked |-> FALSE, served |-> TRUE]]
              ELSE prs
    /\ UNCHANGED <<bound, mainVars, reviewVars, buildVars, worldVars, pastVars, batch, op>>

-----------------------------------------------------------------------------
(* Registry pull requests. *)

\* verify_public_release: the canonical URL serves the registered digest.
PublicVerified(o) == rel[o] # None /\ Served(o, "mirror") = rel[o].digest

\* An author opens a pull request.  Before one that moves a URL to the mirror
\* the author is asked to run the public check; nothing enforces it.
Propose(a, d) ==
    /\ Event /\ prs[a] = None
    /\ prs' = [prs EXCEPT ![a] = [obj |-> d.obj, base |-> rel[d.obj], new |-> d.new,
                                  checked |-> FALSE, served |-> PublicVerified(d.obj)]]
    /\ UNCHANGED <<bound, mainVars, reviewVars, buildVars, tag, hosted, pastVars, batch, legacy, op>>

\* Git can merge the entry: only one side changed it, or both the same way.
Mergeable(p) == rel[p.obj] \in {p.base, p.new}

\* Mutant: artifacts on the registry's own host are taken for granted.
GithubArtifactGate(p) ==
    p.new.url = "github" => Served(p.obj, "github") = p.new.digest

\* find_new_releases: identities the base branch does not have.
IsNew(p) == rel[p.obj] = None

\* verify_release_candidates downloads and verifies the new ones.
ArtifactGate(p) ==
    IsNew(p) =>
        /\ Served(p.obj, p.new.url) = p.new.digest
        /\ HostVerified(p.obj, p.new.digest)

\* The registry workflow on a pull request, against main as it is now.
Gates(p) ==
    /\ Mergeable(p)
    /\ Immutable(p.new, rel[p.obj])
    /\ p.new # None
    /\ ValidRelease(p.obj, p.new)
    /\ ArtifactGate(p)

CheckPullRequest(s) ==
    /\ prs[s] # None /\ ~prs[s].checked
    /\ prs' = [prs EXCEPT ![s] = IF Gates(prs[s]) THEN [prs[s] EXCEPT !.checked = TRUE]
                                 ELSE None]
    /\ UNCHANGED <<bound, mainVars, reviewVars, buildVars, worldVars, pastVars, batch, legacy, op>>

\* A mirror promotion: CI never downloads its bytes, and when it was opened they
\* were not there.
Unchecked(p) ==
    rel[p.obj] # None /\ IsMirrorPromotion(p.new, rel[p.obj]) /\ ~p.served

\* Merged later, with the result of that check; main may have moved on.
MergePullRequest(s) ==
    /\ prs[s] # None /\ prs[s].checked /\ Mergeable(prs[s])
    /\ rel' = [rel EXCEPT ![prs[s].obj] = prs[s].new]
    /\ unserved' = IF Unchecked(prs[s]) THEN unserved \cup {prs[s].obj} ELSE unserved
    /\ prs' = [prs EXCEPT ![s] = None]
    /\ UNCHANGED <<bound, cand, manual, reviewVars, buildVars, worldVars, batch, legacy, op>>

ClosePullRequest(s) ==
    /\ prs[s] # None
    /\ prs' = [prs EXCEPT ![s] = None]
    /\ UNCHANGED <<bound, mainVars, reviewVars, buildVars, worldVars, pastVars, batch, legacy, op>>

-----------------------------------------------------------------------------
(* The mirror loop of a deployment, or of the targeted recovery playbook. *)

\* select_all_releases (every registered object) or select_release (one).
MirrorStart(targets) ==
    /\ Event /\ batch.pc = "idle"
    /\ targets # {} /\ \A o \in targets : rel[o] # None
    /\ batch' = [pc |-> "inspect",
                 todo |-> {[at |-> i, digest |-> rel[Order[i]].digest, url |-> rel[Order[i]].url] :
                             i \in {j \in DOMAIN Order : Order[j] \in targets}}]
    /\ UNCHANGED <<bound, mainVars, reviewVars, buildVars, tag, hosted, pastVars, prs, legacy, op>>

\* The loop takes the releases in their sorted order.
FirstJob(jobs) == CHOOSE x \in jobs : \A y \in jobs : x.at <= y.at

\* The first failure stops the loop; what was published stays.
MirrorGoto(label) ==
    batch' = [batch EXCEPT !.pc = label, !.todo = IF label = "idle" THEN {} ELSE @]

\* publish_candidate: stored bytes are republished, a missing canonical
\* artifact fails closed, other URLs are downloaded.
MirrorInspect ==
    LET x == FirstJob(batch.todo)  o == Order[x.at] IN
    /\ batch.pc = "inspect"
    /\ MirrorGoto(IF bound[o] = x.digest THEN "publish"
                  ELSE IF bound[o] = None /\ x.url = "github" THEN "download" ELSE "idle")
    /\ UNCHANGED <<bound, mainVars, reviewVars, buildVars, worldVars, pastVars, prs, legacy, op>>

\* Mutant: the store is told to expect whatever was downloaded.
MirrorDownloadUnchecked ==
    LET x == FirstJob(batch.todo)  o == Order[x.at] IN
    /\ batch.pc = "download" /\ hosted[o] # None
    /\ batch' = [batch EXCEPT !.pc = "publish", !.todo = (@ \ {x}) \cup {[x EXCEPT !.digest = hosted[o]]}]
    /\ UNCHANGED <<bound, mainVars, reviewVars, buildVars, worldVars, pastVars, prs, legacy, op>>

\* The download must have the registered digest.
MirrorDownload ==
    LET x == FirstJob(batch.todo)  o == Order[x.at] IN
    /\ batch.pc = "download"
    /\ MirrorGoto(IF hosted[o] = x.digest THEN "publish" ELSE "idle")
    /\ UNCHANGED <<bound, mainVars, reviewVars, buildVars, worldVars, pastVars, prs, legacy, op>>

\* The same name may have been published since the inspection.
MirrorPublish ==
    LET x == FirstJob(batch.todo)  o == Order[x.at]  rest == batch.todo \ {x} IN
    /\ batch.pc = "publish"
    /\ Publish(o, x.digest)
    /\ IF bound[o] \in {None, x.digest}
       THEN batch' = [pc |-> IF rest = {} THEN "idle" ELSE "inspect", todo |-> rest]
       ELSE MirrorGoto("idle")
    /\ UNCHANGED <<mainVars, reviewVars, buildVars, worldVars, pastVars, prs, legacy, op>>

-----------------------------------------------------------------------------
(* The world outside: tags and release assets may move. *)

offWorld == <<bound, mainVars, reviewVars, buildVars, batch, pastVars, prs, legacy, op>>

MoveTag(x) ==
    /\ Event /\ tag[x.obj] # x.commit
    /\ tag' = [tag EXCEPT ![x.obj] = x.commit]
    /\ UNCHANGED <<offWorld, hosted>>

UploadAsset(x) ==
    /\ Event /\ hosted[x.obj] # x.bytes
    /\ hosted' = [hosted EXCEPT ![x.obj] = x.bytes]
    /\ UNCHANGED <<offWorld, tag>>

BuilderStep(r) ==
    \/ Start(r) \/ FirstCheckout(r) \/ SecondCheckout(r) \/ BuildTwice(r)
    \/ CheckMainHistory(r) \/ CheckBranchHistory(r) \/ EmitCandidate(r)
    \/ ReviewCheckout(r) \/ StoreCandidate(r) \/ OpenCandidate(r)

Next ==
    \/ \E r \in Runs : BuilderStep(r) \/ RunFails(r)
    \/ \E q \in Requests : LegacyCheckout(q.obj) \/ \E r \in Runs : Dispatch(r, q)
    \/ \E o \in Objects : \/ MergeCandidate(o) \/ ReopenCandidate(o) \/ CloseCandidate(o) \/ DeleteBranch(o)
                          \/ LoadReviewed(o) \/ PublishReviewed(o)
                          \/ LegacyPromote(o)
    \/ \E x \in Files : PublishFile(x)
    \/ \E a \in Authors, d \in Drafts : Propose(a, d)
    \/ \E s \in Authors \cup Objects :
          CheckPullRequest(s) \/ MergePullRequest(s) \/ ClosePullRequest(s)
    \/ \E targets \in {{o} : o \in Objects} \cup {{o \in Objects : rel[o] # None}} :
          MirrorStart(targets)
    \/ MirrorInspect \/ MirrorDownload \/ MirrorPublish
    \/ \E x \in Retags : MoveTag(x)
    \/ \E x \in Assets : UploadAsset(x)

Spec == Init /\ [][Next]_vars

-----------------------------------------------------------------------------
(* Properties. *)

\* validate_immutability over stale pull requests: whatever order checks and
\* merges happen in, an entry on main is never removed and never changed but
\* for the one move of its URL from GitHub to the mirror.
HistoryImmutable ==
    [][\A o \in Objects : rel[o] # None =>
          /\ rel'[o] # None
          /\ rel'[o] = rel[o] \/ (rel[o].url = "github" /\ rel'[o] = [rel[o] EXCEPT !.url = "mirror"])]_vars

\* A release whose URL is the canonical mirror is really there: the registry
\* never points clients at bytes the store lacks or that differ, through legacy
\* promotions, direct pull requests and mirror promotions opened when the mirror
\* had the bytes, whatever operators publish by hand.  The mirror promotions
\* that nobody checked, which CI lets pass, are the one exception.
MirrorUrlServed ==
    \A o \in Objects \ unserved :
        rel[o] # None /\ rel[o].url = "mirror" => bound[o] = rel[o].digest

\* Nothing reaches the permanent store, unless an operator puts it there by
\* hand, but what a reviewed record on main, a candidate or a release, names
\* exactly so for this object.
StoredIsReviewed ==
    \A o \in Objects \ manual : bound[o] # None =>
        \/ cand[o] # None /\ cand[o].bundle = bound[o]
        \/ rel[o] # None /\ rel[o].digest = bound[o]

\* Provenance is the truth about the bytes: every candidate anywhere was built
\* from the commit it names, and that commit declares this very version, even
\* when tags move while the builder runs.
ProvenanceIsTrue ==
    \A o \in Objects :
        \A c \in {cand[o], branch[o]} \cup {uploaded[r] : r \in {q \in Runs : run[q].obj = o}} :
            c # None => c.bundle.commit = c.commit /\ Manifest[c.commit] = o
=============================================================================
