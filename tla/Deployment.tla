----------------------------- MODULE Deployment -----------------------------
(***************************************************************************)
(* Release deployment and retention on one host (deploy/ansible): the      *)
(* flock shared by deployments and cleanup, assembly of releases/<sha>,    *)
(* activation through the `current` link with rollback, the `previous`     *)
(* link and pruning, with processes killed between any two tasks.          *)
(*                                                                         *)
(* A release has its sources (tree), its installed dependencies and built  *)
(* output (build), and the .release-ready marker.  Every task may fail;    *)
(* what the tests, builds and probes look at is success or failure.        *)
(***************************************************************************)
EXTENDS Integers, FiniteSets

CONSTANTS
    Releases,   \* commit SHAs
    Processes,  \* maintenance invocations that may be under way together
    None,
    Retention,  \* packages_registry_release_retention
    MaxRuns,    \* bound: invocations in all
    MaxKills    \* bound: processes killed

ASSUME DeploymentAssumption ==
    /\ None \notin Releases \cup Processes
    /\ IsFiniteSet(Releases) /\ Cardinality(Releases) >= 2
    /\ Retention \in Nat /\ Retention >= 2
    /\ MaxRuns \in Nat /\ MaxKills \in Nat

Labels == {"idle", "lock", "check", "inspect", "materialize", "build", "validate", "mark", "mirror",
           "switch", "restart", "probe", "persist", "restore", "restartOld", "probeOld",
           "select", "prune", "remove"}
Deploying == Labels \ {"idle", "lock", "check", "select", "prune", "remove"}
Activating == {"restart", "probe", "persist", "restore", "restartOld", "probeOld"}

VARIABLES
    release,   \* what is at releases/<sha>
    older,     \* pairs of releases, the first with the earlier mtime
    age,       \* pairs of releases, the first with the earlier last deployment
    torn,      \* releases whose removal has begun since they were made
    current, previous,  \* the links
    serving,   \* release the services were started from
    lockFds,   \* open descriptors that hold the maintenance lock
    pc, job,   \* next task of each process; SHA to deploy, or None: cleanup
    prior,     \* `current` as the deployment captured it
    doomed,    \* releases the cleanup has selected and not yet removed
    verified,  \* releases that passed the smoke checks since last written to
    reworked,  \* releases that had, and were written to since by a redeployment
    disturbed, \* a deployment was killed while activating, or failed to roll back
    runs, kills

treeVars == <<release, older, age, torn>>
checkVars == <<verified, reworked>>
linkVars == <<current, previous, serving>>
workVars == <<job, prior, doomed>>
vars == <<treeVars, linkVars, lockFds, pc, workVars, checkVars, disturbed, runs, kills>>

Absent == [tree |-> "none", build |-> "none", marker |-> FALSE]
Finished == [tree |-> "whole", build |-> "good", marker |-> TRUE]
Present == {r \in Releases : release[r].tree # "none"}

\* One type invariant.
TypeOK ==
    /\ release \in [Releases -> [tree : {"none", "partial", "whole"},
                                 build : {"none", "running", "good", "broken"},
                                 marker : BOOLEAN]]
    /\ older \subseteq Present \X Present /\ age \subseteq Present \X Present
    /\ torn \subseteq Present
    /\ current \in Releases \cup {None} /\ previous \in Releases \cup {None}
    /\ serving \in Releases \cup {None}
    /\ lockFds \subseteq (Processes \X {"runner", "work"})
    /\ pc \in [Processes -> Labels]
    /\ job \in [Processes -> Releases \cup {None}]
    /\ prior \in [Processes -> Releases \cup {None}]
    /\ doomed \in [Processes -> SUBSET Releases]
    /\ verified \subseteq Releases /\ reworked \subseteq Releases
    /\ disturbed \in BOOLEAN
    /\ runs \in Nat /\ kills \in Nat

\* A bare host, or one with two releases deployed one after the other.
Init ==
    /\ \/ /\ current = None /\ previous = None
          /\ older = {}
       \/ \E old, new \in Releases :
            /\ old # new
            /\ current = new /\ previous = old
            /\ older = {<<old, new>>}
    /\ age = older /\ torn = {}
    /\ serving = current
    /\ verified = {current, previous} \ {None} /\ reworked = {}
    /\ release = [r \in Releases |-> IF r \in verified THEN Finished ELSE Absent]
    /\ lockFds = {}
    /\ pc = [p \in Processes |-> "idle"]
    /\ job = [p \in Processes |-> None] /\ prior = [p \in Processes |-> None]
    /\ doomed = [p \in Processes |-> {}]
    /\ disturbed = FALSE
    /\ runs = 0 /\ kills = 0

-----------------------------------------------------------------------------
Goto(p, label) == pc' = [pc EXCEPT ![p] = label]

\* The process is gone and its descriptors are closed.
End(p) ==
    /\ Goto(p, "idle")
    /\ lockFds' = {fd \in lockFds : fd[1] # p}
    /\ job' = [job EXCEPT ![p] = None]
    /\ prior' = [prior EXCEPT ![p] = None]
    /\ doomed' = [doomed EXCEPT ![p] = {}]

Step(p, from, to) ==
    /\ pc[p] = from
    /\ Goto(p, to)
    /\ UNCHANGED <<lockFds, workVars, runs, kills>>

\* An order of the other releases, once r is gone or written to.
Without(order, r) == {x \in order : r \notin {x[1], x[2]}}

\* r was written to just now.
Touched(order, r) == Without(order, r) \cup ((Present \ {r}) \X {r})

\* A deployment writes to r, directly under releases/<sha>.
Written(r) == older' = Touched(older, r) /\ age' = Touched(age, r)

Start(p, r) ==
    /\ pc[p] = "idle"
    /\ runs < MaxRuns /\ runs' = runs + 1
    /\ job' = [job EXCEPT ![p] = r]
    /\ Goto(p, "lock")
    /\ UNCHANGED <<treeVars, linkVars, lockFds, prior, doomed, checkVars, disturbed, kills>>

Deploy(p) == \E r \in Releases : Start(p, r)
Cleanup(p) == Start(p, None)

\* Mutant: pass_fds is forgotten, the runner alone holds the lock.
FdsUninherited(p) == {<<p, "runner">>}

\* The runner's descriptor, and the one Ansible inherits from it.
Fds(p) ==
    IF job[p] = None THEN {<<p, "runner">>} ELSE {<<p, "runner">>, <<p, "work">>}

\* exclusive_lock does not wait: a deployment is refused, a cleanup deferred.
Lock(p) ==
    /\ pc[p] = "lock"
    /\ \/ lockFds # {} /\ End(p)
       \/ /\ lockFds = {}
          /\ lockFds' = Fds(p)
          /\ Goto(p, "check")
          /\ UNCHANGED workVars
    /\ UNCHANGED <<treeVars, linkVars, checkVars, disturbed, runs, kills>>

\* check_legacy_cleanup: any other live cleanup process refuses this one, even
\* under the lock.
CheckLegacy(p) ==
    /\ pc[p] = "check"
    /\ LET cleanups == {q \in Processes \ {p} : pc[q] # "idle" /\ job[q] = None} IN
       \/ cleanups # {} /\ End(p)
       \/ /\ cleanups = {}
          /\ Goto(p, IF job[p] = None THEN "select" ELSE "inspect")
          /\ UNCHANGED <<lockFds, workVars>>
    /\ UNCHANGED <<treeVars, linkVars, checkVars, disturbed, runs, kills>>

-----------------------------------------------------------------------------
(* Assembly of the release.  A failure before activation ends the run.     *)

\* The current link is captured; a release with its marker is reused, an
\* incomplete one removed first.
Inspect(p) ==
    LET r == job[p] IN
    /\ pc[p] = "inspect"
    /\ prior' = [prior EXCEPT ![p] = current]
    /\ \/ /\ release[r].marker
          /\ Goto(p, "build")
          /\ UNCHANGED treeVars
       \/ /\ ~release[r].marker
          /\ release' = [release EXCEPT ![r] = [Absent EXCEPT !.tree = "partial"]]
          /\ Written(r)
          /\ torn' = torn \ {r}
          /\ Goto(p, "materialize")
    /\ UNCHANGED <<linkVars, lockFds, job, doomed, checkVars, disturbed, runs, kills>>

\* git archive.
Materialize(p) ==
    /\ Step(p, "materialize", "build")
    /\ release' = [release EXCEPT ![job[p]].tree = "whole"]
    /\ Written(job[p])
    /\ UNCHANGED <<torn, linkVars, checkVars, disturbed>>

\* Dependencies, frontend build and dist are made in place, in a reused
\* release over those it has, be it the one the services run; a reused
\* release may keep its mtime.
Build(p) ==
    /\ Step(p, "build", "validate")
    /\ release' = [release EXCEPT ![job[p]].build = "running"]
    /\ \/ Written(job[p])
       \/ release[job[p]].marker /\ UNCHANGED <<older, age>>
    /\ verified' = verified \ {job[p]}
    /\ reworked' = reworked \cup (verified \cap {job[p]})
    /\ UNCHANGED <<torn, linkVars, disturbed>>

\* The builds and checks went through; they do not compare the whole tree
\* with the commit.
Validate(p) ==
    /\ Step(p, "validate", "mark")
    /\ release' = [release EXCEPT ![job[p]].build = "good"]
    /\ UNCHANGED <<older, age, torn, linkVars, checkVars, disturbed>>

Mark(p) ==
    /\ Step(p, "mark", "mirror")
    /\ release' = [release EXCEPT ![job[p]].marker = TRUE]
    /\ UNCHANGED <<older, age, torn, linkVars, checkVars, disturbed>>

\* Missing artifacts are published and nginx is configured.
Mirror(p) ==
    /\ Step(p, "mirror", "switch")
    /\ UNCHANGED <<treeVars, linkVars, checkVars, disturbed>>

\* A task fails before activation: full disk, a failing build or test, a
\* conflicting artifact.  An unfinished build stays behind.
FailAssembly(p) ==
    /\ pc[p] \in {"inspect", "materialize", "build", "validate", "mark", "mirror"}
    /\ \/ /\ pc[p] = "validate"
          /\ release' = [release EXCEPT ![job[p]].build = "broken"]
       \/ /\ pc[p] # "validate"
          /\ UNCHANGED release
    /\ End(p)
    /\ UNCHANGED <<older, age, torn, linkVars, checkVars, disturbed, runs, kills>>

-----------------------------------------------------------------------------
(* Activation with rescue. *)

Switch(p) ==
    /\ Step(p, "switch", "restart")
    /\ current' = job[p]
    /\ UNCHANGED <<treeVars, previous, serving, checkVars, disturbed>>

Restart(p) ==
    /\ Step(p, "restart", "probe")
    /\ serving' = job[p]
    /\ UNCHANGED <<treeVars, current, previous, checkVars, disturbed>>

\* Processes, auth, local and public TLS answers, public artifacts.
Probe(p) ==
    /\ Step(p, "probe", "persist")
    /\ release[job[p]].build = "good"
    /\ verified' = verified \cup {job[p]}
    /\ reworked' = reworked \ {job[p]}
    /\ UNCHANGED <<treeVars, linkVars, disturbed>>

\* A different predecessor becomes `previous`; its release has to exist.
Persist(p) ==
    /\ pc[p] = "persist"
    /\ prior[p] \in Present \cup {None}
    /\ previous' = IF prior[p] \in {None, job[p]} THEN previous ELSE prior[p]
    /\ End(p)
    /\ UNCHANGED <<treeVars, current, serving, checkVars, disturbed, runs, kills>>

\* A task of the activation fails.
FailActivation(p) ==
    /\ pc[p] \in {"switch", "restart", "probe", "persist"}
    /\ Goto(p, "restore")
    /\ UNCHANGED <<treeVars, linkVars, lockFds, workVars, checkVars, disturbed, runs, kills>>

\* Mutant: the first deployment's rescue links to the empty path.
RestoreUnconditionally(p) ==
    /\ Step(p, "restore", "restartOld")
    /\ current' = IF prior[p] = None THEN "" ELSE prior[p]
    /\ UNCHANGED <<treeVars, previous, serving, checkVars, disturbed>>

\* Back to the captured release; after a failed first one, to none.
Restore(p) ==
    /\ Step(p, "restore", "restartOld")
    /\ current' = prior[p]
    /\ UNCHANGED <<treeVars, previous, serving, checkVars, disturbed>>

\* Mutant: the services are not restarted after the rollback.
RestartOldSkipped(p) ==
    /\ Step(p, "restartOld", "probeOld")
    /\ UNCHANGED <<treeVars, linkVars, checkVars, disturbed>>

\* Restart on the old release; after a failed first one, stop.
RestartOld(p) ==
    /\ Step(p, "restartOld", "probeOld")
    /\ serving' = prior[p]
    /\ UNCHANGED <<treeVars, current, previous, checkVars, disturbed>>

\* The old release answers, and the deployment reports its failure.
ProbeOld(p) ==
    /\ pc[p] = "probeOld"
    /\ prior[p] # None => release[prior[p]].build = "good"
    /\ End(p)
    /\ UNCHANGED <<treeVars, linkVars, checkVars, disturbed, runs, kills>>

\* The rollback fails too, and both failures are reported.
FailRollback(p) ==
    /\ pc[p] \in {"restore", "restartOld", "probeOld"}
    /\ disturbed' = TRUE
    /\ End(p)
    /\ UNCHANGED <<treeVars, linkVars, checkVars, runs, kills>>

-----------------------------------------------------------------------------
(* prune_releases.py. *)

Protected == {current, previous}

Newer(r, among) == {s \in among : <<r, s>> \in older}

\* Mutant: one release too few is kept.
SelectedOffByOne ==
    {r \in Present \ Protected :
       Cardinality(Newer(r, Present \ Protected)) + 1 + Cardinality(Protected) >= Retention}

\* select_releases: all but the newest, counting the protected ones.
Selected ==
    {r \in Present \ Protected :
       Cardinality(Newer(r, Present \ Protected)) + Cardinality(Protected) >= Retention}

\* Nothing is deleted unless both links and every marker are in place.
Select(p) ==
    /\ pc[p] = "select"
    /\ \/ /\ Protected \subseteq Present /\ \A r \in Present : release[r].marker
          /\ doomed' = [doomed EXCEPT ![p] = Selected]
          /\ Goto(p, "prune")
          /\ UNCHANGED <<lockFds, job, prior>>
       \/ /\ ~(Protected \subseteq Present) \/ \E r \in Present : ~release[r].marker
          /\ End(p)
    /\ UNCHANGED <<treeVars, linkVars, checkVars, disturbed, runs, kills>>

\* rmtree of the next one begins, newest first; the marker may be among the
\* first files to go or among the last, and the first entry to go from the
\* release directory itself gives it a new mtime.
Prune(p) ==
    /\ pc[p] = "prune"
    /\ \E r \in doomed[p] \ Protected :
         /\ Newer(r, doomed[p]) = {}
         /\ \E marker \in BOOLEAN :
              release' = [release EXCEPT ![r] = [tree |-> "partial", build |-> "broken",
                                                 marker |-> marker]]
         /\ older' \in {older, Touched(older, r)}
         /\ torn' = torn \cup {r}
         /\ verified' = verified \ {r}
         /\ reworked' = reworked \ {r}
    /\ Goto(p, "remove")
    /\ UNCHANGED <<age, linkVars, lockFds, workVars, disturbed, runs, kills>>

Remove(p) ==
    /\ pc[p] = "remove"
    /\ \E r \in doomed[p] :
         /\ Newer(r, doomed[p]) = {}
         /\ release' = [release EXCEPT ![r] = Absent]
         /\ older' = Without(older, r) /\ age' = Without(age, r)
         /\ torn' = torn \ {r}
         /\ doomed' = [doomed EXCEPT ![p] = @ \ {r}]
    /\ Goto(p, "prune")
    /\ UNCHANGED <<linkVars, lockFds, job, prior, checkVars, disturbed, runs, kills>>

\* Nothing is left to remove, or a release became protected.
PruneEnds(p) ==
    /\ pc[p] = "prune"
    /\ doomed[p] = {} \/ \E r \in doomed[p] \cap Protected : Newer(r, doomed[p]) = {}
    /\ End(p)
    /\ UNCHANGED <<treeVars, linkVars, checkVars, disturbed, runs, kills>>

\* A mount inside a selected release, or rmtree fails half-way.
FailCleanup(p) ==
    /\ pc[p] \in {"prune", "remove"}
    /\ End(p)
    /\ UNCHANGED <<treeVars, linkVars, checkVars, disturbed, runs, kills>>

-----------------------------------------------------------------------------
\* systemd restarts a failed service (Restart=on-failure), or the host reboots:
\* the unit's paths go through `current`.
Respawn ==
    /\ serving \notin {None, current}
    /\ serving' = current
    /\ UNCHANGED <<treeVars, current, previous, lockFds, pc, workVars, checkVars, disturbed,
                   runs, kills>>

Kill == kills < MaxKills /\ kills' = kills + 1

\* Only the runner dies: the deployment goes on under the inherited lock.
KillRunner(p) ==
    /\ pc[p] \in Deploying
    /\ <<p, "runner">> \in lockFds
    /\ Kill
    /\ lockFds' = lockFds \ {<<p, "runner">>}
    /\ UNCHANGED <<treeVars, linkVars, pc, workVars, checkVars, disturbed, runs>>

\* The work dies: the async timeout, the OOM killer, a kill.  No rescue runs.
KillWork(p) ==
    /\ pc[p] # "idle"
    /\ Kill
    /\ disturbed' = (disturbed \/ pc[p] \in Activating)
    /\ End(p)
    /\ UNCHANGED <<treeVars, linkVars, checkVars, runs>>

Next ==
    \/ Respawn
    \/ \E p \in Processes :
         \/ Deploy(p)
         \/ Cleanup(p)
         \/ Lock(p)
         \/ CheckLegacy(p)
         \/ Inspect(p)
         \/ Materialize(p)
         \/ Build(p)
         \/ Validate(p)
         \/ Mark(p)
         \/ Mirror(p)
         \/ FailAssembly(p)
         \/ Switch(p)
         \/ Restart(p)
         \/ Probe(p)
         \/ Persist(p)
         \/ FailActivation(p)
         \/ Restore(p)
         \/ RestartOld(p)
         \/ ProbeOld(p)
         \/ FailRollback(p)
         \/ Select(p)
         \/ Prune(p)
         \/ Remove(p)
         \/ PruneEnds(p)
         \/ FailCleanup(p)
         \/ KillRunner(p)
         \/ KillWork(p)

Spec == Init /\ [][Next]_vars

-----------------------------------------------------------------------------
\* Whatever is killed, what the links point at and what a running deployment
\* would roll back to is never removed, even partly; nor is what the services
\* run, unless an activation was killed or its rollback failed.
ProtectedExist ==
    LET used == {current, previous} \cup {prior[p] : p \in Processes}
                  \cup (IF disturbed THEN {} ELSE {serving})
    IN  /\ used \ {None} \subseteq Present
        /\ \A p \in Processes : \A r \in doomed[p] :
             pc[p] = "remove" /\ Newer(r, doomed[p]) = {} => r \notin used

\* Between deployments the services run current, and what the links name has
\* passed its checks as it stands, unless an activation was killed, a rollback
\* failed, or a redeployment of that release has written to it in place and did
\* not get it through the checks again.
SettledIsVerified ==
    ~disturbed /\ (\A p \in Processes : pc[p] \notin Deploying) =>
      /\ serving = current
      /\ \A r \in {current, previous} \ {None} :
           r \in reworked \/ (r \in verified /\ release[r].build = "good")

\* A cleanup begins to remove a finished release only if it keeps Retention
\* others, every unprotected one of them deployed later, or left half-removed
\* by an interrupted cleanup: rmtree moved its mtime to the front, and with its
\* marker still there it is counted like a release.
RetentionKept ==
    [][\A r \in Releases :
         LET kept == Present \ UNION {doomed[p] : p \in Processes} IN
         release[r].tree = "whole" /\ release[r].marker /\ release'[r].tree # "whole" =>
           /\ Cardinality(kept) >= Retention
           /\ \A s \in kept \ Protected : <<r, s>> \in age \/ s \in torn]_vars

\* "Failures before activation never touch the active release": between
\* deployments the build of the active release is one that went through.
ActiveUntouched ==
    ~disturbed /\ current # None /\ (\A p \in Processes : pc[p] \notin Deploying) =>
      release[current].build = "good"
=============================================================================
