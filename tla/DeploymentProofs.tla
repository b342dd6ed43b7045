-------------------------- MODULE DeploymentProofs --------------------------
(***************************************************************************)
(* Machine-checked facts about Deployment, for any finite set of releases, *)
(* any processes, retention, and number of invocations and kills.          *)
(***************************************************************************)
EXTENDS Deployment, FiniteSetTheorems, TLAPS

Working(p) == pc[p] \notin {"idle", "lock"}
Pruning == {"prune", "remove"}
\* The deployment has captured `current`; it has not switched it yet.
Assembling == {"materialize", "build", "validate", "mark", "mirror", "switch"}
Captured == Assembling \cup Activating

\* The lock: at most one process works, under a descriptor of its own that
\* no killed runner takes away.
Exclusive ==
    /\ \A f, g \in lockFds : f[1] = g[1]
    /\ \A f \in lockFds : Working(f[1])
    /\ \A p \in Processes :
         Working(p) => <<p, IF job[p] = None THEN "runner" ELSE "work">> \in lockFds

\* What a process is doing at each of its tasks.
JobAt(p) ==
    /\ pc[p] \in Deploying => job[p] \in Releases
    /\ pc[p] \in {"select", "prune", "remove"} => job[p] = None
    /\ prior[p] # None => pc[p] \in Captured
    /\ doomed[p] # {} => pc[p] \in Pruning

\* The release under deployment is there, and `current` is where its tasks
\* left it.
LinkAt(p) ==
    /\ pc[p] \in Captured => job[p] \in Present /\ prior[p] \in Present \cup {None}
    /\ pc[p] \in Assembling \cup {"restartOld", "probeOld"} => current = prior[p]
    /\ pc[p] \in {"restart", "probe", "persist"} => current = job[p]
    /\ pc[p] = "restore" => current \in {job[p], prior[p]}

LinksExist ==
    /\ current \in Present \cup {None} /\ previous \in Present \cup {None}
    /\ \A p \in Processes : LinkAt(p)

\* Which release the services run, while nothing went wrong.
ServingKnown ==
    ~disturbed =>
      /\ (\A p \in Processes : pc[p] \notin Activating) => serving = current
      /\ \A p \in Processes :
           /\ pc[p] \in Activating => serving \in {job[p], prior[p]}
           /\ pc[p] \in {"probe", "persist"} => serving = job[p]
           /\ pc[p] = "probeOld" => serving = prior[p]

\* The releases that passed their checks once, since they were made.
Known == verified \cup reworked

\* Such a release keeps its marker, so that no deployment remakes it; one that
\* passed as it stands is built; one under removal is neither.
KnownAt(p) ==
    /\ pc[p] \in {"mirror", "switch"} \cup Activating => release[job[p]].marker
    /\ pc[p] = "materialize" => job[p] \notin torn
    /\ pc[p] = "validate" => job[p] \notin verified
    /\ pc[p] = "persist" => job[p] \in Known
    /\ pc[p] = "remove" =>
         \A r \in doomed[p] : Newer(r, doomed[p]) = {} => r \notin Known /\ r \in torn
KnownMarked ==
    /\ \A r \in Known : release[r].marker
    /\ \A r \in verified : release[r].build = "good"
VerifiedMarked == KnownMarked /\ \A p \in Processes : KnownAt(p)

\* What the links name, and what a deployment would go back to, passed once.
LinksVerified ==
    ~disturbed =>
      /\ previous \in Known \cup {None}
      /\ (\A p \in Processes : pc[p] \notin Activating) => current \in Known \cup {None}
      /\ \A p \in Processes : pc[p] \in Captured => prior[p] \in Known \cup {None}

\* A marker is in a release; mtimes are a strict total order of the releases,
\* and that of their deployments, where no removal was begun.
TreeSound ==
    /\ \A r \in Releases : release[r].marker => r \in Present
    /\ \A r \in torn : release[r].tree = "partial"
    /\ \A r, s \in Present \ torn : <<r, s>> \in older => <<r, s>> \in age
    /\ \A r \in Releases : <<r, r>> \notin older
    /\ \A r, s, t \in Releases : <<r, s>> \in older /\ <<s, t>> \in older => <<r, t>> \in older
    /\ \A r, s \in Present : r = s \/ <<r, s>> \in older \/ <<s, r>> \in older

\* What a cleanup still has to remove is unprotected and older than what it
\* keeps, which is enough; what it is removing was.
DoomedAt(p) ==
    pc[p] \in Pruning =>
      /\ doomed[p] \subseteq Present \ Protected
      /\ \A r \in doomed[p] :
           pc[p] = "prune" \/ Newer(r, doomed[p]) # {} =>
             \A s \in Present \ (Protected \cup doomed[p]) : <<r, s>> \in older
      /\ (\E r \in doomed[p] : Newer(r, doomed[p]) = {}) => Cardinality(Present \ doomed[p]) >= Retention
DoomedOld == \A p \in Processes : DoomedAt(p)

\* The inductive invariant.
Inv ==
    /\ TypeOK
    /\ Exclusive
    /\ \A p \in Processes : JobAt(p)
    /\ LinksExist
    /\ ServingKnown
    /\ VerifiedMarked
    /\ LinksVerified
    /\ TreeSound
    /\ DoomedOld

-----------------------------------------------------------------------------
ReleaseRow == [tree : {"none", "partial", "whole"}, build : {"none", "running", "good", "broken"},
               marker : BOOLEAN]
MaybeRelease == Releases \cup {None}

\* The types of all but the directory of releases.
RestType ==
    /\ current \in MaybeRelease /\ previous \in MaybeRelease /\ serving \in MaybeRelease
    /\ lockFds \subseteq (Processes \X {"runner", "work"})
    /\ pc \in [Processes -> Labels]
    /\ job \in [Processes -> MaybeRelease] /\ prior \in [Processes -> MaybeRelease]
    /\ doomed \in [Processes -> SUBSET Releases]
    /\ verified \subseteq Releases /\ reworked \subseteq Releases
    /\ disturbed \in BOOLEAN
    /\ runs \in Nat /\ kills \in Nat
TreeType ==
    /\ release \in [Releases -> ReleaseRow]
    /\ older \subseteq Present \X Present /\ age \subseteq Present \X Present
    /\ torn \subseteq Present

LEMMA TypeParts == TypeOK <=> RestType /\ TreeType
  BY DEF TypeOK, RestType, TreeType, ReleaseRow, MaybeRelease

\* The steps of a process: on the way to the lock, under it in a deployment
\* or a cleanup, and its end.
Entering(p) == Deploy(p) \/ Cleanup(p) \/ Lock(p) \/ (pc[p] = "lock" /\ KillWork(p))
Assembly(p) == Inspect(p) \/ Materialize(p) \/ Build(p) \/ Validate(p) \/ Mark(p) \/ Mirror(p)
Activation(p) ==
    \/ Switch(p) \/ Restart(p) \/ Probe(p) \/ FailActivation(p) \/ Restore(p) \/ RestartOld(p)
    \/ KillRunner(p)
Ending(p) ==
    \/ FailAssembly(p) \/ Persist(p) \/ ProbeOld(p) \/ FailRollback(p) \/ PruneEnds(p) \/ FailCleanup(p)
    \/ (Working(p) /\ KillWork(p))
Cleaning(p) == Select(p) \/ Prune(p) \/ Remove(p)
ProcessStep(p) ==
    Entering(p) \/ CheckLegacy(p) \/ Assembly(p) \/ Activation(p) \/ Ending(p) \/ Cleaning(p)

LEMMA StepOf ==
    ASSUME Next
    PROVE  Respawn \/ \E p \in Processes : ProcessStep(p)
<1>1. ASSUME NEW p \in Processes, KillWork(p)
      PROVE  pc[p] = "lock" \/ Working(p)
  BY <1>1 DEF KillWork, Working
<1> QED
  BY <1>1 DEF Next, ProcessStep, Entering, Assembly, Activation, Ending, Cleaning

LEMMA RestStep ==
    ASSUME Inv, NEW p \in Processes, ProcessStep(p)
    PROVE  RestType'
<1> USE DEF ProcessStep, Entering, Assembly, Activation, Ending, Cleaning, Deploy, Cleanup, Start, Lock,
            CheckLegacy, Inspect, Materialize, Build, Validate, Mark, Mirror, Switch, Restart, Probe,
            FailActivation, Restore, RestartOld, KillRunner, FailAssembly, Persist, ProbeOld,
            FailRollback, PruneEnds, FailCleanup, KillWork, Select, Prune, Remove, Step, End, Kill, Goto,
            treeVars, linkVars, workVars, checkVars
<1>0. RestType
  BY TypeParts DEF Inv
<1>1. \E label \in Labels : pc' = [pc EXCEPT ![p] = label] \/ pc' = pc
  BY DEF Labels
<1>2. /\ \E r \in MaybeRelease : job' = [job EXCEPT ![p] = r] \/ job' = job
      /\ \E r \in MaybeRelease : prior' = [prior EXCEPT ![p] = r] \/ prior' = prior
  BY <1>0 DEF RestType, MaybeRelease
<1>3. \E S \in SUBSET Releases : doomed' = [doomed EXCEPT ![p] = S] \/ doomed' = doomed
  <2>1. Selected \in SUBSET Releases /\ doomed[p] \in SUBSET Releases /\ {} \in SUBSET Releases
    BY <1>0 DEF Selected, Present, RestType
  <2>2. \A r : doomed[p] \ {r} \in SUBSET Releases
    BY <2>1
  <2> QED
    BY <2>1, <2>2
<1>4. lockFds' \subseteq (Processes \X {"runner", "work"})
  <2>1. lockFds' \subseteq lockFds \cup Fds(p)
    OBVIOUS
  <2> QED
    BY <1>0, <2>1 DEF RestType, Fds
<1>5. /\ current' \in {current, job[p], prior[p]} /\ serving' \in {serving, job[p], prior[p]}
      /\ previous' \in {previous, prior[p]}
  OBVIOUS
<1>6. /\ verified' \subseteq verified \cup {job[p]} /\ (verified' \subseteq verified \/ pc[p] \in Deploying)
      /\ reworked' \subseteq reworked \cup verified
  BY DEF Deploying, Labels
<1>7. pc[p] \in Deploying => job[p] \in Releases
  BY DEF Inv, JobAt
<1>8. disturbed' \in BOOLEAN
  <2>1. disturbed' = disturbed \/ disturbed' = TRUE \/ disturbed' = (disturbed \/ pc[p] \in Activating)
    OBVIOUS
  <2> QED
    BY <1>0, <2>1 DEF RestType
<1>9. runs' \in {runs, runs + 1} /\ kills' \in {kills, kills + 1}
  OBVIOUS
<1>10. current' \in MaybeRelease /\ serving' \in MaybeRelease /\ previous' \in MaybeRelease
  <2>1. job[p] \in MaybeRelease /\ prior[p] \in MaybeRelease
    BY <1>0 DEF RestType
  <2> QED
    BY <1>0, <1>5, <2>1 DEF RestType
<1>11. pc' \in [Processes -> Labels]
  BY <1>0, <1>1 DEF RestType
<1>12. job' \in [Processes -> MaybeRelease] /\ prior' \in [Processes -> MaybeRelease]
  BY <1>0, <1>2 DEF RestType
<1>13. doomed' \in [Processes -> SUBSET Releases]
  BY <1>0, <1>3 DEF RestType
<1>14. verified' \subseteq Releases /\ reworked' \subseteq Releases /\ runs' \in Nat /\ kills' \in Nat
  BY <1>0, <1>6, <1>7, <1>9 DEF RestType
<1> QED
  BY <1>4, <1>8, <1>10, <1>11, <1>12, <1>13, <1>14 DEF RestType

\* The lock keeps everybody else out.
LEMMA Alone ==
    ASSUME Inv, NEW p \in Processes, NEW q \in Processes, Working(p), Working(q)
    PROVE  p = q
<1>1. /\ <<p, IF job[p] = None THEN "runner" ELSE "work">> \in lockFds
      /\ <<q, IF job[q] = None THEN "runner" ELSE "work">> \in lockFds
      /\ \A f, g \in lockFds : f[1] = g[1]
  BY DEF Inv, Exclusive
<1> QED
  BY <1>1

\* A release is made, or written to, or its removal begins.
LEMMA TreeWritten ==
    ASSUME TreeType, TreeSound, NEW r \in Releases, NEW x \in ReleaseRow, x.tree # "none",
           release' = [release EXCEPT ![r] = x],
           older' = Touched(older, r) \/ (r \in Present /\ older' = older),
           age' = Touched(age, r) \/ (r \in Present /\ age' = age),
           torn \ {r} \subseteq torn', torn' \subseteq torn \cup {r},
           r \in torn' => x.tree = "partial",
           r \in torn' \/ Written(r) \/ (r \notin torn /\ UNCHANGED <<older, age>>)
    PROVE  /\ TreeType' /\ TreeSound' /\ Present' = Present \cup {r} /\ release'[r] = x
           /\ \A s \in Releases : s # r => release'[s] = release[s]
<1>1. /\ release' \in [Releases -> ReleaseRow] /\ release'[r] = x
      /\ \A s \in Releases : s # r => release'[s] = release[s]
  BY DEF TreeType
<1>2. Present' = Present \cup {r} /\ Present \subseteq Releases
  BY <1>1 DEF Present
<1>3. ASSUME NEW order, NEW next, order \subseteq Present \X Present,
             next = Touched(order, r) \/ (r \in Present /\ next = order)
      PROVE  /\ next \subseteq Present' \X Present'
             /\ \A s, t \in Releases : s # r /\ t # r => (<<s, t>> \in next <=> <<s, t>> \in order)
             /\ next = Touched(order, r) =>
                  /\ \A s \in Releases : <<s, r>> \in next <=> s \in Present /\ s # r
                  /\ \A s \in Releases : <<r, s>> \notin next
  BY <1>2, <1>3 DEF Touched, Without
<1>4. /\ older' \subseteq Present' \X Present'
      /\ \A s, t \in Releases : s # r /\ t # r => (<<s, t>> \in older' <=> <<s, t>> \in older)
      /\ older' = Touched(older, r) =>
           /\ \A s \in Releases : <<s, r>> \in older' <=> s \in Present /\ s # r
           /\ \A s \in Releases : <<r, s>> \notin older'
  BY <1>3 DEF TreeType
<1>5. /\ age' \subseteq Present' \X Present'
      /\ \A s, t \in Releases : s # r /\ t # r => (<<s, t>> \in age' <=> <<s, t>> \in age)
      /\ age' = Touched(age, r) =>
           /\ \A s \in Releases : <<s, r>> \in age' <=> s \in Present /\ s # r
           /\ \A s \in Releases : <<r, s>> \notin age'
  BY <1>3 DEF TreeType
<1>6. TreeType'
  BY <1>1, <1>2, <1>4, <1>5 DEF TreeType
<1>7. \A s, t \in Releases : <<s, t>> \in older => s \in Present /\ t \in Present
  BY DEF TreeType
\* The order of the mtimes.
<1>8. /\ \A s \in Releases : <<s, s>> \notin older'
      /\ \A s, t, u \in Releases : <<s, t>> \in older' /\ <<t, u>> \in older' => <<s, u>> \in older'
      /\ \A s, t \in Present' : s = t \/ <<s, t>> \in older' \/ <<t, s>> \in older'
  <2>1. CASE r \in Present /\ older' = older
    <3>1. Present' = Present
      BY <1>2, <2>1
    <3> QED
      BY <2>1, <3>1 DEF TreeSound
  <2>2. CASE older' = Touched(older, r)
    BY <1>2, <1>4, <1>7, <2>2 DEF TreeSound
  <2> QED
    BY <2>1, <2>2
<1>9. \A s, t \in Present' \ torn' : <<s, t>> \in older' => <<s, t>> \in age'
  <2> SUFFICES ASSUME NEW s \in Present' \ torn', NEW t \in Present' \ torn', <<s, t>> \in older'
               PROVE  <<s, t>> \in age'
    OBVIOUS
  <2>0. s \in Releases /\ t \in Releases
    BY <1>2
  <2>1. CASE s # r /\ t # r
    <3>1. s \in Present \ torn /\ t \in Present \ torn /\ <<s, t>> \in older
      BY <1>2, <1>4, <2>0, <2>1
    <3> QED
      BY <1>5, <2>0, <2>1, <3>1 DEF TreeSound
  <2>2. CASE r \notin torn' /\ Written(r) /\ (s = r \/ t = r)
    BY <1>2, <1>4, <1>5, <2>0, <2>2 DEF Written
  <2>3. CASE r \notin torn /\ UNCHANGED <<older, age>> /\ (s = r \/ t = r)
    BY <1>7, <2>0, <2>3 DEF TreeSound
  <2> QED
    BY <2>1, <2>2, <2>3
<1>10. \A s \in torn' : release'[s].tree = "partial"
  <2>1. \A s \in torn : s \in Releases /\ release[s].tree = "partial"
    BY <1>2 DEF TreeType, TreeSound
  <2> QED
    BY <1>1, <2>1
<1>11. \A s \in Releases : release'[s].marker => s \in Present'
  BY <1>1, <1>2 DEF TreeSound
<1> QED
  BY <1>1, <1>2, <1>6, <1>8, <1>9, <1>10, <1>11 DEF TreeSound

LEMMA Deleted ==
    ASSUME TreeType, TreeSound, NEW r \in Releases, release' = [release EXCEPT ![r] = Absent],
           older' = Without(older, r), age' = Without(age, r), torn' = torn \ {r}
    PROVE  /\ TreeType' /\ TreeSound' /\ Present' = Present \ {r}
           /\ \A s \in Releases : s # r => release'[s] = release[s]
           /\ \A s, t \in Releases \ {r} : <<s, t>> \in older' <=> <<s, t>> \in older
<1>1. /\ release' \in [Releases -> ReleaseRow] /\ release'[r] = Absent /\ Absent.tree = "none" /\ ~Absent.marker
      /\ \A s \in Releases : s # r => release'[s] = release[s]
  BY DEF TreeType, Absent, ReleaseRow
<1>2. Present' = Present \ {r}
  BY <1>1 DEF Present
<1>3. \A s, t \in Releases : <<s, t>> \in older' <=> <<s, t>> \in older /\ s # r /\ t # r
  BY DEF Without
<1>4. older' \subseteq Present' \X Present' /\ age' \subseteq Present' \X Present'
  BY <1>2 DEF Without, TreeType
<1>5. Present \subseteq Releases
  BY DEF Present
<1>6. \A s, t \in Present' \ torn' : <<s, t>> \in older' => <<s, t>> \in age'
  <2>1. \A s, t \in Releases : <<s, t>> \in age' <=> <<s, t>> \in age /\ s # r /\ t # r
    BY DEF Without
  <2> QED
    BY <1>2, <1>3, <1>5, <2>1 DEF TreeSound
<1>7. \A s \in torn' : release'[s].tree = "partial"
  BY <1>1, <1>5 DEF TreeType, TreeSound
<1>8. TreeSound'
  BY <1>1, <1>2, <1>3, <1>5, <1>6, <1>7 DEF TreeSound
<1> QED
  BY <1>1, <1>2, <1>3, <1>4, <1>8 DEF TreeType

\* What one process step may do to the others' state: nothing.
LEMMA OthersStay ==
    ASSUME Inv, NEW p \in Processes, ProcessStep(p), NEW q \in Processes \ {p}
    PROVE  pc'[q] = pc[q] /\ job'[q] = job[q] /\ prior'[q] = prior[q] /\ doomed'[q] = doomed[q]
<1> USE DEF ProcessStep, Entering, Assembly, Activation, Ending, Cleaning, Deploy, Cleanup, Start, Lock,
            CheckLegacy, Inspect, Materialize, Build, Validate, Mark, Mirror, Switch, Restart, Probe,
            FailActivation, Restore, RestartOld, KillRunner, FailAssembly, Persist, ProbeOld,
            FailRollback, PruneEnds, FailCleanup, KillWork, Select, Prune, Remove, Step, End, Kill, Goto,
            treeVars, linkVars, workVars, checkVars
<1>0. RestType
  BY TypeParts DEF Inv
<1>1. /\ pc' = pc \/ \E x : pc' = [pc EXCEPT ![p] = x]
      /\ job' = job \/ \E x : job' = [job EXCEPT ![p] = x]
      /\ prior' = prior \/ \E x : prior' = [prior EXCEPT ![p] = x]
      /\ doomed' = doomed \/ \E x : doomed' = [doomed EXCEPT ![p] = x]
  OBVIOUS
<1> QED
  BY <1>0, <1>1 DEF RestType

\* A process under the lock ends: what it leaves behind must be in order.
LEMMA AfterEnd ==
    ASSUME Inv, NEW p \in Processes, ProcessStep(p), Working(p), End(p), TreeType', TreeSound',
           current' \in Present' \cup {None}, previous' \in Present' \cup {None},
           KnownMarked',
           ~disturbed' => /\ serving' = current'
                          /\ current' \in Known' \cup {None} /\ previous' \in Known' \cup {None}
    PROVE  Inv'
<1>1. RestType /\ RestType'
  BY TypeParts, RestStep DEF Inv
<1>2. pc'[p] = "idle" /\ prior'[p] = None /\ doomed'[p] = {}
  BY <1>1 DEF End, Goto, RestType
<1>3. lockFds' = {}
  <2>1. \A f \in lockFds : f \in Processes \X {"runner", "work"} /\ Working(f[1])
    BY <1>1 DEF RestType, Inv, Exclusive
  <2>2. \A f \in lockFds : f[1] = p
    BY <2>1, Alone
  <2> QED
    BY <2>2 DEF End
<1>4. \A q \in Processes : pc'[q] \in {"idle", "lock"} /\ prior'[q] = None /\ doomed'[q] = {}
  <2> SUFFICES ASSUME NEW q \in Processes, q # p
               PROVE  pc'[q] \in {"idle", "lock"} /\ prior'[q] = None /\ doomed'[q] = {}
    BY <1>2
  <2>1. ~Working(q) /\ JobAt(q)
    BY Alone DEF Inv
  <2>2. pc'[q] = pc[q] /\ prior'[q] = prior[q] /\ doomed'[q] = doomed[q]
    BY OthersStay
  <2> QED
    BY <2>1, <2>2 DEF Working, JobAt, Captured, Assembling, Activating, Pruning
<1>5. TypeOK'
  BY <1>1 DEF TypeOK, RestType, TreeType, ReleaseRow, MaybeRelease
<1>6. Exclusive'
  BY <1>3, <1>4 DEF Exclusive, Working
<1>7. \A q \in Processes : JobAt(q)' /\ LinkAt(q)'
  BY <1>4 DEF JobAt, LinkAt, Deploying, Labels, Captured, Assembling, Activating, Pruning
<1>8. LinksExist' /\ ServingKnown' /\ VerifiedMarked' /\ LinksVerified' /\ DoomedOld'
  BY <1>4, <1>7 DEF LinksExist, ServingKnown, VerifiedMarked, KnownAt, LinksVerified, DoomedOld, DoomedAt,
     Captured, Assembling, Activating, Pruning
<1> QED
  BY <1>5, <1>6, <1>7, <1>8 DEF Inv

\* The invariant as the one process under the lock sees it.
MarkedAt(p) == KnownMarked /\ KnownAt(p)
ServingAt(p) ==
    ~disturbed =>
      /\ pc[p] \notin Activating => serving = current /\ current \in Known \cup {None}
      /\ pc[p] \in Activating => serving \in {job[p], prior[p]}
      /\ pc[p] \in {"probe", "persist"} => serving = job[p]
      /\ pc[p] = "probeOld" => serving = prior[p]
      /\ previous \in Known \cup {None}
      /\ pc[p] \in Captured => prior[p] \in Known \cup {None}

LEMMA Sees ==
    ASSUME Inv, NEW p \in Processes, Working(p)
    PROVE  /\ RestType /\ TreeType /\ TreeSound
           /\ JobAt(p) /\ LinkAt(p) /\ MarkedAt(p) /\ ServingAt(p) /\ DoomedAt(p)
           /\ current \in Present \cup {None} /\ previous \in Present \cup {None}
           /\ <<p, IF job[p] = None THEN "runner" ELSE "work">> \in lockFds
<1>1. \A q \in Processes : pc[q] \in Activating => q = p
  BY Alone DEF Working, Activating
<1>2. (\A q \in Processes : pc[q] \notin Activating) <=> pc[p] \notin Activating
  BY <1>1
<1>3. ServingAt(p)
  BY <1>2 DEF ServingAt, Inv, ServingKnown, LinksVerified
<1> QED
  BY <1>3, TypeParts DEF Inv, LinksExist, Exclusive, VerifiedMarked, MarkedAt, DoomedOld

\* A process under the lock goes on: nobody else's state matters.
LEMMA AfterStep ==
    ASSUME Inv, NEW p \in Processes, ProcessStep(p), Working(p), Working(p)', TreeType', TreeSound',
           job' = job, lockFds' \subseteq lockFds,
           <<p, IF job[p] = None THEN "runner" ELSE "work">> \in lockFds',
           JobAt(p)', LinkAt(p)', current' \in Present' \cup {None}, previous' \in Present' \cup {None},
           ServingAt(p)', MarkedAt(p)', DoomedAt(p)'
    PROVE  Inv'
<1>1. RestType /\ RestType'
  BY TypeParts, RestStep DEF Inv
<1>2. \A q \in Processes \ {p} : pc'[q] \in {"idle", "lock"} /\ prior'[q] = None /\ doomed'[q] = {}
  <2> SUFFICES ASSUME NEW q \in Processes, q # p
               PROVE  pc'[q] \in {"idle", "lock"} /\ prior'[q] = None /\ doomed'[q] = {}
    OBVIOUS
  <2>1. ~Working(q) /\ JobAt(q)
    BY Alone DEF Inv
  <2>2. pc'[q] = pc[q] /\ prior'[q] = prior[q] /\ doomed'[q] = doomed[q]
    BY OthersStay
  <2> QED
    BY <2>1, <2>2 DEF Working, JobAt, Captured, Assembling, Activating, Pruning
<1>3. TypeOK'
  BY <1>1 DEF TypeOK, RestType, TreeType, ReleaseRow, MaybeRelease
<1>4. Exclusive'
  <2>1. \A f \in lockFds : f \in Processes \X {"runner", "work"} /\ Working(f[1])
    BY <1>1 DEF RestType, Inv, Exclusive
  <2>2. \A f \in lockFds : f[1] = p
    BY <2>1, Alone
  <2>3. \A q \in Processes : Working(q)' => q = p
    BY <1>2 DEF Working
  <2> QED
    BY <2>2, <2>3 DEF Exclusive, Working
<1>5. ASSUME NEW q \in Processes PROVE JobAt(q)' /\ LinkAt(q)'
  <2>1. CASE q = p
    BY <2>1 DEF JobAt, LinkAt
  <2>2. CASE q # p
    BY <1>2, <2>2 DEF JobAt, LinkAt, Deploying, Labels, Captured, Assembling, Activating, Pruning
  <2> QED
    BY <2>1, <2>2
<1>6. \A q \in Processes : q # p => pc'[q] \notin Activating \cup Captured \cup Pruning
  BY <1>2 DEF Captured, Assembling, Activating, Pruning
<1>7. LinksExist' /\ ServingKnown' /\ LinksVerified'
  <2>1. (\A q \in Processes : pc'[q] \notin Activating) <=> pc'[p] \notin Activating
    BY <1>6
  <2>2. \A q \in Processes : pc'[q] \in Activating \cup Captured => q = p
    BY <1>6
  <2>3. {"probe", "persist", "probeOld"} \subseteq Activating
    BY DEF Activating
  <2>4. LinksExist'
    BY <1>5 DEF LinksExist
  <2>5. ServingKnown'
    BY <2>1, <2>2, <2>3 DEF ServingKnown, ServingAt
  <2>6. LinksVerified'
    BY <2>1, <2>2 DEF LinksVerified, ServingAt
  <2> QED
    BY <2>4, <2>5, <2>6
<1>8. VerifiedMarked' /\ DoomedOld'
  <2>1. \A q \in Processes : pc'[q] \in Captured \cup Pruning => q = p
    BY <1>6
  <2>2. \A q \in Processes : q # p => KnownAt(q)'
    BY <2>1 DEF KnownAt, Captured, Assembling, Activating, Pruning
  <2>3. VerifiedMarked'
    BY <2>2 DEF VerifiedMarked, MarkedAt, KnownAt
  <2>4. DoomedOld'
    BY <2>1 DEF DoomedOld, DoomedAt
  <2> QED
    BY <2>3, <2>4
<1> QED
  BY <1>3, <1>4, <1>5, <1>7, <1>8 DEF Inv

-----------------------------------------------------------------------------
LEMMA EnteringKept ==
    ASSUME Inv, NEW p \in Processes, Entering(p)
    PROVE  Inv'
<1>0. RestType /\ TreeType /\ RestType'
  BY TypeParts, RestStep DEF Inv, ProcessStep
<1>1. /\ UNCHANGED <<release, older, age, torn, current, previous, serving, verified, reworked, disturbed>>
      /\ pc[p] \in {"idle", "lock"} /\ prior'[p] = None /\ doomed'[p] = {}
      /\ \/ pc'[p] \in {"idle", "lock"} /\ \A f \in lockFds : f[1] # p => f \in lockFds'
         \/ pc'[p] = "check" /\ lockFds = {} /\ lockFds' = Fds(p) /\ job' = job
      /\ pc'[p] \in {"idle", "lock"} => lockFds' \subseteq lockFds
  <2>1. pc[p] \in {"idle", "lock"} => prior[p] = None /\ doomed[p] = {}
    BY DEF Inv, JobAt, Captured, Assembling, Activating, Pruning
  <2> QED
    BY <1>0, <2>1 DEF Entering, Deploy, Cleanup, Start, Lock, KillWork, End, Goto, treeVars, linkVars, workVars,
       checkVars, RestType, Activating
<1>2. \A q \in Processes \ {p} :
        pc'[q] = pc[q] /\ job'[q] = job[q] /\ prior'[q] = prior[q] /\ doomed'[q] = doomed[q]
  BY OthersStay DEF ProcessStep
<1>3. TypeOK'
  <2>1. TreeType'
    BY <1>0, <1>1 DEF TreeType, Present
  <2> QED
    BY <1>0, <2>1 DEF TypeOK, RestType, TreeType, ReleaseRow, MaybeRelease
<1>4. Exclusive'
  <2>1. Exclusive /\ ~Working(p) /\ \A f \in lockFds : f \in Processes \X {"runner", "work"}
    BY <1>0, <1>1 DEF Inv, Working, RestType
  <2>2. \A f \in lockFds : f[1] # p
    BY <2>1 DEF Exclusive
  <2>3. CASE pc'[p] \in {"idle", "lock"}
    <3>1. lockFds' = lockFds
      BY <1>1, <2>2, <2>3
    <3>2. \A q \in Processes : Working(q)' <=> Working(q)
      BY <1>2, <2>1, <2>3 DEF Working
    <3>3. \A q \in Processes : Working(q) => q # p /\ job'[q] = job[q]
      BY <1>2, <2>1
    <3>4. \A f \in lockFds : f[1] \in Processes /\ Working(f[1])
      BY <2>1 DEF Exclusive
    <3> QED
      BY <2>1, <3>1, <3>2, <3>3, <3>4 DEF Exclusive, Working
  <2>4. CASE pc'[p] = "check" /\ lockFds = {} /\ lockFds' = Fds(p) /\ job' = job
    <3>1. \A q \in Processes : ~Working(q)
      BY <2>1, <2>4 DEF Exclusive
    <3>2. \A q \in Processes : Working(q)' <=> q = p
      BY <1>2, <2>4, <3>1 DEF Working
    <3>3. /\ \A f \in lockFds' : f[1] = p
          /\ <<p, IF job[p] = None THEN "runner" ELSE "work">> \in lockFds'
      BY <2>4 DEF Fds
    <3> QED
      BY <2>4, <3>2, <3>3 DEF Exclusive, Working
  <2> QED
    BY <1>1, <2>3, <2>4
<1>5. /\ Present' = Present /\ Protected' = Protected
      /\ \A q \in Processes : pc[q] \in {"idle", "lock", "check"} <=> pc'[q] \in {"idle", "lock", "check"}
      /\ \A q \in Processes : pc'[q] \notin {"idle", "lock", "check"} =>
           pc'[q] = pc[q] /\ job'[q] = job[q] /\ prior'[q] = prior[q] /\ doomed'[q] = doomed[q]
  BY <1>1, <1>2 DEF Present, Protected
<1>6. \A q \in Processes : JobAt(q)'
  <2>1. \A q \in Processes : JobAt(q)
    BY DEF Inv
  <2> QED
    BY <1>1, <1>2, <1>5, <2>1 DEF JobAt, Deploying, Captured, Assembling, Activating, Pruning
<1>7. LinksExist'
  BY <1>1, <1>5 DEF Inv, LinksExist, LinkAt, Captured, Assembling, Activating
<1>8. ServingKnown' /\ LinksVerified'
  <2>1. (\A q \in Processes : pc'[q] \notin Activating) => \A q \in Processes : pc[q] \notin Activating
    BY <1>5 DEF Activating
  <2>2. ServingKnown'
    BY <1>1, <1>5, <2>1 DEF Inv, ServingKnown, Activating
  <2>3. LinksVerified'
    BY <1>1, <1>5, <2>1 DEF Inv, LinksVerified, Known, Captured, Assembling, Activating
  <2> QED
    BY <2>2, <2>3
<1>9. VerifiedMarked' /\ DoomedOld' /\ TreeSound'
  <2>1. VerifiedMarked'
    BY <1>1, <1>5 DEF Inv, VerifiedMarked, KnownMarked, KnownAt, Known, Activating, Newer
  <2>2. ASSUME NEW q \in Processes, pc'[q] \in Pruning PROVE DoomedAt(q)'
    <3>1. DoomedAt(q) /\ pc'[q] = pc[q] /\ doomed'[q] = doomed[q]
      BY <1>5, <2>2 DEF Inv, DoomedOld, Pruning
    <3> QED
      BY <1>1, <1>5, <3>1 DEF DoomedAt, Newer
  <2>3. TreeSound'
    BY <1>1, <1>5 DEF Inv, TreeSound
  <2> QED
    BY <2>1, <2>2, <2>3 DEF DoomedOld, DoomedAt
<1> QED
  BY <1>3, <1>4, <1>6, <1>7, <1>8, <1>9 DEF Inv

LEMMA RespawnKept ==
    ASSUME Inv, Respawn
    PROVE  Inv'
<1>1. /\ UNCHANGED <<release, older, age, torn, current, previous, lockFds, pc, job, prior, doomed, verified,
                     reworked, disturbed, runs, kills>>
      /\ serving' = current /\ serving # current
  BY DEF Respawn, treeVars, workVars, checkVars
<1>2. TypeOK' /\ Exclusive' /\ (\A p \in Processes : JobAt(p)') /\ LinksExist' /\ VerifiedMarked'
      /\ LinksVerified' /\ TreeSound' /\ DoomedOld'
  <2>1. Present' = Present /\ Protected' = Protected
    BY <1>1 DEF Present, Protected
  <2>2. TypeOK'
    BY <1>1, <2>1 DEF Inv, TypeOK
  <2>3. Exclusive' /\ (\A p \in Processes : JobAt(p)')
    BY <1>1 DEF Inv, Exclusive, JobAt, Working
  <2>4. LinksExist'
    BY <1>1, <2>1 DEF Inv, LinksExist, LinkAt
  <2>5. VerifiedMarked' /\ LinksVerified'
    BY <1>1 DEF Inv, VerifiedMarked, KnownMarked, KnownAt, LinksVerified, Known, Newer
  <2>6. TreeSound' /\ DoomedOld'
    BY <1>1, <2>1 DEF Inv, TreeSound, DoomedOld, DoomedAt, Newer
  <2> QED
    BY <2>2, <2>3, <2>4, <2>5, <2>6
<1>3. ServingKnown'
  <2> SUFFICES ASSUME ~disturbed
               PROVE  /\ (\A p \in Processes : pc[p] \notin Activating) => serving' = current
                      /\ \A p \in Processes :
                           /\ pc[p] \in Activating => serving' \in {job[p], prior[p]}
                           /\ pc[p] \in {"probe", "persist"} => serving' = job[p]
                           /\ pc[p] = "probeOld" => serving' = prior[p]
    BY <1>1 DEF ServingKnown
  <2>1. \A p \in Processes : LinkAt(p)
    BY DEF Inv, LinksExist
  <2>2. \A p \in Processes : pc[p] \in Activating => current \in {job[p], prior[p]}
    BY <2>1 DEF LinkAt, Activating
  <2> QED
    BY <1>1, <2>1, <2>2 DEF LinkAt
<1> QED
  BY <1>2, <1>3 DEF Inv

LEMMA CheckKept ==
    ASSUME Inv, NEW p \in Processes, CheckLegacy(p)
    PROVE  Inv'
<1>0. Working(p) /\ pc[p] = "check" /\ ProcessStep(p)
  BY DEF CheckLegacy, Working, ProcessStep
<1>1. /\ RestType /\ TreeType /\ TreeSound
      /\ JobAt(p) /\ LinkAt(p) /\ MarkedAt(p) /\ ServingAt(p) /\ DoomedAt(p)
      /\ current \in Present \cup {None} /\ previous \in Present \cup {None}
      /\ <<p, IF job[p] = None THEN "runner" ELSE "work">> \in lockFds
  BY <1>0, Sees
<1>2. UNCHANGED <<release, older, age, torn, current, previous, serving, verified, reworked, disturbed>>
  BY DEF CheckLegacy, treeVars, linkVars, checkVars
<1>3. TreeType' /\ TreeSound' /\ Present' = Present
  BY <1>1, <1>2 DEF TreeType, TreeSound, Present
<1>4. CASE End(p)
  BY <1>0, <1>1, <1>2, <1>3, <1>4, AfterEnd DEF ServingAt, MarkedAt, KnownMarked, Known, Activating
<1>5. CASE ~End(p)
  <2>1. /\ UNCHANGED <<lockFds, job, prior, doomed>>
        /\ pc' = [pc EXCEPT ![p] = IF job[p] = None THEN "select" ELSE "inspect"]
    BY <1>5 DEF CheckLegacy, Goto, workVars
  <2>2. pc'[p] = IF job[p] = None THEN "select" ELSE "inspect"
    BY <1>1, <2>1 DEF RestType
  <2>3. JobAt(p)' /\ LinkAt(p)' /\ Working(p)'
    <3>1. job[p] \in MaybeRelease
      BY <1>1 DEF RestType
    <3> QED
      BY <1>0, <1>1, <2>1, <2>2, <3>1 DEF JobAt, LinkAt, Working, Captured, Assembling, Activating, Pruning,
         Deploying, Labels, MaybeRelease
  <2>4. ServingAt(p)' /\ MarkedAt(p)' /\ DoomedAt(p)'
    BY <1>0, <1>1, <1>2, <2>1, <2>2 DEF ServingAt, MarkedAt, KnownMarked, KnownAt, Known, DoomedAt, Captured,
       Assembling, Activating, Pruning
  <2> QED
    BY <1>0, <1>1, <1>2, <1>3, <2>1, <2>3, <2>4, AfterStep
<1> QED
  BY <1>4, <1>5

\* The tasks of the assembly write only the release under deployment.
LEMMA AssemblyWrites ==
    ASSUME Inv, NEW p \in Processes, Assembly(p)
    PROVE  /\ job[p] \in Releases /\ pc[p] \in Deploying /\ TreeType' /\ TreeSound'
           /\ pc[p] # "inspect" => job[p] \in Present
           /\ Present' = Present \cup {job[p]} \/ (Inspect(p) /\ release[job[p]].marker /\ UNCHANGED release)
           /\ \A s \in Releases : s # job[p] => release'[s] = release[s]
           /\ release[job[p]].marker => release'[job[p]].marker
           /\ Mark(p) => release'[job[p]].marker
           /\ release[job[p]].marker /\ release'[job[p]].build # release[job[p]].build =>
                release'[job[p]].build = "good" \/ Build(p)
<1> DEFINE r == job[p]
           Goal == /\ TreeType' /\ TreeSound'
                   /\ Present' = Present \cup {r} \/ (Inspect(p) /\ release[r].marker /\ UNCHANGED release)
                   /\ \A s \in Releases : s # r => release'[s] = release[s]
                   /\ release[r].marker => release'[r].marker
                   /\ Mark(p) => release'[r].marker
                   /\ release[r].marker /\ release'[r].build # release[r].build =>
                        release'[r].build = "good" \/ Build(p)
<1>0. /\ pc[p] \in {"inspect", "materialize", "build", "validate", "mark", "mirror"}
      /\ pc[p] = "inspect" <=> Inspect(p)
      /\ pc[p] = "mark" <=> Mark(p)
  BY DEF Assembly, Inspect, Materialize, Build, Validate, Mark, Mirror, Step
<1>1. /\ Working(p) /\ pc[p] \in Deploying
  BY <1>0 DEF Working, Deploying, Labels
<1>2. /\ r \in Releases /\ TreeType /\ TreeSound
      /\ pc[p] # "inspect" => r \in Present
  BY <1>0, <1>1, Sees DEF JobAt, LinkAt, Captured, Assembling
<1>3. release[r] \in ReleaseRow
  BY <1>2 DEF TreeType
<1>4. CASE UNCHANGED <<release, older, age, torn>> /\ ~Mark(p) /\ (Inspect(p) => release[r].marker)
  <2>1. Present' = Present
    BY <1>4 DEF Present
  <2>2. pc[p] = "inspect" => Inspect(p) /\ release[r].marker
    BY <1>0, <1>4
  <2> QED
    BY <1>0, <1>1, <1>2, <1>4, <2>1, <2>2 DEF TreeType, TreeSound
<1>5. ASSUME NEW x \in ReleaseRow, release' = [release EXCEPT ![r] = x], x.tree # "none",
             Written(r) \/ (r \in Present /\ UNCHANGED <<older, age>>),
             \/ torn' = torn \ {r} /\ Written(r)
             \/ torn' = torn /\ (r \in torn => x.tree = "partial"),
             release[r].marker => x.marker, Mark(p) => x.marker,
             release[r].marker /\ x.build # release[r].build => x.build = "good" \/ Build(p)
      PROVE  Goal
  <2> HIDE DEF r
  <2>1. /\ TreeType' /\ TreeSound' /\ Present' = Present \cup {r} /\ release'[r] = x
        /\ \A s \in Releases : s # r => release'[s] = release[s]
    <3>1. /\ older' = Touched(older, r) \/ (r \in Present /\ older' = older)
          /\ age' = Touched(age, r) \/ (r \in Present /\ age' = age)
      BY <1>5 DEF Written
    <3>2. /\ torn \ {r} \subseteq torn' /\ torn' \subseteq torn \cup {r}
          /\ r \in torn' => x.tree = "partial"
          /\ r \in torn' \/ Written(r) \/ (r \notin torn /\ UNCHANGED <<older, age>>)
      BY <1>5
    <3> QED
      BY <1>2, <1>5, <3>1, <3>2, TreeWritten
  <2> QED
    BY <1>5, <2>1
<1>6. CASE Inspect(p) /\ ~release[r].marker
  <2> DEFINE x == [Absent EXCEPT !.tree = "partial"]
  <2>1. x \in ReleaseRow /\ x.tree = "partial"
    BY DEF Absent, ReleaseRow
  <2>2. /\ ~release[r].marker /\ release' = [release EXCEPT ![r] = x] /\ Written(r)
        /\ torn' = torn \ {r}
    BY <1>6 DEF Inspect, treeVars
  <2>3. ~Mark(p)
    BY <1>0, <1>6
  <2> HIDE DEF x, r, Goal
  <2>4. Goal
    BY <1>5, <2>1, <2>2, <2>3
  <2> QED
    BY <1>1, <1>2, <2>4 DEF Goal, r
<1>7. CASE Materialize(p)
  <2> DEFINE x == [release[r] EXCEPT !.tree = "whole"]
  <2>1. /\ x \in ReleaseRow /\ x.tree = "whole" /\ x.marker = release[r].marker
        /\ x.build = release[r].build
    BY <1>3 DEF ReleaseRow
  <2>2. /\ release' = [release EXCEPT ![r] = x] /\ Written(r)
        /\ torn' = torn /\ r \notin torn
    <3>1. KnownAt(p) /\ pc[p] = "materialize"
      BY <1>1, <1>7, Sees DEF MarkedAt, Materialize, Step
    <3> QED
      BY <1>2, <1>7, <3>1 DEF Materialize, KnownAt
  <2>3. ~Mark(p)
    BY <1>0, <1>7 DEF Materialize, Step
  <2> HIDE DEF x, r, Goal
  <2>4. Goal
    BY <1>5, <2>1, <2>2, <2>3
  <2> QED
    BY <1>1, <1>2, <2>4 DEF Goal, r
<1>8. CASE Build(p) \/ Validate(p) \/ Mark(p)
  <2>1. r \in Present /\ release[r].tree # "none"
    BY <1>2, <1>8 DEF Build, Validate, Mark, Step, Present
  <2>2. \E x \in ReleaseRow :
          /\ release' = [release EXCEPT ![r] = x] /\ x.tree = release[r].tree
          /\ release[r].marker => x.marker
          /\ Mark(p) => x.marker
          /\ x.build \in {release[r].build, "good"} \/ Build(p)
    <3>1. CASE Mark(p)
      <4> DEFINE x == [release[r] EXCEPT !.marker = TRUE]
      <4>1. x \in ReleaseRow /\ x.tree = release[r].tree /\ x.marker /\ x.build = release[r].build
        BY <1>3 DEF ReleaseRow
      <4>2. release' = [release EXCEPT ![r] = x]
        BY <1>2, <3>1 DEF Mark
      <4> QED
        BY <4>1, <4>2
    <3>2. CASE ~Mark(p)
      <4>1. PICK b \in {"running", "good"} :
              release' = [release EXCEPT ![r].build = b] /\ (b = "good" \/ Build(p))
        BY <1>8, <3>2 DEF Build, Validate
      <4> DEFINE x == [release[r] EXCEPT !.build = b]
      <4>2. x \in ReleaseRow /\ x.tree = release[r].tree /\ x.marker = release[r].marker /\ x.build = b
        BY <1>3 DEF ReleaseRow
      <4>3. release' = [release EXCEPT ![r] = x]
        BY <1>2, <4>1
      <4> HIDE DEF x
      <4> QED
        BY <3>2, <4>1, <4>2, <4>3
    <3> QED
      BY <3>1, <3>2
  <2>3. /\ Written(r) \/ UNCHANGED <<older, age>>
        /\ torn' = torn /\ (r \in torn => release[r].tree = "partial")
    BY <1>2, <1>8 DEF Build, Validate, Mark, TreeSound
  <2> HIDE DEF r, Goal
  <2>4. Goal
    BY <1>5, <2>1, <2>2, <2>3
  <2> QED
    BY <1>1, <1>2, <2>4 DEF Goal, r
<1>9. CASE Mirror(p)
  <2>1. UNCHANGED <<release, older, age, torn>> /\ ~Mark(p) /\ ~Inspect(p)
    BY <1>0, <1>9 DEF Mirror, Step, treeVars
  <2> QED
    BY <1>4, <2>1
<1>10. CASE Inspect(p) /\ release[r].marker
  <2>1. UNCHANGED <<release, older, age, torn>> /\ ~Mark(p)
    BY <1>0, <1>10 DEF Inspect, treeVars
  <2> QED
    BY <1>4, <1>10, <2>1
<1> QED
  BY <1>6, <1>7, <1>8, <1>9, <1>10 DEF Assembly

LEMMA AssemblyKept ==
    ASSUME Inv, NEW p \in Processes, Assembly(p)
    PROVE  Inv'
<1> DEFINE r == job[p]
<1>0. Working(p) /\ ProcessStep(p) /\ pc[p] \notin Activating
  BY DEF Working, ProcessStep, Assembly, Inspect, Materialize, Build, Validate, Mark, Mirror, Step, Activating
<1>1. /\ RestType /\ TreeType /\ TreeSound
      /\ JobAt(p) /\ LinkAt(p) /\ MarkedAt(p) /\ ServingAt(p) /\ DoomedAt(p)
      /\ current \in Present \cup {None} /\ previous \in Present \cup {None}
      /\ <<p, IF job[p] = None THEN "runner" ELSE "work">> \in lockFds
  BY <1>0, Sees
<1>2. /\ r \in Releases /\ TreeType' /\ TreeSound'
      /\ pc[p] # "inspect" => r \in Present
      /\ Present' = Present \cup {r} \/ (Inspect(p) /\ release[r].marker /\ UNCHANGED release)
      /\ \A s \in Releases : s # r => release'[s] = release[s]
      /\ release[r].marker => release'[r].marker
      /\ Mark(p) => release'[r].marker
      /\ release[r].marker /\ release'[r].build # release[r].build => release'[r].build = "good" \/ Build(p)
  BY AssemblyWrites
<1>3. /\ UNCHANGED <<current, previous, serving, lockFds, job, doomed, disturbed>>
      /\ pc[p] = "inspect" => prior'[p] = current /\ pc'[p] \in {"build", "materialize"}
      /\ pc[p] # "inspect" => prior' = prior
      /\ pc'[p] \in Assembling
      /\ pc'[p] = "mirror" => Mark(p)
      /\ pc'[p] = "switch" => pc[p] = "mirror"
      /\ pc'[p] = "materialize" => torn' = torn \ {r}
      /\ pc'[p] = "validate" => Build(p)
  BY <1>1 DEF Assembly, Inspect, Materialize, Build, Validate, Mark, Mirror, Step, Goto, linkVars, workVars,
     RestType, Assembling
\* Building in place withdraws what was verified, and remembers it.
<1>4. /\ Known' = Known /\ verified' \subseteq verified
      /\ Build(p) => r \notin verified'
  <2>1. CASE Build(p)
    BY <2>1 DEF Build, Known
  <2>2. CASE ~Build(p)
    BY <2>2 DEF Assembly, Inspect, Materialize, Validate, Mark, Mirror, Known, checkVars
  <2> QED
    BY <2>1, <2>2
<1>5. Present \subseteq Present' /\ r \in Present'
  <2>1. CASE Present' = Present \cup {r}
    BY <2>1
  <2>2. CASE Inspect(p) /\ release[r].marker /\ UNCHANGED release
    <3>1. Present' = Present
      BY <2>2 DEF Present
    <3>2. r \in Present
      BY <1>1, <1>2, <2>2 DEF TreeSound
    <3> QED
      BY <3>1, <3>2
  <2> QED
    BY <1>2, <2>1, <2>2
<1>6. Working(p)' /\ JobAt(p)' /\ LinkAt(p)'
  <2>1. pc'[p] \in Deploying /\ pc'[p] \notin {"idle", "lock", "select", "prune", "remove"}
    BY <1>3 DEF Assembling, Deploying, Labels
  <2>2. Working(p)'
    BY <2>1 DEF Working
  <2>3. doomed[p] = {}
    BY <1>0, <1>1 DEF JobAt, Pruning, Assembly, Inspect, Materialize, Build, Validate, Mark, Mirror, Step
  <2>4. JobAt(p)'
    BY <1>2, <1>3, <2>1, <2>3 DEF JobAt, Captured
  <2>5. prior'[p] = current
    <3>1. pc[p] # "inspect" => pc[p] \in Assembling
      BY DEF Assembly, Inspect, Materialize, Build, Validate, Mark, Mirror, Step, Assembling
    <3> QED
      BY <1>1, <1>3, <3>1 DEF LinkAt
  <2>6. LinkAt(p)'
    BY <1>1, <1>3, <1>5, <2>5 DEF LinkAt, Assembling
  <2> QED
    BY <2>2, <2>4, <2>6
<1>7. ServingAt(p)' /\ DoomedAt(p)'
  <2>1. pc'[p] \notin Activating /\ pc'[p] \notin Pruning /\ pc'[p] \notin {"probe", "persist", "probeOld"}
    BY <1>3 DEF Assembling, Activating, Pruning
  <2>2. prior'[p] = current
    BY <1>3, <1>6 DEF LinkAt
  <2> QED
    BY <1>0, <1>1, <1>3, <1>4, <2>1, <2>2 DEF ServingAt, DoomedAt
<1>8. MarkedAt(p)'
  <2>1. KnownMarked'
    <3>1. Known \subseteq Releases /\ verified \subseteq Known
      BY <1>1 DEF RestType, Known
    <3>2. \A s \in Known' : release'[s].marker
      BY <1>1, <1>2, <1>4, <3>1 DEF MarkedAt, KnownMarked
    <3>3. \A s \in verified' : release'[s].build = "good"
      BY <1>1, <1>2, <1>4, <3>1 DEF MarkedAt, KnownMarked
    <3> QED
      BY <3>2, <3>3 DEF KnownMarked
  <2>2. pc'[p] \notin Activating /\ pc'[p] \notin {"persist", "remove"}
    BY <1>3 DEF Assembling, Activating
  <2>3. pc'[p] \in {"mirror", "switch"} => release'[r].marker
    BY <1>1, <1>2, <1>3 DEF MarkedAt, KnownAt
  <2>4. /\ pc'[p] = "materialize" => r \notin torn'
        /\ pc'[p] = "validate" => r \notin verified'
    BY <1>3, <1>4
  <2>5. KnownAt(p)'
    BY <1>3, <2>2, <2>3, <2>4 DEF KnownAt
  <2> QED
    BY <2>1, <2>5 DEF MarkedAt
<1> QED
  BY <1>0, <1>1, <1>2, <1>3, <1>5, <1>6, <1>7, <1>8, AfterStep

LEMMA ActivationKept ==
    ASSUME Inv, NEW p \in Processes, Activation(p)
    PROVE  Inv'
<1>0. Working(p) /\ ProcessStep(p) /\ pc[p] \in Deploying
  BY DEF Working, ProcessStep, Activation, Switch, Restart, Probe, FailActivation, Restore, RestartOld,
     KillRunner, Step, Deploying, Labels
<1>1. /\ RestType /\ TreeType /\ TreeSound
      /\ JobAt(p) /\ LinkAt(p) /\ MarkedAt(p) /\ ServingAt(p) /\ DoomedAt(p)
      /\ current \in Present \cup {None} /\ previous \in Present \cup {None}
      /\ <<p, IF job[p] = None THEN "runner" ELSE "work">> \in lockFds
  BY <1>0, Sees
<1>2. /\ UNCHANGED <<release, older, age, torn, previous, job, prior, doomed, disturbed>>
      /\ job[p] \in Releases /\ job[p] # None
  <2>1. job[p] \in Releases
    BY <1>0, <1>1 DEF JobAt
  <2> QED
    BY <2>1, DeploymentAssumption DEF Activation, Switch, Restart, Probe, FailActivation, Restore, RestartOld,
       KillRunner, Step, treeVars, linkVars, workVars
<1>3. TreeType' /\ TreeSound' /\ Present' = Present
  BY <1>1, <1>2 DEF TreeType, TreeSound, Present
<1>4. lockFds' \subseteq lockFds /\ <<p, "work">> \in lockFds'
  <2>1. <<p, "work">> \in lockFds
    BY <1>1, <1>2
  <2> QED
    BY <2>1 DEF Activation, Switch, Restart, Probe, FailActivation, Restore, RestartOld, KillRunner, Step
<1>5. \/ /\ KillRunner(p) /\ UNCHANGED <<pc, current, serving, checkVars>>
      \/ /\ pc[p] = "switch" /\ pc'[p] = "restart" /\ current' = job[p] /\ UNCHANGED <<serving, checkVars>>
      \/ /\ pc[p] = "restart" /\ pc'[p] = "probe" /\ serving' = job[p] /\ UNCHANGED <<current, checkVars>>
      \/ /\ pc[p] = "probe" /\ pc'[p] = "persist" /\ verified' = verified \cup {job[p]}
         /\ reworked' = reworked \ {job[p]} /\ release[job[p]].build = "good" /\ UNCHANGED <<current, serving>>
      \/ /\ pc[p] \in {"switch", "restart", "probe", "persist"} /\ pc'[p] = "restore"
         /\ UNCHANGED <<current, serving, checkVars>>
      \/ /\ pc[p] = "restore" /\ pc'[p] = "restartOld" /\ current' = prior[p] /\ UNCHANGED <<serving, checkVars>>
      \/ /\ pc[p] = "restartOld" /\ pc'[p] = "probeOld" /\ serving' = prior[p] /\ UNCHANGED <<current, checkVars>>
  BY <1>1 DEF Activation, Switch, Restart, Probe, FailActivation, Restore, RestartOld, KillRunner, Step, Goto,
     linkVars, RestType, checkVars
<1>6. pc'[p] \in Deploying /\ pc'[p] \notin {"idle", "lock", "select", "prune", "remove"} /\ pc[p] \notin Pruning
  BY <1>0, <1>5 DEF Deploying, Labels, Pruning
<1>7. Working(p)' /\ JobAt(p)' /\ LinkAt(p)' /\ DoomedAt(p)' /\ current' \in Present \cup {None}
  <2>1. Working(p)' /\ DoomedAt(p)'
    BY <1>6 DEF Working, DoomedAt, Pruning
  <2>2. UNCHANGED <<pc, current>> \/ (pc[p] \in Captured /\ pc'[p] \in Captured)
    BY <1>5 DEF Captured, Assembling, Activating
  <2>3. pc'[p] \in Captured <=> pc[p] \in Captured
    BY <2>2
  <2>4. JobAt(p)'
    BY <1>1, <1>2, <1>6, <2>3 DEF JobAt
  <2>5. LinkAt(p)'
    <3>1. pc'[p] \in Captured => job[p] \in Present /\ prior[p] \in Present \cup {None}
      BY <1>1, <2>3 DEF LinkAt
    <3>2. CASE KillRunner(p) /\ UNCHANGED <<pc, current, serving, checkVars>>
      BY <1>1, <1>2, <1>3, <3>2 DEF LinkAt
    <3>3. CASE ~(KillRunner(p) /\ UNCHANGED <<pc, current, serving, checkVars>>)
      BY <1>1, <1>2, <1>3, <1>5, <3>1, <3>3 DEF LinkAt, Assembling
    <3> QED
      BY <3>2, <3>3
  <2>6. current' \in Present \cup {None}
    BY <1>1, <1>5, <2>2 DEF LinkAt
  <2> QED
    BY <2>1, <2>4, <2>5, <2>6
<1>8. ServingAt(p)'
  <2>1. CASE KillRunner(p) /\ UNCHANGED <<pc, current, serving, checkVars>>
    BY <1>1, <1>2, <2>1 DEF ServingAt, Known, checkVars
  <2>2. CASE ~(KillRunner(p) /\ UNCHANGED <<pc, current, serving, checkVars>>)
    <3>1. pc'[p] \in Activating /\ pc[p] \in Captured /\ Known \subseteq Known'
          /\ (pc[p] \in Activating \/ pc[p] = "switch")
      BY <1>5, <2>2 DEF Activating, Captured, Assembling, Known, checkVars
    <3>2. "switch" \notin Activating /\ "switch" \in Assembling
      BY DEF Activating, Assembling
    <3>3. ~disturbed => serving \in {job[p], prior[p]}
      BY <1>1, <3>1, <3>2 DEF ServingAt, LinkAt
    <3> QED
      BY <1>1, <1>2, <1>5, <2>2, <3>1, <3>3 DEF ServingAt
  <2> QED
    BY <2>1, <2>2
<1>9. MarkedAt(p)'
  <2>1. CASE KillRunner(p) /\ UNCHANGED <<pc, current, serving, checkVars>>
    BY <1>1, <1>2, <2>1 DEF MarkedAt, KnownMarked, KnownAt, Known, checkVars, Newer
  <2>2. CASE ~(KillRunner(p) /\ UNCHANGED <<pc, current, serving, checkVars>>)
    <3>1. pc[p] \in {"mirror", "switch"} \cup Activating
      BY <1>5, <2>2 DEF Activating
    <3>2. release[job[p]].marker
      BY <1>1, <3>1 DEF MarkedAt, KnownAt
    <3>3. \/ verified' = verified /\ Known' = Known /\ pc'[p] # "persist"
          \/ /\ verified' = verified \cup {job[p]} /\ Known' = Known \cup {job[p]}
             /\ release[job[p]].build = "good"
      BY <1>5, <2>2 DEF Known, checkVars
    <3>4. pc'[p] \notin {"materialize", "validate", "remove"}
      BY <1>5, <2>2
    <3>5. KnownMarked'
      BY <1>1, <1>2, <3>2, <3>3 DEF MarkedAt, KnownMarked
    <3>6. KnownAt(p)'
      BY <1>2, <3>2, <3>3, <3>4 DEF KnownAt
    <3> QED
      BY <3>5, <3>6 DEF MarkedAt
  <2> QED
    BY <2>1, <2>2
<1>10. previous' \in Present' \cup {None} /\ current' \in Present' \cup {None}
  BY <1>1, <1>2, <1>3, <1>7
<1> QED
  BY <1>0, <1>2, <1>3, <1>4, <1>7, <1>8, <1>9, <1>10, AfterStep

LEMMA EndingKept ==
    ASSUME Inv, NEW p \in Processes, Ending(p)
    PROVE  Inv'
<1>0. /\ Working(p) /\ ProcessStep(p) /\ End(p)
      /\ UNCHANGED <<older, age, torn, current, serving, verified, reworked>>
  BY DEF Working, ProcessStep, Ending, FailAssembly, Persist, ProbeOld, FailRollback, PruneEnds, FailCleanup,
     KillWork, treeVars, linkVars, checkVars
<1>1. /\ RestType /\ TreeType /\ TreeSound
      /\ JobAt(p) /\ LinkAt(p) /\ MarkedAt(p) /\ ServingAt(p)
      /\ current \in Present \cup {None} /\ previous \in Present \cup {None}
  BY <1>0, Sees
\* A failing build spoils the release under deployment, and no other.
<1>2. /\ TreeType' /\ TreeSound' /\ Present' = Present
      /\ \A r \in Releases : release'[r].marker = release[r].marker
      /\ \A r \in verified : release'[r].build = release[r].build
  <2>1. CASE UNCHANGED release
    BY <1>0, <1>1, <2>1 DEF TreeType, TreeSound, Present
  <2>2. CASE ~UNCHANGED release
    <3> DEFINE r == job[p]
               x == [release[r] EXCEPT !.build = "broken"]
    <3>1. pc[p] = "validate" /\ release' = [release EXCEPT ![r].build = "broken"]
      BY <2>2 DEF Ending, FailAssembly, Persist, ProbeOld, FailRollback, PruneEnds, FailCleanup, KillWork,
         treeVars
    <3>2. r \in Releases /\ r \in Present
      BY <1>1, <3>1 DEF JobAt, LinkAt, Deploying, Labels, Captured, Assembling
    <3>3. /\ x \in ReleaseRow /\ x.tree # "none" /\ x.marker = release[r].marker
          /\ x.tree = release[r].tree
      BY <1>1, <3>2 DEF TreeType, ReleaseRow, Present
    <3>4. release' = [release EXCEPT ![r] = x]
      BY <1>1, <3>1, <3>2 DEF TreeType
    <3>6. r \notin verified
      BY <1>1, <3>1 DEF MarkedAt, KnownAt
    <3>7. r \in torn => x.tree = "partial"
      BY <1>1, <3>3 DEF TreeSound
    <3> HIDE DEF x, r
    <3>5. /\ TreeType' /\ TreeSound' /\ Present' = Present \cup {r} /\ release'[r] = x
          /\ \A s \in Releases : s # r => release'[s] = release[s]
      BY <1>0, <1>1, <3>2, <3>3, <3>4, <3>7, TreeWritten
    <3> QED
      BY <1>1, <3>2, <3>3, <3>5, <3>6 DEF RestType
  <2> QED
    BY <2>1, <2>2
<1>3. previous' \in {previous, prior[p]} /\ (previous' # previous => pc[p] = "persist")
  BY DEF Ending, FailAssembly, Persist, ProbeOld, FailRollback, PruneEnds, FailCleanup, KillWork, linkVars
<1>4. pc[p] = "persist" => pc[p] \in Captured
  BY DEF Captured, Activating
<1>5. current' \in Present' \cup {None} /\ previous' \in Present' \cup {None}
  BY <1>0, <1>1, <1>2, <1>3, <1>4 DEF LinkAt
<1>6. KnownMarked' /\ Known' = Known
  BY <1>0, <1>1, <1>2 DEF MarkedAt, KnownMarked, Known, RestType
<1>7. ~disturbed' => /\ serving' = current'
                     /\ current' \in Known' \cup {None} /\ previous' \in Known' \cup {None}
  <2> SUFFICES ASSUME ~disturbed'
               PROVE  /\ serving = current /\ current \in Known \cup {None}
                      /\ previous' \in Known \cup {None}
    BY <1>0, <1>6
  <2>1. ~disturbed /\ (pc[p] \in Activating => pc[p] \in {"persist", "probeOld"})
    <3>1. CASE KillWork(p)
      BY <3>1 DEF KillWork
    <3>2. CASE ~KillWork(p)
      BY <3>2 DEF Ending, FailAssembly, Persist, ProbeOld, FailRollback, PruneEnds, FailCleanup, Activating
    <3> QED
      BY <3>1, <3>2
  <2>2. previous' \in Known \cup {None}
    BY <1>1, <1>3, <1>4, <2>1 DEF ServingAt
  <2>3. CASE pc[p] \notin Activating
    BY <1>1, <2>1, <2>2, <2>3 DEF ServingAt
  <2>4. CASE pc[p] = "persist"
    BY <1>1, <2>1, <2>2, <2>4 DEF ServingAt, LinkAt, MarkedAt, KnownAt
  <2>5. CASE pc[p] = "probeOld"
    <3>1. pc[p] \in Captured
      BY <2>5 DEF Captured, Activating
    <3> QED
      BY <1>1, <2>1, <2>2, <2>5, <3>1 DEF ServingAt, LinkAt
  <2> QED
    BY <2>1, <2>3, <2>4, <2>5
<1> QED
  BY <1>0, <1>2, <1>5, <1>6, <1>7, AfterEnd

-----------------------------------------------------------------------------
(* prune_releases. *)

\* Of two unprotected releases the selection never takes the newer one
\* alone, and what it leaves is enough.
LEMMA SelectedOld ==
    ASSUME TreeType, TreeSound, Protected \subseteq Present
    PROVE  /\ Selected \subseteq Present \ Protected
           /\ \A r \in Selected : \A s \in Present \ (Protected \cup Selected) : <<r, s>> \in older
           /\ (\E r \in Selected : Newer(r, Selected) = {}) => Cardinality(Present \ Selected) >= Retention
<1> DEFINE U == Present \ Protected
<1>1. Present \subseteq Releases /\ IsFiniteSet(Releases) /\ Retention \in Nat
  BY DeploymentAssumption DEF Present
<1>2. \A S : S \subseteq Present => IsFiniteSet(S) /\ Cardinality(S) \in Nat
  BY <1>1, FS_Subset, FS_CardinalityType
<1>3. \A S, T : S \subseteq T /\ T \subseteq Present => Cardinality(S) <= Cardinality(T)
  BY <1>2, FS_Subset
<1>4. Selected \subseteq U
  BY DEF Selected
<1>5. ASSUME NEW r \in Selected, NEW s \in Present \ (Protected \cup Selected)
      PROVE  <<r, s>> \in older
  <2>1. r \in U /\ s \in U /\ r # s
    BY <1>4, <1>5
  <2>2. SUFFICES ASSUME <<s, r>> \in older PROVE FALSE
    BY <2>1 DEF TreeSound
  <2>3. Newer(r, U) \subseteq Newer(s, U) /\ Newer(s, U) \subseteq Present
    BY <1>1, <2>1, <2>2 DEF Newer, TreeSound
  <2>4. Cardinality(Newer(r, U)) <= Cardinality(Newer(s, U))
    BY <1>3, <2>3
  <2>5. Cardinality(Newer(r, U)) \in Nat /\ Cardinality(Newer(s, U)) \in Nat /\ Cardinality(Protected) \in Nat
    BY <1>2, <2>3
  <2>6. Cardinality(Newer(r, U)) + Cardinality(Protected) >= Retention
    BY <1>5 DEF Selected
  <2>7. Cardinality(Newer(s, U)) + Cardinality(Protected) >= Retention
    BY <1>1, <2>4, <2>5, <2>6
  <2> QED
    BY <2>1, <2>7 DEF Selected
<1>6. ASSUME NEW r \in Selected, Newer(r, Selected) = {}
      PROVE  Cardinality(Present \ Selected) >= Retention
  <2>1. Newer(r, U) \cup Protected \subseteq Present \ Selected /\ Newer(r, U) \cap Protected = {}
    BY <1>4, <1>6 DEF Newer
  <2>2. Cardinality(Newer(r, U) \cup Protected) <= Cardinality(Present \ Selected)
    BY <1>3, <2>1
  <2>3. /\ IsFiniteSet(Newer(r, U)) /\ IsFiniteSet(Protected)
        /\ Cardinality(Newer(r, U)) \in Nat /\ Cardinality(Protected) \in Nat
        /\ Cardinality(Present \ Selected) \in Nat
    BY <1>2, <2>1
  <2>4. Cardinality(Newer(r, U) \cup Protected) = Cardinality(Newer(r, U)) + Cardinality(Protected)
    <3> DEFINE N == Newer(r, U)
    <3>1. Cardinality(N \cup Protected) = Cardinality(N) + Cardinality(Protected) - Cardinality(N \cap Protected)
      BY <2>3, FS_Union
    <3>2. Cardinality(N \cap Protected) = 0
      BY <2>1, FS_EmptySet
    <3> HIDE DEF N
    <3>3. Cardinality(N \cup Protected) = Cardinality(N) + Cardinality(Protected)
      BY <2>3, <3>1, <3>2 DEF N
    <3> QED
      BY <3>3 DEF N
  <2>5. Cardinality(Newer(r, U)) + Cardinality(Protected) >= Retention
    BY <1>6 DEF Selected
  <2> QED
    BY <1>1, <2>2, <2>3, <2>4, <2>5
<1> QED
  BY <1>4, <1>5, <1>6

LEMMA CleaningKept ==
    ASSUME Inv, NEW p \in Processes, Cleaning(p)
    PROVE  Inv'
<1>0. Working(p) /\ ProcessStep(p) /\ pc[p] \in {"select", "prune", "remove"}
  BY DEF Working, ProcessStep, Cleaning, Select, Prune, Remove
<1>1. /\ RestType /\ TreeType /\ TreeSound
      /\ JobAt(p) /\ LinkAt(p) /\ MarkedAt(p) /\ ServingAt(p) /\ DoomedAt(p)
      /\ current \in Present \cup {None} /\ previous \in Present \cup {None}
      /\ <<p, IF job[p] = None THEN "runner" ELSE "work">> \in lockFds
  BY <1>0, Sees
<1>2. pc[p] \notin Activating /\ pc[p] \notin Captured /\ prior[p] = None /\ job[p] = None
  BY <1>0, <1>1 DEF Activating, Captured, Assembling, JobAt
<1>3. UNCHANGED <<current, previous, serving, disturbed>>
  BY DEF Cleaning, Select, Prune, Remove, linkVars
<1>4. CASE End(p)
  <2>1. UNCHANGED <<release, older, age, torn, verified, reworked>>
    <3>1. pc'[p] = "idle"
      BY <1>1, <1>4 DEF End, Goto, RestType
    <3>2. pc'[p] # "idle" \/ Select(p)
      BY <1>1 DEF Cleaning, Prune, Remove, Goto, RestType
    <3> QED
      BY <3>1, <3>2 DEF Select, treeVars, checkVars
  <2>2. TreeType' /\ TreeSound' /\ Present' = Present
    BY <1>1, <2>1 DEF TreeType, TreeSound, Present
  <2>3. KnownMarked' /\ Known' = Known
    BY <1>1, <2>1 DEF MarkedAt, KnownMarked, Known
  <2>4. ~disturbed' => /\ serving' = current'
                       /\ current' \in Known' \cup {None} /\ previous' \in Known' \cup {None}
    BY <1>1, <1>2, <1>3, <2>3 DEF ServingAt
  <2>5. current' \in Present' \cup {None} /\ previous' \in Present' \cup {None}
    BY <1>1, <1>3, <2>2
  <2> QED
    BY <1>0, <1>4, <2>2, <2>3, <2>4, <2>5, AfterEnd
\* The rest goes on under the lock: what it leaves behind must be in order.
<1>5. ASSUME UNCHANGED <<lockFds, job, prior>>, pc'[p] \in Pruning, TreeType', TreeSound',
             Present \ doomed[p] \subseteq Present', doomed'[p] \subseteq Present',
             pc[p] \in Pruning \/ doomed[p] = {}, DoomedAt(p)', MarkedAt(p)',
             Known \ doomed[p] \subseteq Known'
      PROVE  Inv'
  <2>1. pc'[p] \notin Activating /\ pc'[p] \notin Captured /\ pc'[p] \in {"prune", "remove"}
        /\ pc'[p] \notin Deploying
    BY <1>5 DEF Pruning, Activating, Captured, Assembling, Deploying
  <2>2. Working(p)' /\ JobAt(p)'
    BY <1>2, <1>5, <2>1 DEF Working, JobAt
  <2>3. LinkAt(p)'
    BY <2>1 DEF LinkAt, Captured, Assembling, Activating
  <2>4. current \notin doomed[p] /\ previous \notin doomed[p]
    BY <1>1, <1>5 DEF DoomedAt, Protected
  <2>5. current' \in Present' \cup {None} /\ previous' \in Present' \cup {None}
    BY <1>1, <1>3, <1>5, <2>4
  <2>6. ServingAt(p)'
    <3>1. {"probe", "persist", "probeOld"} \subseteq Activating
      BY DEF Activating
    <3> QED
      BY <1>1, <1>2, <1>3, <1>5, <2>1, <2>4, <3>1 DEF ServingAt
  <2> QED
    BY <1>0, <1>1, <1>5, <2>2, <2>3, <2>5, <2>6, AfterStep
<1>6. CASE Select(p) /\ ~End(p)
  <2>1. /\ UNCHANGED <<lockFds, job, prior, release, older, age, torn, verified, reworked>>
        /\ pc'[p] = "prune" /\ doomed'[p] = Selected /\ Protected \subseteq Present
    BY <1>1, <1>6 DEF Select, Goto, treeVars, checkVars, RestType
  <2>2. /\ Selected \subseteq Present \ Protected
        /\ \A r \in Selected : \A s \in Present \ (Protected \cup Selected) : <<r, s>> \in older
        /\ (\E r \in Selected : Newer(r, Selected) = {}) => Cardinality(Present \ Selected) >= Retention
    BY <1>1, <2>1, SelectedOld
  <2>3. TreeType' /\ TreeSound' /\ Present' = Present /\ Protected' = Protected
    BY <1>1, <1>3, <2>1 DEF TreeType, TreeSound, Present, Protected
  <2>4. \A r, S : Newer(r, S)' = Newer(r, S)
    BY <2>1 DEF Newer
  <2>5. DoomedAt(p)'
    <3> DEFINE S == Selected
    <3> HIDE DEF S
    <3>1. /\ S \subseteq Present \ Protected
          /\ \A r \in S : \A s \in Present \ (Protected \cup S) : <<r, s>> \in older
          /\ (\E r \in S : Newer(r, S) = {}) => Cardinality(Present \ S) >= Retention
          /\ doomed'[p] = S
      BY <2>1, <2>2 DEF S
    <3> QED
      BY <2>1, <2>3, <3>1 DEF DoomedAt, Newer
  <2>6. MarkedAt(p)'
    BY <1>1, <2>1 DEF MarkedAt, KnownMarked, KnownAt, Known, Activating
  <2>7. doomed[p] = {} /\ pc'[p] \in Pruning /\ Known' = Known
    BY <1>1, <1>6, <2>1 DEF Select, JobAt, Pruning, Known
  <2> QED
    BY <1>5, <2>1, <2>2, <2>3, <2>5, <2>6, <2>7
<1>7. CASE Prune(p)
  <2>1. pc[p] \in Pruning /\ pc[p] = "prune"
    BY <1>7 DEF Prune, Pruning
  <2>2. PICK r \in doomed[p] \ Protected, marker \in BOOLEAN :
          /\ Newer(r, doomed[p]) = {}
          /\ release' = [release EXCEPT ![r] = [tree |-> "partial", build |-> "broken", marker |-> marker]]
          /\ older' \in {older, Touched(older, r)} /\ torn' = torn \cup {r}
          /\ verified' = verified \ {r} /\ reworked' = reworked \ {r}
    BY <1>7 DEF Prune
  <2> DEFINE x == [tree |-> "partial", build |-> "broken", marker |-> marker]
             D == doomed[p]
  <2>3. x \in ReleaseRow /\ x.tree = "partial"
    BY DEF ReleaseRow
  <2>4. /\ D \subseteq Present \ Protected
        /\ \A s \in D : \A t \in Present \ (Protected \cup D) : <<s, t>> \in older
        /\ Cardinality(Present \ D) >= Retention
    BY <1>1, <2>1, <2>2 DEF DoomedAt
  <2>5. r \in Releases /\ r \in Present
    BY <2>2, <2>4 DEF Present
  <2>6. UNCHANGED <<lockFds, job, prior, age, doomed>> /\ pc'[p] = "remove"
    BY <1>1, <1>7 DEF Prune, Goto, workVars, RestType
  <2>7. release' = [release EXCEPT ![r] = x]
    BY <2>2
  <2> HIDE DEF x
  <2>8. /\ TreeType' /\ TreeSound' /\ Present' = Present \cup {r} /\ release'[r] = x
        /\ \A s \in Releases : s # r => release'[s] = release[s]
    BY <1>1, <2>2, <2>3, <2>5, <2>6, <2>7, TreeWritten
  <2>9. Present' = Present /\ Protected' = Protected /\ D' = D
    BY <1>3, <2>5, <2>6, <2>8 DEF Protected
  \* One release of them is the newest, the one whose removal begins.
  <2>10. \A s \in D : s # r => <<s, r>> \in older
    <3>1. \A s \in D : <<r, s>> \notin older
      BY <2>2 DEF Newer
    <3> QED
      BY <1>1, <2>2, <2>4, <3>1 DEF TreeSound
  <2>11. \A s, t \in Releases : <<s, t>> \in older /\ s # r => <<s, t>> \in older'
    <3>1. \A s, t \in Releases : <<s, t>> \in older => s \in Present
      BY <1>1 DEF TreeType
    <3> QED
      BY <2>2, <3>1 DEF Touched, Without
  <2>12. \A s \in D : s # r => Newer(s, D)' # {}
    <3> SUFFICES ASSUME NEW s \in D, s # r PROVE <<s, r>> \in older'
      BY <2>2, <2>6 DEF Newer
    <3> QED
      BY <2>4, <2>5, <2>10, <2>11 DEF Present
  <2>13. DoomedAt(p)'
    <3>1. doomed'[p] = D /\ doomed'[p] \subseteq Present' \ Protected'
      BY <2>4, <2>6, <2>9
    <3>2. ASSUME NEW s \in D, s # r, NEW t \in Present \ (Protected \cup D)
          PROVE  <<s, t>> \in older'
      <4>1. s \in Releases /\ t \in Releases /\ <<s, t>> \in older
        BY <2>4, <3>2 DEF Present
      <4> QED
        BY <2>11, <3>2, <4>1
    <3>3. Newer(r, D)' = {}
      <4>1. \A s \in D : <<r, s>> \notin older
        BY <2>2 DEF Newer
      <4>2. \A s \in D : <<r, s>> \notin older'
        BY <2>2, <2>4, <2>5, <4>1 DEF Touched, Without
      <4> QED
        BY <2>9, <4>2 DEF Newer
    <3> QED
      BY <2>4, <2>6, <2>9, <3>1, <3>2, <3>3 DEF DoomedAt
  <2>14. MarkedAt(p)'
    <3>1. Known' = Known \ {r} /\ Known \subseteq Releases /\ verified \subseteq Known
      BY <1>1, <2>2 DEF Known, RestType
    <3>2. KnownMarked'
      BY <1>1, <2>2, <2>8, <3>1 DEF MarkedAt, KnownMarked
    <3>3. \A s \in doomed'[p] : Newer(s, doomed[p])' = {} => s \notin Known' /\ s \in torn'
      BY <2>2, <2>6, <2>12, <3>1
    <3> QED
      BY <2>6, <3>2, <3>3 DEF MarkedAt, KnownAt, Activating
  <2>15. Known \ D \subseteq Known'
    BY <2>2 DEF Known
  <2> QED
    BY <1>5, <2>1, <2>2, <2>4, <2>6, <2>8, <2>9, <2>13, <2>14, <2>15 DEF Pruning
<1>8. CASE Remove(p)
  <2>1. pc[p] \in Pruning /\ pc[p] = "remove"
    BY <1>8 DEF Remove, Pruning
  <2>2. PICK r \in doomed[p] :
          /\ Newer(r, doomed[p]) = {}
          /\ release' = [release EXCEPT ![r] = Absent]
          /\ older' = Without(older, r) /\ age' = Without(age, r) /\ torn' = torn \ {r}
          /\ doomed' = [doomed EXCEPT ![p] = @ \ {r}]
    BY <1>8 DEF Remove
  <2> DEFINE D == doomed[p]
  <2>4. /\ D \subseteq Present \ Protected
        /\ Cardinality(Present \ D) >= Retention
        /\ r \notin Known
    BY <1>1, <2>1, <2>2 DEF DoomedAt, MarkedAt, KnownAt
  \* The others are not the newest, so they are still in order.
  <2>3. \A s \in D \ {r} : \A t \in Present \ (Protected \cup D) : <<s, t>> \in older
    <3> SUFFICES ASSUME NEW s \in D \ {r} PROVE Newer(s, D) # {}
      BY <1>1, <2>1 DEF DoomedAt
    <3>1. s \in Present /\ r \in Present /\ <<r, s>> \notin older
      BY <2>2, <2>4 DEF Newer
    <3>2. <<s, r>> \in older
      BY <1>1, <3>1 DEF TreeSound
    <3> QED
      BY <2>2, <3>2 DEF Newer
  <2>5. r \in Releases /\ r \in Present
    BY <2>2, <2>4 DEF Present
  <2>6. /\ UNCHANGED <<lockFds, job, prior, verified, reworked>> /\ pc'[p] = "prune"
        /\ doomed'[p] = D \ {r} /\ Known' = Known
    BY <1>1, <1>8, <2>2 DEF Remove, Goto, RestType, checkVars, Known
  <2>7. /\ TreeType' /\ TreeSound' /\ Present' = Present \ {r}
        /\ \A s \in Releases : s # r => release'[s] = release[s]
        /\ \A s, t \in Releases \ {r} : <<s, t>> \in older' <=> <<s, t>> \in older
    BY <1>1, <2>2, <2>5, Deleted
  <2>8. Protected' = Protected /\ Present' \ doomed'[p] = Present \ D
    BY <1>3, <2>2, <2>6, <2>7 DEF Protected
  <2>9. DoomedAt(p)'
    <3>1. doomed'[p] \subseteq Present' \ Protected'
      BY <2>4, <2>6, <2>7, <2>8
    <3>2. ASSUME NEW s \in doomed'[p], NEW t \in Present' \ (Protected' \cup doomed'[p])
          PROVE  <<s, t>> \in older'
      <4>1. s \in D /\ t \in Present \ (Protected \cup D) /\ s # r /\ t # r /\ s \in Releases /\ t \in Releases
        BY <2>4, <2>6, <2>7, <2>8, <3>2 DEF Present
      <4> QED
        BY <2>3, <2>7, <4>1
    <3> QED
      BY <2>4, <2>8, <3>1, <3>2 DEF DoomedAt
  <2>10. MarkedAt(p)'
    <3>1. Known \subseteq Releases /\ verified \subseteq Known
      BY <1>1 DEF Known, RestType
    <3>2. KnownMarked'
      BY <1>1, <2>4, <2>6, <2>7, <3>1 DEF MarkedAt, KnownMarked
    <3> QED
      BY <2>6, <3>2 DEF MarkedAt, KnownAt, Activating
  <2> QED
    BY <1>5, <2>1, <2>2, <2>4, <2>6, <2>7, <2>9, <2>10 DEF Pruning
<1> QED
  BY <1>4, <1>6, <1>7, <1>8 DEF Cleaning

-----------------------------------------------------------------------------
LEMMA InitInv ==
    ASSUME Init
    PROVE  Inv
<1>1. /\ \A p \in Processes : pc[p] = "idle" /\ job[p] = None /\ prior[p] = None /\ doomed[p] = {}
      /\ lockFds = {} /\ serving = current /\ disturbed = FALSE
      /\ verified = {current, previous} \ {None} /\ reworked = {} /\ age = older /\ torn = {}
      /\ release = [r \in Releases |-> IF r \in verified THEN Finished ELSE Absent]
  BY DEF Init
<1>2. /\ current \in MaybeRelease /\ previous \in MaybeRelease
      /\ \/ current = None /\ previous = None /\ older = {}
         \/ /\ current # previous /\ current # None /\ previous # None
            /\ older = {<<previous, current>>}
  BY DeploymentAssumption DEF Init, MaybeRelease
<1>3. verified \subseteq Releases /\ Present = verified
  <2>1. Finished.tree # "none" /\ Absent.tree = "none"
    BY DEF Finished, Absent
  <2>2. verified \subseteq Releases
    BY <1>1, <1>2 DEF MaybeRelease
  <2>3. \A r \in Releases : release[r].tree # "none" <=> r \in verified
    BY <1>1, <2>1
  <2> QED
    BY <2>2, <2>3 DEF Present
<1>4. \A r \in Releases : (release[r].marker <=> r \in verified) /\ (r \in verified => release[r].build = "good")
  <2>1. Finished.marker = TRUE /\ Absent.marker = FALSE /\ Finished.build = "good"
    BY DEF Finished, Absent
  <2> QED
    BY <1>1, <2>1
<1>5. TreeType
  <2>1. Finished \in ReleaseRow /\ Absent \in ReleaseRow
    BY DEF Finished, Absent, ReleaseRow
  <2>2. release \in [Releases -> ReleaseRow]
    BY <1>1, <2>1
  <2>3. older \subseteq Present \X Present
    BY <1>1, <1>2, <1>3
  <2>4. age = older /\ torn = {}
    BY <1>1
  <2> QED
    BY <2>2, <2>3, <2>4 DEF TreeType
<1>6. RestType
  BY <1>1, <1>2, <1>3 DEF Init, RestType, Labels, MaybeRelease
<1>7. TypeOK
  BY <1>5, <1>6, TypeParts
<1>8. TreeSound
  <2>1. Present = {current, previous} \ {None}
    BY <1>1, <1>3
  <2>2. age = older /\ torn = {}
    BY <1>1
  <2> QED
    BY <1>2, <1>3, <1>4, <2>1, <2>2 DEF TreeSound
<1>9. Exclusive /\ \A p \in Processes : JobAt(p)
  BY <1>1 DEF Exclusive, Working, JobAt, Deploying
<1>10. LinksExist /\ ServingKnown /\ VerifiedMarked /\ LinksVerified
  <2>1. current \in Known \cup {None} /\ previous \in Known \cup {None} /\ Known = verified
    BY <1>1 DEF Known
  <2>2. \A p \in Processes : LinkAt(p)
    BY <1>1 DEF LinkAt, Captured, Assembling, Activating
  <2>3. KnownMarked
    BY <1>3, <1>4, <2>1 DEF KnownMarked
  <2> QED
    BY <1>1, <1>3, <2>1, <2>2, <2>3 DEF LinksExist, ServingKnown, VerifiedMarked, KnownAt, LinksVerified,
       Captured, Assembling, Activating
<1>11. DoomedOld
  BY <1>1 DEF DoomedOld, DoomedAt, Pruning
<1> QED
  BY <1>7, <1>8, <1>9, <1>10, <1>11 DEF Inv

LEMMA NextInv ==
    ASSUME Inv, [Next]_vars
    PROVE  Inv'
<1>1. CASE Next
  <2>1. CASE Respawn
    BY <2>1, RespawnKept
  <2>2. CASE \E p \in Processes : ProcessStep(p)
    BY <2>2, EnteringKept, CheckKept, AssemblyKept, ActivationKept, EndingKept, CleaningKept DEF ProcessStep
  <2> QED
    BY <1>1, <2>1, <2>2, StepOf
<1>2. CASE UNCHANGED vars
  <2> USE <1>2 DEF vars, treeVars, linkVars, workVars, checkVars
  <2>1. TypeOK' /\ Exclusive' /\ (\A p \in Processes : JobAt(p)')
    BY DEF Inv, TypeOK, Exclusive, Working, JobAt, Present
  <2>2. LinksExist' /\ ServingKnown' /\ LinksVerified' /\ TreeSound'
    BY DEF Inv, LinksExist, LinkAt, ServingKnown, LinksVerified, Known, TreeSound, Present
  <2>3. VerifiedMarked'
    BY DEF Inv, VerifiedMarked, KnownMarked, KnownAt, Known, Newer
  <2>4. DoomedOld'
    <3>1. Present' = Present /\ Protected' = Protected
      BY DEF Present, Protected
    <3> QED
      BY <3>1 DEF Inv, DoomedOld, DoomedAt, Newer
  <2> QED
    BY <2>1, <2>2, <2>3, <2>4 DEF Inv
<1> QED
  BY <1>1, <1>2

\* Every reachable state satisfies the inductive invariant.
THEOREM InvAlways == Spec => []Inv
<1>1. Init => Inv
  BY InitInv
<1>2. Inv /\ [Next]_vars => Inv'
  BY NextInv
<1> QED
  BY <1>1, <1>2, PTL DEF Spec

\* Every variable keeps its type.
THEOREM TypeCorrect == Spec => []TypeOK
<1>1. Inv => TypeOK
  BY DEF Inv
<1> QED
  BY <1>1, InvAlways, PTL

\* Whoever is killed, the linked releases, the one a deployment would roll
\* back to and, short of a failed activation, the one that is served stay.
THEOREM ProtectedExistAlways == Spec => []ProtectedExist
<1>1. Inv => ProtectedExist
  <2> SUFFICES ASSUME Inv PROVE ProtectedExist
    OBVIOUS
  <2> DEFINE used == {current, previous} \cup {prior[p] : p \in Processes}
                       \cup (IF disturbed THEN {} ELSE {serving})
  <2>1. current \in Present \cup {None} /\ previous \in Present \cup {None}
    BY DEF Inv, LinksExist
  <2>2. \A p \in Processes : prior[p] \in Present \cup {None}
    BY DEF Inv, LinksExist, LinkAt, JobAt
  <2>3. ~disturbed => \/ serving = current /\ \A p \in Processes : pc[p] \notin Activating
                      \/ \E p \in Processes : pc[p] \in Activating /\ serving \in {job[p], prior[p]}
    BY DEF Inv, ServingKnown
  <2>4. \A p \in Processes : pc[p] \in Activating => job[p] \in Present
    BY DEF Inv, LinksExist, LinkAt, Captured
  <2>5. ~disturbed => serving \in Present \cup {None}
    BY <2>1, <2>2, <2>3, <2>4
  <2>6. used \ {None} \subseteq Present
    BY <2>1, <2>2, <2>5
  <2>7. ASSUME NEW p \in Processes, NEW r \in doomed[p], pc[p] = "remove"
        PROVE  r \notin used
    <3>1. Working(p) /\ pc[p] \in Pruning /\ pc[p] \notin Activating \cup Captured
      BY <2>7 DEF Working, Pruning, Activating, Captured, Assembling
    <3>2. doomed[p] \subseteq Present \ Protected
      BY <3>1 DEF Inv, DoomedOld, DoomedAt
    <3>3. r \notin {current, previous} /\ r \in Releases
      BY <2>7, <3>2 DEF Protected, Present
    <3>4. \A q \in Processes : q # p => ~Working(q)
      BY <3>1, Alone
    <3>5. \A q \in Processes : pc[q] \notin Activating \cup Captured
      BY <3>1, <3>4 DEF Working, Activating, Captured, Assembling
    <3>6. \A q \in Processes : prior[q] = None
      BY <3>5 DEF Inv, JobAt
    <3>7. ~disturbed => serving = current
      BY <3>5 DEF Inv, ServingKnown
    <3>8. r # None
      BY <3>3, DeploymentAssumption
    <3> QED
      BY <3>3, <3>6, <3>7, <3>8
  <2> QED
    BY <2>6, <2>7 DEF ProtectedExist
<1> QED
  BY <1>1, InvAlways, PTL

\* Between deployments the host serves `current`, and both links name
\* releases that passed their checks as they stand, or did before a
\* redeployment wrote to them in place.
THEOREM SettledIsVerifiedAlways == Spec => []SettledIsVerified
<1>1. Inv => SettledIsVerified
  <2> SUFFICES ASSUME Inv, ~disturbed, \A p \in Processes : pc[p] \notin Deploying
               PROVE  /\ serving = current
                      /\ \A r \in {current, previous} \ {None} :
                           r \in reworked \/ (r \in verified /\ release[r].build = "good")
    BY DEF SettledIsVerified
  <2>1. Activating \subseteq Deploying
    BY DEF Activating, Deploying, Labels
  <2>2. \A p \in Processes : pc[p] \notin Activating
    BY <2>1
  <2> QED
    BY <2>2 DEF Inv, ServingKnown, LinksVerified, VerifiedMarked, KnownMarked, Known
<1> QED
  BY <1>1, InvAlways, PTL

\* A cleanup begins to remove a finished release only if it keeps Retention
\* others, each unprotected one deployed later or left half-removed before.
THEOREM RetentionKeptAlways == Spec => RetentionKept
<1> DEFINE Body == \A r \in Releases :
         LET kept == Present \ UNION {doomed[p] : p \in Processes} IN
         release[r].tree = "whole" /\ release[r].marker /\ release'[r].tree # "whole" =>
           /\ Cardinality(kept) >= Retention
           /\ \A s \in kept \ Protected : <<r, s>> \in age \/ s \in torn
<1>1. Inv /\ [Next]_vars => [Body]_vars
  <2> SUFFICES ASSUME Inv, Next, NEW r \in Releases, release[r].tree = "whole", release[r].marker,
                      release'[r].tree # "whole"
               PROVE  LET kept == Present \ UNION {doomed[p] : p \in Processes} IN
                      /\ Cardinality(kept) >= Retention
                      /\ \A s \in kept \ Protected : <<r, s>> \in age \/ s \in torn
    OBVIOUS
  <2>1. /\ TreeType /\ TreeSound /\ r \in Present /\ r \notin torn /\ ~UNCHANGED release
    BY TypeParts DEF Inv, Present, TreeSound
  <2>2. PICK p \in Processes : Prune(p)
    <3>1. PICK p \in Processes : ProcessStep(p)
      BY StepOf, <2>1 DEF Respawn, treeVars
    <3>2. ~Assembly(p)
      <4> SUFFICES ASSUME Assembly(p) PROVE FALSE
        OBVIOUS
      <4>1. \/ Inspect(p) /\ ~release[job[p]].marker /\ \E x : release' = [release EXCEPT ![job[p]] = x]
            \/ release' = [release EXCEPT ![job[p]].tree = "whole"]
            \/ \E x : release' = [release EXCEPT ![job[p]].build = x]
            \/ release' = [release EXCEPT ![job[p]].marker = TRUE]
        BY <2>1 DEF Assembly, Inspect, Materialize, Build, Validate, Mark, Mirror, treeVars
      <4>2. release[r] \in ReleaseRow
        BY <2>1 DEF TreeType
      <4>3. release \in [Releases -> ReleaseRow]
        BY <2>1 DEF TreeType
      <4>4. CASE job[p] # r
        BY <4>1, <4>3, <4>4
      <4>5. CASE job[p] = r
        <5>1. ~(Inspect(p) /\ ~release[job[p]].marker)
          BY <4>5
        <5> QED
          BY <4>1, <4>2, <4>3, <4>5, <5>1 DEF ReleaseRow
      <4> QED
        BY <4>4, <4>5
    <3>3. ~Ending(p)
      <4> SUFFICES ASSUME Ending(p) PROVE FALSE
        OBVIOUS
      <4>1. release' = [release EXCEPT ![job[p]].build = "broken"]
        BY <2>1 DEF Ending, FailAssembly, Persist, ProbeOld, FailRollback, PruneEnds, FailCleanup, KillWork,
           treeVars
      <4>2. release'[r].tree = release[r].tree
        BY <2>1, <4>1 DEF TreeType, ReleaseRow
      <4> QED
        BY <4>2
    <3>4. ~Remove(p)
      <4> SUFFICES ASSUME Remove(p) PROVE FALSE
        OBVIOUS
      <4>1. PICK x \in doomed[p] : Newer(x, doomed[p]) = {} /\ release' = [release EXCEPT ![x] = Absent]
        BY DEF Remove
      <4>2. x \in torn
        BY <4>1 DEF Inv, VerifiedMarked, KnownAt, Remove
      <4> QED
        BY <2>1, <4>1, <4>2 DEF TreeType
    <3>5. ~Entering(p) /\ ~CheckLegacy(p) /\ ~Activation(p) /\ ~Select(p)
      BY <2>1 DEF Entering, Deploy, Cleanup, Start, Lock, KillWork, CheckLegacy, Activation, Switch, Restart,
         Probe, FailActivation, Restore, RestartOld, KillRunner, Select, treeVars
    <3> QED
      BY <3>1, <3>2, <3>3, <3>4, <3>5 DEF ProcessStep, Cleaning
  <2>3. PICK x \in doomed[p], row \in ReleaseRow :
          Newer(x, doomed[p]) = {} /\ release' = [release EXCEPT ![x] = row]
    BY <2>2 DEF Prune, ReleaseRow
  <2>4. x = r
    BY <2>1, <2>3 DEF TreeType
  <2>5. pc[p] = "prune" /\ pc[p] \in Pruning /\ Working(p)
    BY <2>2 DEF Prune, Pruning, Working
  <2>6. /\ \A s \in Present \ (Protected \cup doomed[p]) : <<r, s>> \in older
        /\ Cardinality(Present \ doomed[p]) >= Retention
    BY <2>3, <2>4, <2>5 DEF Inv, DoomedOld, DoomedAt
  <2>7. \A q \in Processes : q # p => doomed[q] = {}
    <3>1. \A q \in Processes : q # p => ~Working(q) /\ JobAt(q)
      BY <2>5, Alone DEF Inv
    <3> QED
      BY <3>1 DEF Working, JobAt, Pruning
  <2>8. Present \ UNION {doomed[q] : q \in Processes} = Present \ doomed[p]
    BY <2>7
  <2> QED
    BY <2>1, <2>6, <2>8 DEF TreeSound
<1> QED
  BY <1>1, InvAlways, PTL DEF Spec, RetentionKept
=============================================================================
