------------------------ MODULE ReleasePipelineProofs ------------------------
(***************************************************************************)
(* Machine-checked facts about ReleasePipeline, for any modules, versions, *)
(* commits, builds, builder runs, pull requests, retags and assets.        *)
(***************************************************************************)
EXTENDS ReleasePipeline, SequenceTheorems, WellFoundedInduction, TLAPS

\* The record c tells the truth about object o.
TrueOf(o, c) == c.bundle.commit = c.commit /\ Manifest[c.commit] = o

\* What a builder run holds at each of its steps.
RunsHold ==
    \A r \in Runs :
      /\ run[r].pc = "idle" => uploaded[r] = None
      /\ run[r].pc \in {"second", "build", "main", "branch", "host"} =>
           run[r].commit # None /\ Manifest[run[r].commit] = run[r].obj
      /\ run[r].pc \in {"main", "branch", "host"} =>
           run[r].built # None /\ run[r].built.commit = run[r].commit

\* A pull request was opened on an entry that main has not left except
\* forwards, so an entry main has since left never comes back.
BasesAge ==
    \A s \in Authors \cup Objects :
      prs[s] # None => Immutable(rel[prs[s].obj], prs[s].base)

\* While it can be merged, the stale result of a check is still right.
ChecksHold ==
    \A s \in Authors \cup Objects :
      prs[s] # None /\ prs[s].checked =>
        prs[s].new # None /\ (Mergeable(prs[s]) => Immutable(prs[s].new, rel[prs[s].obj]))

\* A pull request for a move to the mirror, opened before it had the bytes.
Early(p) == p.base # None /\ IsMirrorPromotion(p.new, p.base) /\ ~p.served

\* The store holds the bytes of a mirror URL that a checked pull request, or
\* an open mirror promotion, is about to register, except in the one case
\* that nothing checks.
MirrorReady ==
    \A s \in Authors \cup Objects :
      /\ prs[s] # None /\ prs[s].new # None /\ prs[s].new.url = "mirror"
      /\ prs[s].checked \/ (prs[s].base # None /\ IsMirrorPromotion(prs[s].new, prs[s].base))
      => \/ bound[prs[s].obj] = prs[s].new.digest
         \/ prs[s].obj \in unserved \/ Early(prs[s])

\* Publication works from records on main, which keep their digests.
FromMain ==
    /\ \A o \in Objects : op[o] = "publish" => cand[o] # None
    /\ batch.pc # "idle" => batch.todo # {}
    /\ \A x \in batch.todo : rel[Order[x.at]] # None /\ rel[Order[x.at]].digest = x.digest

\* The inductive invariant behind the safety properties.
Inv ==
    /\ TypeOK
    /\ RunsHold
    /\ BasesAge
    /\ ChecksHold
    /\ MirrorReady
    /\ FromMain
    /\ MirrorUrlServed
    /\ StoredIsReviewed
    /\ ProvenanceIsTrue

-----------------------------------------------------------------------------
(* validate_immutability as an order on the states of one entry. *)

LEMMA EntryOrder ==
    ASSUME NEW x \in Entry, NEW y \in Entry, NEW z \in Entry
    PROVE  /\ Immutable(x, x)
           /\ Immutable(y, x) /\ Immutable(z, y) => Immutable(z, x)
           /\ Immutable(y, x) /\ Immutable(x, y) => x = y
           /\ Immutable(y, x) /\ x # None => y # None /\ y.digest = x.digest
           /\ Immutable(y, x) /\ x # None =>
                y = x \/ (x.url = "github" /\ y = [x EXCEPT !.url = "mirror"])
<1>1. \A e \in Entry : e # None => e \in Release
  BY DEF Entry
<1>2. \A e, g \in Release : IsMirrorPromotion(g, e) =>
        /\ e.url = "github" /\ g.url = "mirror" /\ g.digest = e.digest
        /\ g = [e EXCEPT !.url = "mirror"]
  BY DEF IsMirrorPromotion, Release
<1>3. \A e, g \in Release : ~(IsMirrorPromotion(g, e) /\ IsMirrorPromotion(e, g))
  BY <1>2
<1>4. \A e, g, h \in Release : ~(IsMirrorPromotion(g, e) /\ IsMirrorPromotion(h, g))
  BY <1>2
<1> QED
  BY <1>1, <1>2, <1>3, <1>4 DEF Immutable

\* The loop finds a first release as long as any is left.
LEMMA FirstJobExists ==
    ASSUME NEW jobs \in SUBSET Job, jobs # {}
    PROVE  FirstJob(jobs) \in jobs
<1> DEFINE R == OpToRel(<, Nat)
           T == {x.at : x \in jobs}
<1>1. T \subseteq Nat /\ T # {}
  BY PipelineAssumption, LenProperties DEF Job
<1>2. \E i \in T : \A j \in T : ~ (<<j, i>> \in R)
  <2> HIDE DEF R, T
  <2>1. IsWellFoundedOn(R, Nat)
    BY NatLessThanWellFounded DEF R
  <2> QED
    BY <1>1, <2>1, WFMin
<1>3. \A i, j \in Nat : ~ (<<j, i>> \in R) => i <= j
  BY DEF OpToRel
<1>4. \E i \in T : \A j \in T : i <= j
  <2> HIDE DEF R, T
  <2> QED
    BY <1>1, <1>2, <1>3
<1>5. \E x \in jobs : \A y \in jobs : x.at <= y.at
  BY <1>4
<1> QED
  BY <1>5 DEF FirstJob

LEMMA FreshType == Fresh \in RunState /\ Fresh.pc = "idle"
<1>1. 1 \in DOMAIN Order
  BY PipelineAssumption, LenProperties, EmptySeq
<1>2. Order[1] \in Objects
  BY <1>1 DEF Objects
<1>3. (CHOOSE c \in Channels : TRUE) \in Channels
  BY PipelineAssumption
<1>4. Imported \in [Objects -> Entry]
  BY PipelineAssumption
<1> QED
  BY <1>2, <1>3, <1>4 DEF Fresh, RunState

LEMMA InitInv == Init => Inv
<1> SUFFICES ASSUME Init PROVE Inv
  OBVIOUS
<1>1. \A o \in Objects : Imported[o] # None => Imported[o] \in Release /\ Imported[o].digest \in Bundle
  BY PipelineAssumption DEF Entry, Release
<1>2. /\ hosted \in [Objects -> Bundle \cup {None}] /\ bound \in [Objects -> Bundle \cup {None}]
  BY <1>1 DEF Init
<1>3. \A r \in Runs :
        \/ /\ run[r] = Fresh /\ uploaded[r] = None
           /\ run[r] \in RunState /\ run[r].pc = "idle"
        \/ /\ run[r] \in RunState /\ run[r].pc = "done"
           /\ uploaded[r] \in Candidate /\ TrueOf(run[r].obj, uploaded[r])
  <2> SUFFICES ASSUME NEW r \in Runs
               PROVE  \/ /\ run[r] = Fresh /\ uploaded[r] = None
                         /\ run[r] \in RunState /\ run[r].pc = "idle"
                      \/ /\ run[r] \in RunState /\ run[r].pc = "done"
                         /\ uploaded[r] \in Candidate /\ TrueOf(run[r].obj, uploaded[r])
    OBVIOUS
  <2>1. CASE Earlier(r) = {}
    BY <2>1, FreshType DEF Init
  <2>2. CASE Earlier(r) # {}
    <3> DEFINE o == CHOOSE x \in Earlier(r) : TRUE
               e == [Fresh EXCEPT !.pc = "done", !.outcome = "proposed", !.obj = o]
    <3>1. o \in Earlier(r)
      BY <2>2
    <3>2. o \in Objects /\ Proposed[o] # None
      BY <3>1 DEF Earlier
    <3>3. run[r] = e /\ uploaded[r] = Proposed[o]
      BY <2>2 DEF Init
    <3> HIDE DEF o
    <3>4. e \in RunState /\ e.pc = "done" /\ e.obj = o
      <4> HIDE DEF Fresh
      <4> QED
        BY <3>2, FreshType DEF RunState
    <3>5. Proposed[o] \in Candidate /\ TrueOf(o, Proposed[o])
      BY <3>2, PipelineAssumption DEF TrueOf
    <3> HIDE DEF e
    <3> QED
      BY <3>3, <3>4, <3>5
  <2> QED
    BY <2>1, <2>2
<1>3a. run \in [Runs -> RunState] /\ uploaded \in [Runs -> Candidate \cup {None}]
  <2> DEFINE F(r) == IF Earlier(r) = {} THEN Fresh
                     ELSE [Fresh EXCEPT !.pc = "done", !.outcome = "proposed",
                                        !.obj = CHOOSE o \in Earlier(r) : TRUE]
             G(r) == IF Earlier(r) = {} THEN None ELSE Proposed[CHOOSE o \in Earlier(r) : TRUE]
  <2>1. run = [r \in Runs |-> F(r)] /\ uploaded = [r \in Runs |-> G(r)]
    BY DEF Init
  <2> HIDE DEF F, G
  <2>2. \A r \in Runs : F(r) = run[r] /\ G(r) = uploaded[r]
    BY <2>1
  <2> QED
    BY <1>3, <2>1, <2>2
<1>4. TypeOK
  <2>1. tag \in [Objects -> Commits] /\ rel \in [Objects -> Entry]
    BY PipelineAssumption DEF Init
  <2>2. batch \in [pc : {"idle", "inspect", "download", "publish"}, todo : SUBSET Job]
    BY DEF Init
  <2>3. branch \in [Objects -> Candidate \cup {None}] /\ prOpen \in [Objects -> BOOLEAN]
    BY PipelineAssumption DEF Init
  <2>4. /\ prs \in [Authors \cup Objects -> PullRequest \cup {None}]
        /\ legacy \in [Objects -> [base : Entry] \cup {None}]
        /\ op \in [Objects -> {"idle", "publish"}] /\ cand \in [Objects -> Candidate \cup {None}]
        /\ manual \subseteq Objects /\ unserved \subseteq Objects /\ events \in Nat
    BY DEF Init
  <2> QED
    BY <1>2, <1>3a, <2>1, <2>2, <2>3, <2>4 DEF TypeOK
<1>5. RunsHold
  BY <1>3 DEF RunsHold
<1>6. BasesAge /\ ChecksHold /\ MirrorReady
  BY DEF Init, BasesAge, ChecksHold, MirrorReady
<1>7. FromMain
  BY DEF Init, FromMain
<1>8. MirrorUrlServed
  BY <1>1 DEF Init, MirrorUrlServed
<1>9. StoredIsReviewed
  BY <1>1 DEF Init, StoredIsReviewed
<1>10. ProvenanceIsTrue
  <2>1. \A o \in Objects : cand[o] = None /\ (branch[o] # None => TrueOf(o, branch[o]))
    BY PipelineAssumption DEF Init, TrueOf
  <2>2. \A r \in Runs : uploaded[r] # None => TrueOf(run[r].obj, uploaded[r])
    BY <1>3
  <2> QED
    BY <2>1, <2>2 DEF ProvenanceIsTrue, TrueOf
<1> QED
  BY <1>4, <1>5, <1>6, <1>7, <1>8, <1>9, <1>10 DEF Inv

-----------------------------------------------------------------------------
(* The parts of the next-state relation, and what each leaves alone. *)

BuildStep(r) == BuilderStep(r) \/ RunFails(r) \/ \E q \in Requests : Dispatch(r, q)
ReviewStep(o) == MergeCandidate(o) \/ ReopenCandidate(o) \/ CloseCandidate(o) \/ DeleteBranch(o)
RegistryStep == \E s \in Authors \cup Objects :
                   CheckPullRequest(s) \/ MergePullRequest(s) \/ ClosePullRequest(s)
OpenStep == \/ \E o \in Objects : LegacyPromote(o)
            \/ \E a \in Authors, d \in Drafts : Propose(a, d)
MirrorStep == \/ \E targets \in SUBSET Objects : MirrorStart(targets)
              \/ MirrorInspect \/ MirrorDownload \/ MirrorPublish
FileStep == \E x \in Files : PublishFile(x)
WorldStep == (\E x \in Retags : MoveTag(x)) \/ \E x \in Assets : UploadAsset(x)

LEMMA StepOf ==
    ASSUME Next
    PROVE  \/ \E r \in Runs : BuildStep(r)
           \/ \E q \in Requests : LegacyCheckout(q.obj)
           \/ \E o \in Objects : ReviewStep(o)
           \/ \E o \in Objects : LoadReviewed(o)
           \/ \E o \in Objects : PublishReviewed(o)
           \/ FileStep \/ OpenStep \/ RegistryStep \/ MirrorStep \/ WorldStep
<1>1. \A targets \in {{o} : o \in Objects} \cup {{o \in Objects : rel[o] # None}} :
        targets \in SUBSET Objects
  OBVIOUS
<1> QED
  BY <1>1 DEF Next, BuildStep, ReviewStep, FileStep, OpenStep, RegistryStep, MirrorStep, WorldStep

LEMMA BuildFrame ==
    ASSUME NEW r \in Runs, BuildStep(r)
    PROVE  UNCHANGED <<bound, cand, rel, tag, hosted, events, manual, unserved, batch, prs, legacy,
                       op>>
  BY DEF BuildStep, BuilderStep, Start, FirstCheckout, SecondCheckout, BuildTwice, CheckMainHistory,
         CheckBranchHistory, EmitCandidate, ReviewCheckout, StoreCandidate, OpenCandidate, RunFails,
         Dispatch, offRun, offBuild, mainVars, worldVars, pastVars

LEMMA ReviewFrame ==
    ASSUME NEW o \in Objects, ReviewStep(o)
    PROVE  UNCHANGED <<bound, rel, run, uploaded, tag, hosted, events, manual, unserved, batch, prs,
                       legacy, op>>
  BY DEF ReviewStep, MergeCandidate, ReopenCandidate, CloseCandidate, DeleteBranch, mainVars,
         buildVars, offBuild, worldVars, pastVars

-----------------------------------------------------------------------------
(* Type correctness. *)

LEMMA EndType ==
    ASSUME run \in [Runs -> RunState], NEW r \in Runs,
           NEW result \in {"none", "failed", "refused", "unchanged", "proposed"}, End(r, result)
    PROVE  /\ run' \in [Runs -> RunState]
           /\ run'[r].pc = "done" /\ run'[r].obj = run[r].obj
           /\ \A x \in Runs \ {r} : run'[x] = run[x]
<1> DEFINE e == [Fresh EXCEPT !.pc = "done", !.obj = run[r].obj, !.outcome = result]
<1>1. e \in RunState /\ e.pc = "done" /\ e.obj = run[r].obj
  <2> HIDE DEF Fresh
  <2> QED
    BY FreshType DEF RunState
<1>2. run' = [run EXCEPT ![r] = e]
  BY DEF End
<1> HIDE DEF e
<1> QED
  BY <1>1, <1>2

LEMMA StepType ==
    ASSUME run \in [Runs -> RunState], NEW r \in Runs, NEW label \in Active, Step(r, label)
    PROVE  /\ run' \in [Runs -> RunState]
           /\ run'[r] = [run[r] EXCEPT !.pc = label]
           /\ run'[r].pc = label /\ run'[r].obj = run[r].obj
           /\ run'[r].commit = run[r].commit /\ run'[r].built = run[r].built
           /\ \A x \in Runs \ {r} : run'[x] = run[x]
<1>1. run[r] \in RunState
  OBVIOUS
<1>2. [run[r] EXCEPT !.pc = label] \in RunState
  BY <1>1 DEF RunState
<1>3. run' = [run EXCEPT ![r] = [run[r] EXCEPT !.pc = label]]
  BY DEF Step
<1> QED
  BY <1>1, <1>2, <1>3 DEF RunState

\* What one step does to the run it belongs to, and what it uploads.
RunEffect(r) ==
    /\ run' \in [Runs -> RunState]
    /\ \A x \in Runs \ {r} : run'[x] = run[x] /\ uploaded'[x] = uploaded[x]
    /\ run'[r].pc # "idle"
    /\ run'[r].obj = run[r].obj \/ (run[r].pc = "idle" /\ uploaded' = uploaded)
    /\ run'[r].pc \in {"second", "build", "main", "branch", "host"} =>
         run'[r].commit # None /\ Manifest[run'[r].commit] = run'[r].obj
    /\ run'[r].pc \in {"main", "branch", "host"} =>
         run'[r].built # None /\ run'[r].built.commit = run'[r].commit
    /\ uploaded' \in [Runs -> Candidate \cup {None}]
    /\ uploaded'[r] = uploaded[r] \/ (TrueOf(run[r].obj, uploaded'[r]) /\ run'[r].obj = run[r].obj)

LEMMA BuildEffect ==
    ASSUME TypeOK, RunsHold, NEW r \in Runs, BuildStep(r)
    PROVE  RunEffect(r)
<1> DEFINE Goal == RunEffect(r)
<1> USE DEF RunEffect
<1> SUFFICES Goal
  OBVIOUS
<1>0. /\ run \in [Runs -> RunState] /\ uploaded \in [Runs -> Candidate \cup {None}]
      /\ run[r].obj \in Objects /\ run[r].channel \in Channels
      /\ run[r].commit \in Commits \cup {None} /\ run[r].built \in Bundle \cup {None}
      /\ run[r] \in RunState
  BY DEF TypeOK, RunState
<1>1. ASSUME NEW result \in {"none", "failed", "refused", "unchanged", "proposed"}, End(r, result),
             uploaded' = uploaded
      PROVE  Goal
  BY <1>0, <1>1, EndType
<1>2. CASE \E q \in Requests : Dispatch(r, q)
  <2>1. PICK q \in Requests : Dispatch(r, q)
    BY <1>2
  <2> DEFINE e == [run[r] EXCEPT !.pc = "queued", !.obj = q.obj, !.tree = rel,
                                 !.channel = q.channel, !.localCand = cand[q.obj]]
  <2>2. q.obj \in Objects /\ q.channel \in Channels
    BY PipelineAssumption
  <2>3. e \in RunState /\ e.pc = "queued"
    BY <1>0, <2>2 DEF TypeOK, RunState
  <2>4. run' = [run EXCEPT ![r] = e] /\ run[r].pc = "idle" /\ uploaded' = uploaded
    BY <2>1 DEF Dispatch, offRun
  <2> HIDE DEF e
  <2> QED
    BY <1>0, <2>3, <2>4
<1>3. CASE Start(r)
  <2>1. Step(r, "checkout") /\ uploaded' = uploaded
    BY <1>3 DEF Start, offRun
  <2> QED
    BY <1>0, <2>1, StepType DEF Active
<1>4. CASE FirstCheckout(r)
  <2> DEFINE c == tag[run[r].obj]
             e == [run[r] EXCEPT !.pc = "second", !.commit = c]
  <2>1. uploaded' = uploaded /\ c \in Commits
    BY <1>4, <1>0 DEF FirstCheckout, offRun, TypeOK
  <2>2. CASE Manifest[c] = run[r].obj
    <3>1. e \in RunState /\ e.pc = "second" /\ e.commit = c /\ e.obj = run[r].obj /\ c # None
      BY <1>0, <2>1, PipelineAssumption DEF RunState, Active
    <3>2. run' = [run EXCEPT ![r] = e]
      BY <1>4, <2>2 DEF FirstCheckout
    <3> HIDE DEF e, c
    <3>3. Manifest[c] = run[r].obj
      BY <2>2
    <3> QED
      BY <1>0, <2>1, <3>1, <3>2, <3>3
  <2>3. CASE Manifest[c] # run[r].obj
    <3>1. End(r, "failed")
      BY <1>4, <2>3 DEF FirstCheckout
    <3> QED
      BY <1>1, <2>1, <3>1
  <2> QED
    BY <2>2, <2>3
<1>5. CASE SecondCheckout(r) \/ CheckMainHistory(r) \/ CheckBranchHistory(r)
  <2>1. /\ uploaded' = uploaded
        /\ \/ End(r, "failed")
           \/ run[r].pc = "second" /\ Step(r, "build")
           \/ run[r].pc = "main" /\ Step(r, "branch")
           \/ run[r].pc = "branch" /\ Step(r, "host")
    BY <1>5 DEF SecondCheckout, CheckMainHistory, CheckBranchHistory, offRun
  <2>2. CASE End(r, "failed")
    BY <1>1, <2>1, <2>2
  <2>3. CASE run[r].pc = "second" /\ Step(r, "build")
    BY <1>0, <2>1, <2>3, StepType DEF RunsHold, Active
  <2>4. CASE run[r].pc = "main" /\ Step(r, "branch")
    BY <1>0, <2>1, <2>4, StepType DEF RunsHold, Active
  <2>5. CASE run[r].pc = "branch" /\ Step(r, "host")
    BY <1>0, <2>1, <2>5, StepType DEF RunsHold, Active
  <2> HIDE DEF Goal
  <2> QED
    BY <2>1, <2>2, <2>3, <2>4, <2>5
<1>6. CASE BuildTwice(r)
  <2>1. /\ uploaded' = uploaded
        /\ \/ End(r, "failed")
           \/ \E b \in Bundles(run[r].commit) : run' = [run EXCEPT ![r].pc = "main", ![r].built = b]
    BY <1>6 DEF BuildTwice, offRun
  <2>2. CASE End(r, "failed")
    BY <1>1, <2>1, <2>2
  <2>3. ASSUME NEW b \in Bundles(run[r].commit),
               run' = [run EXCEPT ![r].pc = "main", ![r].built = b]
        PROVE  Goal
    <3>1. run[r].commit # None /\ Manifest[run[r].commit] = run[r].obj
      BY <1>6 DEF BuildTwice, RunsHold
    <3>2. b.commit = run[r].commit /\ b \in Bundle
      BY <1>0, <3>1, PipelineAssumption DEF Bundles, BuildBackend, BuildFrontend, Bundle
    <3>3. b # None
      BY <3>2, PipelineAssumption
    <3> DEFINE e == [run[r] EXCEPT !.pc = "main", !.built = b]
    <3>4. e \in RunState /\ e.pc = "main" /\ e.built = b /\ e.commit = run[r].commit /\ e.obj = run[r].obj
      BY <1>0, <3>2 DEF RunState, Active
    <3>5. run' = [run EXCEPT ![r] = e]
      BY <2>3
    <3> HIDE DEF e
    <3> QED
      BY <1>0, <2>1, <3>1, <3>2, <3>3, <3>4, <3>5
  <2> HIDE DEF Goal
  <2> QED
    BY <2>1, <2>2, <2>3
<1>7. CASE EmitCandidate(r)
  <2> DEFINE status == RegistryStatus(run[r].tree, run[r].obj, run[r].commit, run[r].built)
             c == NewCandidate(r, status)
  <2>1. \/ End(r, "failed") /\ uploaded' = uploaded
        \/ Upload(r, c) /\ status # "conflict"
    BY <1>7 DEF EmitCandidate
  <2>2. CASE Upload(r, c) /\ status # "conflict"
    <3>1. /\ run[r].commit # None /\ Manifest[run[r].commit] = run[r].obj
          /\ run[r].built # None /\ run[r].built.commit = run[r].commit
      BY <1>7 DEF EmitCandidate, RunsHold
    <3>2. status \in Statuses
      BY <2>2 DEF RegistryStatus, Statuses
    <3> HIDE DEF status
    <3>3. c \in Candidate /\ TrueOf(run[r].obj, c)
      BY <1>0, <3>1, <3>2 DEF NewCandidate, Candidate, TrueOf
    <3>4. uploaded' = [uploaded EXCEPT ![r] = c] /\ Step(r, "review")
      BY <2>2 DEF Upload
    <3> HIDE DEF c
    <3> QED
      BY <1>0, <3>3, <3>4, StepType DEF Active
  <2> HIDE DEF Goal
  <2> QED
    BY <1>1, <2>1, <2>2
<1>8. CASE ReviewCheckout(r)
  <2> DEFINE g == IF branch[run[r].obj] = None THEN run[r].localCand ELSE branch[run[r].obj]
             e == [run[r] EXCEPT !.pc = "push", !.found = g]
  <2>1. g \in Candidate \cup {None}
    BY <1>0 DEF TypeOK, RunState
  <2>2. run' = [run EXCEPT ![r] = e] /\ uploaded' = uploaded
    BY <1>8 DEF ReviewCheckout, offRun
  <2> HIDE DEF g
  <2>3. e \in RunState /\ e.pc = "push" /\ e.obj = run[r].obj
    BY <1>0, <2>1 DEF RunState, Active
  <2> HIDE DEF e
  <2> QED
    BY <1>0, <2>2, <2>3
<1>9. CASE StoreCandidate(r)
  <2>1. uploaded' = uploaded /\ (Step(r, "pr") \/ End(r, "unchanged") \/ End(r, "refused"))
    BY <1>9 DEF StoreCandidate
  <2>2. CASE Step(r, "pr")
    BY <1>0, <2>1, <2>2, StepType DEF Active
  <2> HIDE DEF Goal
  <2> QED
    BY <1>1, <2>1, <2>2
<1>10. CASE OpenCandidate(r) \/ RunFails(r)
  <2>1. uploaded' = uploaded /\ (End(r, "failed") \/ End(r, "proposed"))
    BY <1>10 DEF OpenCandidate, RunFails, offRun
  <2> HIDE DEF Goal
  <2> QED
    BY <1>1, <2>1
<1> HIDE DEF Goal
<1> QED
  BY <1>2, <1>3, <1>4, <1>5, <1>6, <1>7, <1>8, <1>9, <1>10 DEF BuildStep, BuilderStep

-----------------------------------------------------------------------------
(* What one step does to the store, to main and to the pull requests. *)

\* A name is bound once, to bytes a record on main names for it.
LEMMA StoreEffect ==
    ASSUME TypeOK, FromMain, Next
    PROVE  /\ bound' \in [Objects -> Bundle \cup {None}]
           /\ \A o \in Objects :
                \/ bound'[o] = bound[o]
                \/ /\ bound[o] = None /\ UNCHANGED <<cand, rel>>
                   /\ \/ cand[o] # None /\ cand[o].bundle = bound'[o]
                      \/ rel[o] # None /\ rel[o].digest = bound'[o]
                      \/ o \in manual'
<1> DEFINE Goal == /\ bound' \in [Objects -> Bundle \cup {None}]
                   /\ \A o \in Objects :
                        \/ bound'[o] = bound[o]
                        \/ /\ bound[o] = None /\ UNCHANGED <<cand, rel>>
                           /\ \/ cand[o] # None /\ cand[o].bundle = bound'[o]
                              \/ rel[o] # None /\ rel[o].digest = bound'[o]
                              \/ o \in manual'
<1> SUFFICES Goal
  OBVIOUS
<1>0. bound \in [Objects -> Bundle \cup {None}]
  BY DEF TypeOK
<1>1. CASE UNCHANGED bound
  BY <1>0, <1>1
<1>2. ASSUME NEW o \in Objects, NEW b \in Bundle, Publish(o, b), UNCHANGED <<cand, rel>>,
             \/ cand[o] # None /\ cand[o].bundle = b
             \/ rel[o] # None /\ rel[o].digest = b
             \/ bound[o] = None => o \in manual'
      PROVE  Goal
  <2>1. CASE UNCHANGED bound
    BY <1>1, <2>1
  <2>2. CASE bound[o] = None /\ bound' = [bound EXCEPT ![o] = b]
    BY <1>0, <1>2, <2>2
  <2> HIDE DEF Goal
  <2> QED
    BY <1>2, <2>1, <2>2 DEF Publish, Store!Bind
<1>3. CASE \E o \in Objects : PublishReviewed(o)
  <2>1. PICK o \in Objects : PublishReviewed(o)
    BY <1>3
  <2>2. cand[o] # None /\ cand[o] \in Candidate
    BY <2>1 DEF PublishReviewed, FromMain, TypeOK
  <2>3. cand[o].bundle \in Bundle
    BY <2>2 DEF Candidate
  <2>4. Publish(o, cand[o].bundle) /\ UNCHANGED <<cand, rel>>
    BY <2>1 DEF PublishReviewed, mainVars
  <2> HIDE DEF Goal
  <2> QED
    BY <1>2, <2>2, <2>3, <2>4
<1>4. CASE MirrorPublish
  <2> DEFINE x == FirstJob(batch.todo)
  <2>1. batch.todo \in SUBSET Job /\ batch.todo # {}
    BY <1>4 DEF MirrorPublish, FromMain, TypeOK
  <2>2. x \in batch.todo /\ x \in Job
    BY <2>1, FirstJobExists
  <2>3. Publish(Order[x.at], x.digest) /\ UNCHANGED <<cand, rel>>
    BY <1>4 DEF MirrorPublish, mainVars
  <2> HIDE DEF x
  <2>4. x.at \in DOMAIN Order /\ x.digest \in Bundle
    BY <2>2 DEF Job
  <2>5. Order[x.at] \in Objects
    BY <2>4 DEF Objects
  <2>6. rel[Order[x.at]] # None /\ rel[Order[x.at]].digest = x.digest
    BY <2>2 DEF FromMain
  <2> HIDE DEF Goal
  <2> QED
    BY <1>2, <2>3, <2>4, <2>5, <2>6
<1>4a. CASE FileStep
  <2>1. PICK x \in Files : PublishFile(x)
    BY <1>4a DEF FileStep
  <2>2. x.obj \in Objects /\ x.bytes \in Bundle
    BY PipelineAssumption
  <2>3. /\ Publish(x.obj, x.bytes) /\ UNCHANGED <<cand, rel>>
        /\ bound[x.obj] = None => x.obj \in manual'
    BY <2>1 DEF PublishFile, mainVars
  <2> HIDE DEF Goal
  <2> QED
    BY <1>2, <2>2, <2>3
<1>5. CASE \E r \in Runs : BuildStep(r)
  BY <1>1, <1>5, BuildFrame
<1>6. CASE \E o \in Objects : ReviewStep(o)
  BY <1>1, <1>6, ReviewFrame
<1>7. CASE (\E q \in Requests : LegacyCheckout(q.obj)) \/ (\E o \in Objects : LoadReviewed(o))
  BY <1>1, <1>7 DEF LegacyCheckout, LoadReviewed
<1>8. CASE OpenStep \/ RegistryStep
  <2>1. UNCHANGED bound
    BY <1>8 DEF OpenStep, RegistryStep, LegacyPromote, Propose, CheckPullRequest, MergePullRequest,
                ClosePullRequest
  <2> QED
    BY <1>1, <2>1
<1>9. CASE MirrorStep /\ ~MirrorPublish
  <2>1. UNCHANGED bound
    BY <1>9 DEF MirrorStep, MirrorStart, MirrorInspect, MirrorDownload
  <2> QED
    BY <1>1, <2>1
<1>10. CASE WorldStep
  <2>1. UNCHANGED bound
    BY <1>10 DEF WorldStep, MoveTag, UploadAsset, offWorld
  <2> QED
    BY <1>1, <2>1
<1> HIDE DEF Goal
<1> QED
  BY <1>3, <1>4, <1>4a, <1>5, <1>6, <1>7, <1>8, <1>9, <1>10, StepOf

\* Main only moves forward: candidates stay and entries change as
\* validate_immutability allows, although merges use stale checks.
LEMMA MainEffect ==
    ASSUME Inv, Next
    PROVE  /\ cand' \in [Objects -> Candidate \cup {None}]
           /\ rel' \in [Objects -> Entry]
           /\ \A o \in Objects : cand[o] # None => cand'[o] = cand[o]
           /\ \A o \in Objects : Immutable(rel'[o], rel[o])
<1> DEFINE Goal == /\ cand' \in [Objects -> Candidate \cup {None}]
                   /\ rel' \in [Objects -> Entry]
                   /\ \A o \in Objects : cand[o] # None => cand'[o] = cand[o]
                   /\ \A o \in Objects : Immutable(rel'[o], rel[o])
<1> SUFFICES Goal
  OBVIOUS
<1>0. /\ cand \in [Objects -> Candidate \cup {None}] /\ branch \in [Objects -> Candidate \cup {None}]
      /\ rel \in [Objects -> Entry]
  BY DEF Inv, TypeOK
<1>1. \A x \in Entry : Immutable(x, x)
  BY EntryOrder
<1>2. CASE UNCHANGED <<cand, rel>>
  BY <1>0, <1>1, <1>2
<1>3. CASE \E o \in Objects : ReviewStep(o)
  <2>1. rel' = rel /\ (cand' = cand \/ \E o \in Objects : cand[o] \in {None, branch[o]}
                                        /\ cand' = [cand EXCEPT ![o] = branch[o]])
    BY <1>3 DEF ReviewStep, MergeCandidate, ReopenCandidate, CloseCandidate, DeleteBranch, mainVars
  <2> QED
    BY <1>0, <1>1, <2>1
<1>4. CASE RegistryStep
  <2>1. CASE \E s \in Authors \cup Objects : CheckPullRequest(s) \/ ClosePullRequest(s)
    BY <2>1, <1>2 DEF CheckPullRequest, ClosePullRequest, mainVars
  <2>2. ASSUME NEW s \in Authors \cup Objects, MergePullRequest(s) PROVE Goal
    <3>1. prs[s] \in PullRequest /\ prs[s].checked /\ Mergeable(prs[s])
      BY <2>2 DEF MergePullRequest, Inv, TypeOK
    <3>2. prs[s].obj \in Objects /\ prs[s].new \in Entry
      BY <3>1 DEF PullRequest
    <3>3. Immutable(prs[s].new, rel[prs[s].obj])
      BY <2>2, <3>1 DEF MergePullRequest, Inv, ChecksHold
    <3>4. cand' = cand /\ rel' = [rel EXCEPT ![prs[s].obj] = prs[s].new]
      BY <2>2 DEF MergePullRequest
    <3> QED
      BY <1>0, <1>1, <3>2, <3>3, <3>4
  <2> HIDE DEF Goal
  <2> QED
    BY <1>4, <2>1, <2>2 DEF RegistryStep
<1>5. CASE \E r \in Runs : BuildStep(r)
  BY <1>2, <1>5, BuildFrame
<1>6. CASE \/ \E q \in Requests : LegacyCheckout(q.obj)
           \/ \E o \in Objects : LoadReviewed(o) \/ PublishReviewed(o)
           \/ FileStep \/ OpenStep \/ MirrorStep \/ WorldStep
  <2>1. UNCHANGED <<cand, rel>>
    BY <1>6 DEF LegacyCheckout, LoadReviewed, PublishReviewed, FileStep, PublishFile, OpenStep, LegacyPromote, Propose,
         MirrorStep, MirrorStart, MirrorInspect, MirrorDownload, MirrorPublish, WorldStep, MoveTag,
         UploadAsset, offWorld, mainVars
  <2> QED
    BY <1>2, <2>1
<1> HIDE DEF Goal
<1> QED
  BY <1>3, <1>4, <1>5, <1>6, StepOf

\* What a step does to one pull request: nothing, close or merge it, check
\* it against main as it is, or open it.
PrEffect(s) ==
    \/ prs'[s] = None
    \/ prs'[s] = prs[s]
    \/ /\ prs[s] # None /\ prs'[s] = [prs[s] EXCEPT !.checked = TRUE]
       /\ Gates(prs[s]) /\ UNCHANGED <<bound, rel>>
    \/ /\ ~prs'[s].checked /\ UNCHANGED <<bound, rel>>
       /\ prs'[s].base \in {None, rel[prs'[s].obj]}
       /\ (prs'[s].base # None /\ prs'[s].new # None /\ IsMirrorPromotion(prs'[s].new, prs'[s].base))
            => (prs'[s].served => bound[prs'[s].obj] = prs'[s].base.digest)

LEMMA PullRequestEffect ==
    ASSUME TypeOK, Next
    PROVE  /\ prs' \in [Authors \cup Objects -> PullRequest \cup {None}]
           /\ \A s \in Authors \cup Objects : PrEffect(s)
<1> DEFINE Slots == Authors \cup Objects
           Goal == /\ prs' \in [Slots -> PullRequest \cup {None}]
                   /\ \A s \in Slots : PrEffect(s)
<1> SUFFICES Goal
  OBVIOUS
<1>0. prs \in [Slots -> PullRequest \cup {None}]
  BY DEF TypeOK
<1> HIDE DEF Slots
<1>1. CASE UNCHANGED prs
  BY <1>0, <1>1 DEF PrEffect
<1>2. ASSUME NEW s \in Slots, NEW p \in PullRequest \cup {None}, prs' = [prs EXCEPT ![s] = p],
             PrEffect(s)
      PROVE  Goal
  BY <1>0, <1>2 DEF PrEffect
<1>3. CASE RegistryStep
  <2>1. PICK s \in Slots : CheckPullRequest(s) \/ MergePullRequest(s) \/ ClosePullRequest(s)
    BY <1>3 DEF RegistryStep, Slots
  <2>2. CASE MergePullRequest(s) \/ ClosePullRequest(s)
    <3>1. prs' = [prs EXCEPT ![s] = None] /\ prs'[s] = None
      BY <1>0, <2>2 DEF MergePullRequest, ClosePullRequest
    <3> QED
      BY <1>2, <3>1 DEF PrEffect
  <2>3. CASE CheckPullRequest(s)
    <3> DEFINE p == IF Gates(prs[s]) THEN [prs[s] EXCEPT !.checked = TRUE] ELSE None
    <3>1. prs[s] \in PullRequest /\ prs[s] # None
      BY <1>0, <2>3 DEF CheckPullRequest
    <3>2. p \in PullRequest \cup {None}
      BY <3>1 DEF PullRequest
    <3>3. prs' = [prs EXCEPT ![s] = p] /\ UNCHANGED <<bound, rel>>
      BY <2>3 DEF CheckPullRequest, mainVars
    <3>4. prs'[s] = p
      BY <1>0, <3>3
    <3>5. PrEffect(s)
      BY <3>1, <3>3, <3>4 DEF PrEffect
    <3> HIDE DEF p, Goal
    <3> QED
      BY <1>2, <3>2, <3>3, <3>5
  <2> QED
    BY <2>1, <2>2, <2>3
<1>4. CASE \E o \in Objects : LegacyPromote(o)
  <2>1. PICK o \in Objects : LegacyPromote(o)
    BY <1>4
  <2> DEFINE p == [obj |-> o, base |-> None, new |-> ReleaseOf(cand[o]), checked |-> FALSE,
                  served |-> TRUE]
  <2>2. CASE ~(Promotable(o) /\ prs[o] = None)
    BY <1>1, <2>1, <2>2 DEF LegacyPromote
  <2>3. CASE Promotable(o) /\ prs[o] = None
    <3>1. cand[o] \in Candidate
      BY <2>3 DEF Promotable, TypeOK
    <3>2. ReleaseOf(cand[o]) \in Release
      BY <3>1 DEF ReleaseOf, Candidate, Release, Urls
    <3>3. p \in PullRequest
      BY <3>2 DEF PullRequest, Entry
    <3>4. prs' = [prs EXCEPT ![o] = p] /\ UNCHANGED <<bound, rel>>
      BY <2>1, <2>3 DEF LegacyPromote, mainVars
    <3>5. o \in Slots
      BY DEF Slots
    <3>6. prs'[o] = p
      BY <1>0, <3>4, <3>5
    <3>7. PrEffect(o)
      BY <3>4, <3>6 DEF PrEffect
    <3> HIDE DEF p, Goal
    <3> QED
      BY <1>2, <3>3, <3>4, <3>5, <3>7
  <2> QED
    BY <2>2, <2>3
<1>5. CASE \E a \in Authors, d \in Drafts : Propose(a, d)
  <2>1. PICK a \in Authors, d \in Drafts : Propose(a, d)
    BY <1>5
  <2> DEFINE p == [obj |-> d.obj, base |-> rel[d.obj], new |-> d.new, checked |-> FALSE,
                  served |-> PublicVerified(d.obj)]
  <2>2. d.obj \in Objects /\ d.new \in Entry
    BY PipelineAssumption
  <2>3. p \in PullRequest
    BY <2>2 DEF PullRequest, TypeOK, PublicVerified
  <2>4. prs' = [prs EXCEPT ![a] = p] /\ UNCHANGED <<bound, rel>>
    BY <2>1 DEF Propose, mainVars
  <2>5. a \in Slots
    BY DEF Slots
  <2>6. prs'[a] = p
    BY <1>0, <2>4, <2>5
  <2>7. PublicVerified(d.obj) => bound[d.obj] = rel[d.obj].digest
    BY DEF PublicVerified, Served
  <2>8. PrEffect(a)
    BY <2>4, <2>6, <2>7 DEF PrEffect
  <2> HIDE DEF p, Goal
  <2> QED
    BY <1>2, <2>3, <2>4, <2>5, <2>8
<1>6. CASE \E r \in Runs : BuildStep(r)
  BY <1>1, <1>6, BuildFrame
<1>7. CASE \E o \in Objects : ReviewStep(o)
  BY <1>1, <1>7, ReviewFrame
<1>8. CASE \/ \E q \in Requests : LegacyCheckout(q.obj)
           \/ \E o \in Objects : LoadReviewed(o) \/ PublishReviewed(o)
           \/ FileStep \/ MirrorStep \/ WorldStep
  <2>1. UNCHANGED prs
    BY <1>8 DEF LegacyCheckout, LoadReviewed, PublishReviewed, FileStep, PublishFile, MirrorStep, MirrorStart,
         MirrorInspect, MirrorDownload, MirrorPublish, WorldStep, MoveTag, UploadAsset, offWorld
  <2> QED
    BY <1>1, <2>1
<1> HIDE DEF Goal
<1> QED
  BY <1>3, <1>4, <1>5, <1>6, <1>7, <1>8, StepOf DEF OpenStep

\* The mirror loop keeps working on entries of main.
LEMMA BatchEffect ==
    ASSUME TypeOK, FromMain, Next
    PROVE  /\ batch' \in [pc : {"idle", "inspect", "download", "publish"}, todo : SUBSET Job]
           /\ batch'.pc # "idle" => batch'.todo # {}
           /\ \A x \in batch'.todo : rel[Order[x.at]] # None /\ rel[Order[x.at]].digest = x.digest
<1> DEFINE Goal ==
      /\ batch' \in [pc : {"idle", "inspect", "download", "publish"}, todo : SUBSET Job]
      /\ batch'.pc # "idle" => batch'.todo # {}
      /\ \A x \in batch'.todo : rel[Order[x.at]] # None /\ rel[Order[x.at]].digest = x.digest
<1> SUFFICES Goal
  OBVIOUS
<1>0. /\ batch \in [pc : {"idle", "inspect", "download", "publish"}, todo : SUBSET Job]
      /\ batch.pc # "idle" => batch.todo # {}
      /\ \A x \in batch.todo : rel[Order[x.at]] # None /\ rel[Order[x.at]].digest = x.digest
  BY DEF TypeOK, FromMain
<1>1. CASE UNCHANGED batch
  BY <1>0, <1>1
<1>2. ASSUME NEW label \in {"idle", "inspect", "download", "publish"}, MirrorGoto(label),
             batch.pc # "idle"
      PROVE  Goal
  BY <1>0, <1>2 DEF MirrorGoto
<1>3. CASE MirrorInspect
  <2>1. \E label \in {"idle", "inspect", "download", "publish"} : MirrorGoto(label)
    BY <1>3 DEF MirrorInspect
  <2>2. batch.pc # "idle"
    BY <1>3 DEF MirrorInspect
  <2> HIDE DEF Goal
  <2> QED
    BY <1>2, <2>1, <2>2
<1>4. CASE MirrorDownload
  <2>1. \E label \in {"idle", "inspect", "download", "publish"} : MirrorGoto(label)
    BY <1>4 DEF MirrorDownload
  <2>2. batch.pc # "idle"
    BY <1>4 DEF MirrorDownload
  <2> HIDE DEF Goal
  <2> QED
    BY <1>2, <2>1, <2>2
<1>5. CASE MirrorPublish
  <2> DEFINE x == FirstJob(batch.todo)
  <2>1. \/ batch' = [pc |-> IF batch.todo \ {x} = {} THEN "idle" ELSE "inspect",
                     todo |-> batch.todo \ {x}]
        \/ MirrorGoto("idle") /\ batch.pc # "idle"
    BY <1>5 DEF MirrorPublish
  <2> HIDE DEF x
  <2>2. CASE batch' = [pc |-> IF batch.todo \ {x} = {} THEN "idle" ELSE "inspect",
                       todo |-> batch.todo \ {x}]
    BY <1>0, <2>2
  <2> HIDE DEF Goal
  <2> QED
    BY <1>2, <2>1, <2>2
<1>6. CASE \E targets \in SUBSET Objects : MirrorStart(targets)
  <2>1. PICK targets \in SUBSET Objects : MirrorStart(targets)
    BY <1>6
  <2> DEFINE places == {j \in DOMAIN Order : Order[j] \in targets}
             jobs == {[at |-> i, digest |-> rel[Order[i]].digest, url |-> rel[Order[i]].url] :
                        i \in places}
  <2>2. batch' = [pc |-> "inspect", todo |-> jobs]
    BY <2>1 DEF MirrorStart
  <2>3. places # {}
    BY <2>1 DEF MirrorStart, Objects
  <2>4. \A i \in places : /\ i \in DOMAIN Order /\ rel[Order[i]] # None
                          /\ rel[Order[i]] \in Entry
    BY <2>1 DEF MirrorStart, TypeOK, Objects
  <2>5. \A i \in places : rel[Order[i]].digest \in Bundle /\ rel[Order[i]].url \in Urls
    BY <2>4 DEF Entry, Release
  <2> HIDE DEF places
  <2>6. jobs \in SUBSET Job /\ jobs # {}
    <3>1. \A i \in places :
            [at |-> i, digest |-> rel[Order[i]].digest, url |-> rel[Order[i]].url] \in Job
      BY <2>4, <2>5 DEF Job
    <3>2. \A x \in jobs : x \in Job
      BY <3>1
    <3>3. jobs # {}
      BY <2>3
    <3> HIDE DEF jobs
    <3> QED
      BY <3>2, <3>3
  <2>7. \A x \in jobs : rel[Order[x.at]] # None /\ rel[Order[x.at]].digest = x.digest
    BY <2>4
  <2> HIDE DEF jobs
  <2> QED
    BY <2>2, <2>6, <2>7
<1>7. CASE \E r \in Runs : BuildStep(r)
  BY <1>1, <1>7, BuildFrame
<1>8. CASE \E o \in Objects : ReviewStep(o)
  BY <1>1, <1>8, ReviewFrame
<1>9. CASE \/ \E q \in Requests : LegacyCheckout(q.obj)
           \/ \E o \in Objects : LoadReviewed(o) \/ PublishReviewed(o)
           \/ FileStep \/ OpenStep \/ RegistryStep \/ WorldStep
  <2>1. UNCHANGED batch
    BY <1>9 DEF LegacyCheckout, LoadReviewed, PublishReviewed, FileStep, PublishFile, OpenStep, LegacyPromote, Propose,
         RegistryStep, CheckPullRequest, MergePullRequest, ClosePullRequest, WorldStep, MoveTag,
         UploadAsset, offWorld, pastVars
  <2> QED
    BY <1>1, <2>1
<1> HIDE DEF Goal
<1> QED
  BY <1>3, <1>4, <1>5, <1>6, <1>7, <1>8, <1>9, StepOf DEF MirrorStep

\* Builders and operators.
LEMMA RunsEffect ==
    ASSUME TypeOK, RunsHold, Next
    PROVE  UNCHANGED <<run, uploaded>> \/ \E r \in Runs : BuildStep(r) /\ RunEffect(r)
<1>1. CASE \E r \in Runs : BuildStep(r)
  BY <1>1, BuildEffect
<1>2. CASE \E o \in Objects : ReviewStep(o)
  BY <1>2, ReviewFrame
<1>3. CASE \/ \E q \in Requests : LegacyCheckout(q.obj)
           \/ \E o \in Objects : LoadReviewed(o) \/ PublishReviewed(o)
           \/ FileStep \/ OpenStep \/ RegistryStep \/ MirrorStep \/ WorldStep
  BY <1>3 DEF LegacyCheckout, LoadReviewed, PublishReviewed, FileStep, PublishFile, OpenStep, LegacyPromote, Propose,
         RegistryStep, CheckPullRequest, MergePullRequest, ClosePullRequest, MirrorStep, MirrorStart,
         MirrorInspect, MirrorDownload, MirrorPublish, WorldStep, MoveTag, UploadAsset, offWorld,
         buildVars
<1> QED
  BY <1>1, <1>2, <1>3, StepOf

LEMMA NextTypeOK ==
    ASSUME Inv, Next
    PROVE  TypeOK'
<1>1. /\ bound' \in [Objects -> Bundle \cup {None}]
      /\ cand' \in [Objects -> Candidate \cup {None}]
      /\ rel' \in [Objects -> Entry]
      /\ prs' \in [Authors \cup Objects -> PullRequest \cup {None}]
      /\ batch' \in [pc : {"idle", "inspect", "download", "publish"}, todo : SUBSET Job]
  BY StoreEffect, MainEffect, PullRequestEffect, BatchEffect DEF Inv
<1>2. run' \in [Runs -> RunState] /\ uploaded' \in [Runs -> Candidate \cup {None}]
  BY RunsEffect DEF Inv, TypeOK, RunEffect
<1> DEFINE Goal == /\ tag' \in [Objects -> Commits]
                   /\ hosted' \in [Objects -> Bundle \cup {None}]
                   /\ branch' \in [Objects -> Candidate \cup {None}]
                   /\ prOpen' \in [Objects -> BOOLEAN]
                   /\ legacy' \in [Objects -> [base : Entry] \cup {None}]
                   /\ op' \in [Objects -> {"idle", "publish"}]
                   /\ manual' \subseteq Objects /\ unserved' \subseteq Objects /\ events' \in Nat
<1>3. Goal
  <2>1. /\ tag \in [Objects -> Commits]
        /\ hosted \in [Objects -> Bundle \cup {None}]
        /\ branch \in [Objects -> Candidate \cup {None}]
        /\ prOpen \in [Objects -> BOOLEAN]
        /\ legacy \in [Objects -> [base : Entry] \cup {None}]
        /\ op \in [Objects -> {"idle", "publish"}]
        /\ manual \subseteq Objects /\ unserved \subseteq Objects /\ events \in Nat
        /\ rel \in [Objects -> Entry]
    BY DEF Inv, TypeOK
  <2>2. ASSUME NEW r \in Runs, BuildStep(r) PROVE Goal
    <3>1. UNCHANGED <<tag, hosted, legacy, op, events, manual, unserved>>
      BY <2>2, BuildFrame
    <3>2. run[r].obj \in Objects /\ uploaded[r] \in Candidate \cup {None}
      BY DEF Inv, TypeOK, RunState
    <3>3. \/ branch' = branch
          \/ \E o \in Objects, c \in Candidate \cup {None} : branch' = [branch EXCEPT ![o] = c]
      BY <2>2, <3>2 DEF BuildStep, BuilderStep, Start, FirstCheckout, SecondCheckout, BuildTwice,
           CheckMainHistory, CheckBranchHistory, EmitCandidate, ReviewCheckout, StoreCandidate,
           OpenCandidate, RunFails, Dispatch, offRun, reviewVars
    <3>4. branch' \in [Objects -> Candidate \cup {None}]
      BY <2>1, <3>3
    <3>5. \/ prOpen' = prOpen
          \/ \E o \in Objects : prOpen' = [prOpen EXCEPT ![o] = @ \/ branch[o] \notin {None, cand[o]}]
      BY <2>2, <3>2 DEF BuildStep, BuilderStep, Start, FirstCheckout, SecondCheckout, BuildTwice,
           CheckMainHistory, CheckBranchHistory, EmitCandidate, ReviewCheckout, StoreCandidate,
           OpenCandidate, RunFails, Dispatch, offRun, reviewVars
    <3>6. prOpen' \in [Objects -> BOOLEAN]
      BY <2>1, <3>5
    <3> QED
      BY <2>1, <3>1, <3>4, <3>6
  <2>3. ASSUME NEW o \in Objects, ReviewStep(o) PROVE Goal
    <3>1. UNCHANGED <<tag, hosted, legacy, op, events, manual, unserved>>
      BY <2>3, ReviewFrame
    <3>2. /\ branch' = branch \/ branch' = [branch EXCEPT ![o] = None]
          /\ \/ prOpen' = prOpen \/ prOpen' = [prOpen EXCEPT ![o] = TRUE]
             \/ prOpen' = [prOpen EXCEPT ![o] = FALSE]
      BY <2>3 DEF ReviewStep, MergeCandidate, ReopenCandidate, CloseCandidate, DeleteBranch
    <3> QED
      BY <2>1, <3>1, <3>2
  <2>4. CASE \E o \in Objects : LoadReviewed(o) \/ PublishReviewed(o)
    BY <2>1, <2>4 DEF LoadReviewed, PublishReviewed, reviewVars, worldVars, pastVars
  <2>4a. CASE FileStep
    <3>1. PICK x \in Files : PublishFile(x)
      BY <2>4a DEF FileStep
    <3>2. x.obj \in Objects
      BY PipelineAssumption
    <3> QED
      BY <2>1, <3>1, <3>2 DEF PublishFile, Event, reviewVars
  <2>5. CASE (\E q \in Requests : LegacyCheckout(q.obj)) \/ (\E o \in Objects : LegacyPromote(o))
    <3>1. /\ \E o \in Objects : \/ legacy' = [legacy EXCEPT ![o] = None]
                               \/ legacy' = [legacy EXCEPT ![o] = [base |-> rel[o]]]
          /\ UNCHANGED <<tag, hosted, branch, prOpen, op, events, manual, unserved>>
      BY <2>5, PipelineAssumption
         DEF LegacyCheckout, LegacyPromote, reviewVars, worldVars, pastVars
    <3> QED
      BY <2>1, <3>1
  <2>6. CASE (\E a \in Authors, d \in Drafts : Propose(a, d)) \/ RegistryStep
    <3>1. /\ UNCHANGED <<tag, hosted, branch, prOpen, legacy, op, manual>>
          /\ events' \in {events, events + 1}
          /\ \/ unserved' = unserved
             \/ \E s \in Authors \cup Objects :
                  prs[s] # None /\ unserved' = unserved \cup {prs[s].obj}
      BY <2>6 DEF Propose, Event, RegistryStep, CheckPullRequest, MergePullRequest, ClosePullRequest,
                reviewVars, worldVars, pastVars
    <3>2. \A s \in Authors \cup Objects : prs[s] # None => prs[s].obj \in Objects
      BY DEF Inv, TypeOK, PullRequest
    <3> QED
      BY <2>1, <3>1, <3>2
  <2>7. CASE MirrorStep
    <3>1. /\ UNCHANGED <<tag, hosted, branch, prOpen, legacy, op, manual, unserved>>
          /\ events' \in {events, events + 1}
      BY <2>7 DEF MirrorStep, MirrorStart, Event, MirrorInspect, MirrorDownload, MirrorPublish,
                reviewVars, worldVars, pastVars
    <3> QED
      BY <2>1, <3>1
  <2>8. CASE WorldStep
    <3>1. \A x \in Retags : x.obj \in Objects /\ x.commit \in Commits
      BY PipelineAssumption
    <3>2. \A x \in Assets : x.obj \in Objects /\ x.bytes \in Bundle
      BY PipelineAssumption
    <3> QED
      BY <2>1, <2>8, <3>1, <3>2 
         DEF WorldStep, MoveTag, UploadAsset, Event, offWorld, reviewVars, pastVars
  <2> HIDE DEF Goal
  <2> QED
    BY <2>2, <2>3, <2>4, <2>4a, <2>5, <2>6, <2>7, <2>8, StepOf DEF OpenStep
<1> QED
  BY <1>1, <1>2, <1>3 DEF TypeOK

-----------------------------------------------------------------------------
(* The parts of the invariant. *)

LEMMA NextRunsHold ==
    ASSUME Inv, Next
    PROVE  RunsHold'
<1>1. CASE UNCHANGED <<run, uploaded>>
  BY <1>1 DEF Inv, RunsHold
<1>2. ASSUME NEW r \in Runs, RunEffect(r) PROVE RunsHold'
  BY <1>2 DEF Inv, RunsHold, RunEffect
<1> QED
  BY <1>1, <1>2, RunsEffect DEF Inv

LEMMA NextBasesAge ==
    ASSUME Inv, Next, NEW s \in Authors \cup Objects, prs'[s] # None
    PROVE  Immutable(rel'[prs'[s].obj], prs'[s].base)
<1>1. /\ rel \in [Objects -> Entry] /\ rel' \in [Objects -> Entry]
      /\ \A o \in Objects : Immutable(rel'[o], rel[o])
  BY MainEffect DEF Inv, TypeOK
<1>2. prs'[s] \in PullRequest
  BY PullRequestEffect DEF Inv
<1>3. prs'[s].obj \in Objects /\ prs'[s].base \in Entry
  BY <1>2 DEF PullRequest
<1>4. CASE prs[s] # None /\ prs'[s].obj = prs[s].obj /\ prs'[s].base = prs[s].base
  <2>1. Immutable(rel[prs'[s].obj], prs'[s].base)
    BY <1>4 DEF Inv, BasesAge
  <2> QED
    BY <1>1, <1>3, <2>1, EntryOrder
<1>5. CASE prs'[s].base \in {None, rel[prs'[s].obj]}
  BY <1>1, <1>3, <1>5 DEF Immutable
<1>6. prs[s] \in PullRequest \cup {None}
  BY DEF Inv, TypeOK
<1>7. CASE prs'[s] = prs[s]
  BY <1>4, <1>7
<1>8. CASE prs[s] # None /\ prs'[s] = [prs[s] EXCEPT !.checked = TRUE]
  <2>1. prs'[s].obj = prs[s].obj /\ prs'[s].base = prs[s].base
    BY <1>6, <1>8 DEF PullRequest
  <2> QED
    BY <1>4, <1>8, <2>1
<1>9. PrEffect(s)
  BY PullRequestEffect DEF Inv
<1> QED
  BY <1>5, <1>7, <1>8, <1>9 DEF PrEffect

\* A checked pull request that can still be merged is still a legal change:
\* an entry that main has left never comes back.
LEMMA NextChecksHold ==
    ASSUME Inv, Next, NEW s \in Authors \cup Objects, prs'[s] # None, prs'[s].checked
    PROVE  /\ prs'[s].new # None
           /\ rel'[prs'[s].obj] \in {prs'[s].base, prs'[s].new} =>
                Immutable(prs'[s].new, rel'[prs'[s].obj])
<1> DEFINE o == prs'[s].obj
           base == prs'[s].base
           new == prs'[s].new
<1>1. /\ rel \in [Objects -> Entry] /\ rel' \in [Objects -> Entry]
      /\ \A x \in Objects : Immutable(rel'[x], rel[x])
  BY MainEffect DEF Inv, TypeOK
<1>2. prs'[s] \in PullRequest /\ prs[s] \in PullRequest \cup {None}
  BY PullRequestEffect DEF Inv, TypeOK
<1>3. o \in Objects /\ base \in Entry /\ new \in Entry
  BY <1>2 DEF PullRequest
<1>4. CASE prs'[s] = prs[s]
  <2>1. /\ new # None /\ (rel[o] \in {base, new} => Immutable(new, rel[o]))
        /\ Immutable(rel[o], base)
    BY <1>4 DEF Inv, ChecksHold, BasesAge, Mergeable
  <2>2. CASE rel'[o] = new
    BY <1>3, <2>1, <2>2, EntryOrder
  <2>3. CASE rel'[o] = base
    <3>1. rel[o] \in Entry /\ Immutable(base, rel[o])
      BY <1>1, <1>3, <2>3
    <3>2. rel[o] = base
      BY <1>3, <2>1, <3>1, EntryOrder
    <3> QED
      BY <2>1, <2>3, <3>2
  <2> QED
    BY <2>1, <2>2, <2>3
<1>5. CASE /\ prs[s] # None /\ prs'[s] = [prs[s] EXCEPT !.checked = TRUE]
           /\ Gates(prs[s]) /\ UNCHANGED <<bound, rel>>
  <2>1. new = prs[s].new /\ o = prs[s].obj
    BY <1>2, <1>5 DEF PullRequest
  <2> QED
    BY <1>5, <2>1 DEF Gates
<1>6. PrEffect(s)
  BY PullRequestEffect DEF Inv
<1> QED
  BY <1>4, <1>5, <1>6 DEF PrEffect

\* What was done by hand, or merged unchecked, stays on record.
LEMMA PastGrows ==
    ASSUME Next
    PROVE  manual \subseteq manual' /\ unserved \subseteq unserved'
<1>1. CASE \E r \in Runs : BuildStep(r)
  BY <1>1, BuildFrame
<1>2. CASE \E o \in Objects : ReviewStep(o)
  BY <1>2, ReviewFrame
<1>3. CASE \/ \E q \in Requests : LegacyCheckout(q.obj)
           \/ \E o \in Objects : LoadReviewed(o) \/ PublishReviewed(o)
           \/ FileStep \/ OpenStep \/ RegistryStep \/ MirrorStep \/ WorldStep
  BY <1>3 DEF LegacyCheckout, LoadReviewed, PublishReviewed, FileStep, PublishFile, OpenStep,
         LegacyPromote, Propose, RegistryStep, CheckPullRequest, MergePullRequest, ClosePullRequest,
         MirrorStep, MirrorStart, MirrorInspect, MirrorDownload, MirrorPublish, WorldStep, MoveTag,
         UploadAsset, offWorld, pastVars
<1> QED
  BY <1>1, <1>2, <1>3, StepOf

LEMMA NextMirrorReady ==
    ASSUME Inv, Next, NEW s \in Authors \cup Objects,
           prs'[s] # None, prs'[s].new # None, prs'[s].new.url = "mirror",
           prs'[s].checked \/ (prs'[s].base # None /\ IsMirrorPromotion(prs'[s].new, prs'[s].base))
    PROVE  \/ bound'[prs'[s].obj] = prs'[s].new.digest
           \/ prs'[s].obj \in unserved' \/ Early(prs'[s])
<1> DEFINE o == prs'[s].obj
           base == prs'[s].base
           new == prs'[s].new
<1>1. prs'[s] \in PullRequest /\ prs[s] \in PullRequest \cup {None}
  BY PullRequestEffect DEF Inv, TypeOK
<1>2. o \in Objects /\ base \in Entry /\ new \in Entry
  BY <1>1 DEF PullRequest
<1>3. new.digest # None
  <2>1. new \in Release
    BY <1>2 DEF Entry
  <2>2. new.digest \in Bundle
    BY <2>1 DEF Release
  <2> QED
    BY <2>2, PipelineAssumption
<1>4. (bound[o] # None => bound'[o] = bound[o]) /\ unserved \subseteq unserved'
  BY <1>2, StoreEffect, PastGrows DEF Inv
<1>5. CASE prs'[s] = prs[s]
  <2>1. bound[o] = new.digest \/ o \in unserved \/ Early(prs[s])
    BY <1>5 DEF Inv, MirrorReady
  <2> QED
    BY <1>3, <1>4, <1>5, <2>1
<1>6. CASE /\ prs[s] # None /\ prs'[s] = [prs[s] EXCEPT !.checked = TRUE]
           /\ Gates(prs[s]) /\ UNCHANGED <<bound, rel>>
  <2>1. new = prs[s].new /\ o = prs[s].obj /\ base = prs[s].base /\ prs'[s].served = prs[s].served
    BY <1>1, <1>6 DEF PullRequest
  <2>2. rel[o] \in {base, new} /\ Immutable(new, rel[o]) /\ ArtifactGate(prs[s])
    BY <1>6, <2>1 DEF Gates, Mergeable
  <2>3. CASE rel[o] = None
    BY <1>6, <2>1, <2>2, <2>3 DEF ArtifactGate, IsNew, Served
  <2>4. CASE rel[o] = new
    BY <1>2, <1>4, <1>6, <2>4 DEF Inv, MirrorUrlServed
  <2>5. CASE rel[o] # None /\ rel[o] # new
    <3>1. base = rel[o] /\ IsMirrorPromotion(new, base)
      BY <2>2, <2>5 DEF Immutable
    <3>2. bound[o] = new.digest \/ o \in unserved \/ Early(prs[s])
      BY <1>6, <2>1, <2>5, <3>1 DEF Inv, MirrorReady
    <3>3. Early(prs[s]) => Early(prs'[s])
      BY <2>1 DEF Early
    <3> QED
      BY <1>4, <1>6, <3>2, <3>3
  <2> QED
    BY <2>3, <2>4, <2>5
<1>7. CASE /\ ~prs'[s].checked /\ UNCHANGED <<bound, rel>>
           /\ (prs'[s].base # None /\ prs'[s].new # None /\ IsMirrorPromotion(prs'[s].new, prs'[s].base))
                => (prs'[s].served => bound[prs'[s].obj] = prs'[s].base.digest)
  <2>1. base # None /\ IsMirrorPromotion(new, base) /\ (prs'[s].served => bound[o] = base.digest)
    BY <1>7
  <2>2. Immutable(new, base)
    BY <2>1 DEF Immutable
  <2>3. new.digest = base.digest
    BY <1>2, <2>1, <2>2, EntryOrder
  <2> QED
    BY <1>7, <2>1, <2>3 DEF Early
<1>8. PrEffect(s)
  BY PullRequestEffect DEF Inv
<1> QED
  BY <1>5, <1>6, <1>7, <1>8 DEF PrEffect

LEMMA NextFromMain ==
    ASSUME Inv, Next
    PROVE  FromMain'
<1>1. /\ rel \in [Objects -> Entry] /\ rel' \in [Objects -> Entry]
      /\ \A o \in Objects : Immutable(rel'[o], rel[o])
      /\ \A o \in Objects : cand[o] # None => cand'[o] = cand[o]
  BY MainEffect DEF Inv, TypeOK
<1>2. \A o \in Objects : rel[o] # None => rel'[o] # None /\ rel'[o].digest = rel[o].digest
  BY <1>1, EntryOrder
<1>3. /\ batch'.pc # "idle" => batch'.todo # {}
      /\ \A x \in batch'.todo : rel[Order[x.at]] # None /\ rel[Order[x.at]].digest = x.digest
      /\ batch'.todo \subseteq Job
  BY BatchEffect DEF Inv
<1>4. \A x \in batch'.todo : Order[x.at] \in Objects
  BY <1>3 DEF Job, Objects
<1>5. \A o \in Objects : op'[o] = "publish" => op[o] = "publish" \/ cand[o] # None
  <2> DEFINE Goal == \A o \in Objects : op'[o] = "publish" => op[o] = "publish" \/ cand[o] # None
  <2>0. op \in [Objects -> {"idle", "publish"}]
    BY DEF Inv, TypeOK
  <2>1. CASE UNCHANGED op
    BY <2>1
  <2>2. CASE \E o \in Objects : LoadReviewed(o) \/ PublishReviewed(o)
    BY <2>0, <2>2 DEF LoadReviewed, PublishReviewed
  <2>3. CASE \E r \in Runs : BuildStep(r)
    BY <2>1, <2>3, BuildFrame
  <2>4. CASE \E o \in Objects : ReviewStep(o)
    BY <2>1, <2>4, ReviewFrame
  <2>5. CASE \/ \E q \in Requests : LegacyCheckout(q.obj)
             \/ FileStep \/ OpenStep \/ RegistryStep \/ MirrorStep \/ WorldStep
    <3>1. UNCHANGED op
      BY <2>5 DEF LegacyCheckout, FileStep, PublishFile, OpenStep, LegacyPromote, Propose, RegistryStep, CheckPullRequest,
           MergePullRequest, ClosePullRequest, MirrorStep, MirrorStart, MirrorInspect,
           MirrorDownload, MirrorPublish, WorldStep, MoveTag, UploadAsset, offWorld
    <3> QED
      BY <2>1, <3>1
  <2> SUFFICES Goal
    OBVIOUS
  <2> HIDE DEF Goal
  <2> QED
    BY <2>2, <2>3, <2>4, <2>5, StepOf DEF Goal
<1>6. \A o \in Objects : op'[o] = "publish" => cand'[o] # None
  BY <1>1, <1>5 DEF Inv, FromMain
<1> QED
  BY <1>2, <1>3, <1>4, <1>6 DEF FromMain

LEMMA NextMirrorUrlServed ==
    ASSUME Inv, Next
    PROVE  MirrorUrlServed'
<1> SUFFICES ASSUME NEW o \in Objects, o \notin unserved', rel'[o] # None, rel'[o].url = "mirror"
             PROVE  bound'[o] = rel'[o].digest
  BY DEF MirrorUrlServed
<1>0. o \notin unserved
  BY PastGrows
<1>1. rel \in [Objects -> Entry] /\ rel' \in [Objects -> Entry]
  BY MainEffect DEF Inv, TypeOK
<1>2. rel'[o].digest # None
  <2>1. rel'[o] \in Release
    BY <1>1 DEF Entry
  <2>2. rel'[o].digest \in Bundle
    BY <2>1 DEF Release
  <2> QED
    BY <2>2, PipelineAssumption
<1>3. bound[o] # None => bound'[o] = bound[o]
  BY StoreEffect DEF Inv
<1>4. CASE rel'[o] = rel[o]
  BY <1>0, <1>2, <1>3, <1>4 DEF Inv, MirrorUrlServed
<1>5. CASE rel'[o] # rel[o]
  <2>1. \E s \in Authors \cup Objects : MergePullRequest(s)
    <3>1. CASE \E r \in Runs : BuildStep(r)
      BY <3>1, <1>5, BuildFrame
    <3>2. CASE \E x \in Objects : ReviewStep(x)
      BY <3>2, <1>5, ReviewFrame
    <3>3. CASE RegistryStep
      BY <3>3, <1>5 DEF RegistryStep, CheckPullRequest, ClosePullRequest, mainVars
    <3>4. CASE \/ \E q \in Requests : LegacyCheckout(q.obj)
               \/ \E x \in Objects : LoadReviewed(x) \/ PublishReviewed(x)
               \/ FileStep \/ OpenStep \/ MirrorStep \/ WorldStep
      BY <3>4, <1>5 DEF LegacyCheckout, LoadReviewed, PublishReviewed, FileStep, PublishFile, OpenStep, LegacyPromote,
           Propose, MirrorStep, MirrorStart, MirrorInspect, MirrorDownload, MirrorPublish, WorldStep,
           MoveTag, UploadAsset, offWorld, mainVars
    <3> QED
      BY <3>1, <3>2, <3>3, <3>4, StepOf
  <2>2. PICK s \in Authors \cup Objects : MergePullRequest(s)
    BY <2>1
  <2>3. /\ prs[s] # None /\ prs[s].checked /\ rel' = [rel EXCEPT ![prs[s].obj] = prs[s].new]
        /\ bound' = bound /\ Mergeable(prs[s])
        /\ Unchecked(prs[s]) => prs[s].obj \in unserved'
    BY <2>2 DEF MergePullRequest
  <2>4. prs[s].obj = o /\ prs[s].new = rel'[o]
    BY <1>1, <1>5, <2>3
  <2>5. rel[o] = prs[s].base
    BY <1>5, <2>3, <2>4 DEF Mergeable
  <2>6. ~Early(prs[s])
    BY <2>3, <2>4, <2>5 DEF Early, Unchecked
  <2> QED
    BY <1>0, <2>3, <2>4, <2>6 DEF Inv, MirrorReady
<1> QED
  BY <1>4, <1>5

LEMMA NextStoredIsReviewed ==
    ASSUME Inv, Next
    PROVE  StoredIsReviewed'
<1> SUFFICES ASSUME NEW o \in Objects, o \notin manual', bound'[o] # None
             PROVE  \/ cand'[o] # None /\ cand'[o].bundle = bound'[o]
                    \/ rel'[o] # None /\ rel'[o].digest = bound'[o]
  BY DEF StoredIsReviewed
<1>1. /\ rel[o] \in Entry /\ rel'[o] \in Entry /\ Immutable(rel'[o], rel[o])
      /\ cand[o] # None => cand'[o] = cand[o]
  BY MainEffect DEF Inv, TypeOK
<1>2. rel[o] # None => rel'[o] # None /\ rel'[o].digest = rel[o].digest
  BY <1>1, EntryOrder
<1>3. \/ cand[o] # None /\ cand[o].bundle = bound'[o]
      \/ rel[o] # None /\ rel[o].digest = bound'[o]
  BY StoreEffect, PastGrows DEF Inv, StoredIsReviewed
<1> QED
  BY <1>1, <1>2, <1>3

\* branch and cand only ever hold what some run uploaded for that object.
LEMMA NextProvenanceIsTrue ==
    ASSUME Inv, Next
    PROVE  ProvenanceIsTrue'
<1>0. \A o \in Objects :
        /\ cand[o] # None => TrueOf(o, cand[o])
        /\ branch[o] # None => TrueOf(o, branch[o])
        /\ \A r \in Runs : run[r].obj = o /\ uploaded[r] # None => TrueOf(o, uploaded[r])
  BY DEF Inv, ProvenanceIsTrue, TrueOf
<1>1. \A r \in Runs : run[r].obj \in Objects
  BY DEF Inv, TypeOK, RunState
<1>2. \A r \in Runs : uploaded'[r] # None => TrueOf(run'[r].obj, uploaded'[r])
  <2>1. CASE UNCHANGED <<run, uploaded>>
    BY <1>0, <1>1, <2>1
  <2>2. ASSUME NEW r \in Runs, RunEffect(r)
        PROVE  \A x \in Runs : uploaded'[x] # None => TrueOf(run'[x].obj, uploaded'[x])
    BY <1>0, <1>1, <2>2 DEF RunEffect, Inv, RunsHold
  <2> QED
    BY <2>1, <2>2, RunsEffect DEF Inv
<1>3. \A o \in Objects : /\ cand'[o] # None => TrueOf(o, cand'[o])
                         /\ branch'[o] # None => TrueOf(o, branch'[o])
  <2> DEFINE Goal == \A o \in Objects : /\ cand'[o] # None => TrueOf(o, cand'[o])
                                        /\ branch'[o] # None => TrueOf(o, branch'[o])
  <2> SUFFICES Goal
    OBVIOUS
  <2>0. /\ cand \in [Objects -> Candidate \cup {None}]
        /\ branch \in [Objects -> Candidate \cup {None}]
    BY DEF Inv, TypeOK
  <2>1. CASE UNCHANGED <<cand, branch>>
    BY <1>0, <2>1
  <2>2. ASSUME NEW r \in Runs, BuildStep(r) PROVE Goal
    <3>1. cand' = cand
      BY <2>2, BuildFrame
    <3>2. branch' = branch \/ branch' = [branch EXCEPT ![run[r].obj] = uploaded[r]]
      BY <2>2 DEF BuildStep, BuilderStep, Start, FirstCheckout, SecondCheckout, BuildTwice,
           CheckMainHistory, CheckBranchHistory, EmitCandidate, ReviewCheckout, StoreCandidate,
           OpenCandidate, RunFails, Dispatch, offRun, reviewVars
    <3> QED
      BY <1>0, <1>1, <2>0, <3>1, <3>2
  <2>3. ASSUME NEW x \in Objects, ReviewStep(x) PROVE Goal
    <3>1. /\ cand' = cand \/ cand' = [cand EXCEPT ![x] = branch[x]]
          /\ branch' = branch \/ branch' = [branch EXCEPT ![x] = None]
      BY <2>3 DEF ReviewStep, MergeCandidate, ReopenCandidate, CloseCandidate, DeleteBranch, mainVars
    <3> QED
      BY <1>0, <2>0, <3>1
  <2>4. CASE \/ \E q \in Requests : LegacyCheckout(q.obj)
             \/ \E x \in Objects : LoadReviewed(x) \/ PublishReviewed(x)
             \/ FileStep \/ OpenStep \/ RegistryStep \/ MirrorStep \/ WorldStep
    <3>1. UNCHANGED <<cand, branch>>
      BY <2>4 DEF LegacyCheckout, LoadReviewed, PublishReviewed, FileStep, PublishFile, OpenStep, LegacyPromote, Propose,
           RegistryStep, CheckPullRequest, MergePullRequest, ClosePullRequest, MirrorStep,
           MirrorStart, MirrorInspect, MirrorDownload, MirrorPublish, WorldStep, MoveTag,
           UploadAsset, offWorld, mainVars, reviewVars
    <3> QED
      BY <2>1, <3>1
  <2> HIDE DEF Goal
  <2> QED
    BY <2>2, <2>3, <2>4, StepOf
<1> QED
  BY <1>2, <1>3 DEF ProvenanceIsTrue, TrueOf

-----------------------------------------------------------------------------
LEMMA NextInv == Inv /\ [Next]_vars => Inv'
<1> SUFFICES ASSUME Inv, [Next]_vars PROVE Inv'
  OBVIOUS
<1>1. CASE Next
  <2>1. BasesAge'
    BY <1>1, NextBasesAge DEF BasesAge
  <2>2. ChecksHold'
    BY <1>1, NextChecksHold DEF ChecksHold, Mergeable
  <2>3. MirrorReady'
    BY <1>1, NextMirrorReady DEF MirrorReady, Early
  <2> QED
    BY <1>1, <2>1, <2>2, <2>3, NextTypeOK, NextRunsHold, NextFromMain, NextMirrorUrlServed,
       NextStoredIsReviewed, NextProvenanceIsTrue DEF Inv
<1>2. CASE UNCHANGED vars
  <2>1. UNCHANGED <<bound, cand, rel, branch, prOpen, run, uploaded, tag, hosted, events, manual,
                    unserved, batch, prs, legacy, op>>
    BY <1>2 DEF vars, mainVars, reviewVars, buildVars, offBuild, worldVars, pastVars
  <2>2. TypeOK'
    BY <2>1 DEF Inv, TypeOK
  <2>3. RunsHold' /\ BasesAge' /\ ChecksHold' /\ MirrorReady' /\ FromMain'
    BY <2>1 DEF Inv, RunsHold, BasesAge, ChecksHold, Mergeable, MirrorReady, Early, FromMain
  <2>4. MirrorUrlServed' /\ StoredIsReviewed' /\ ProvenanceIsTrue'
    BY <2>1 DEF Inv, MirrorUrlServed, StoredIsReviewed, ProvenanceIsTrue
  <2> QED
    BY <2>2, <2>3, <2>4 DEF Inv
<1> QED
  BY <1>1, <1>2

LEMMA InvAlways == Spec => []Inv
  BY InitInv, NextInv, PTL DEF Spec

\* The types of the pipeline are kept by every workflow, person and failure.
THEOREM TypeCorrect == Spec => []TypeOK
<1>1. Inv => TypeOK
  BY DEF Inv
<1> QED
  BY <1>1, InvAlways, PTL

\* The registry never points clients at a mirror URL whose bytes the store
\* lacks or holds differently, whatever the order of checks and merges and
\* whatever operators publish by hand, but through a mirror promotion opened
\* before the bytes were there, which no gate looks at.
THEOREM MirrorUrlServedAlways == Spec => []MirrorUrlServed
<1>1. Inv => MirrorUrlServed
  BY DEF Inv
<1> QED
  BY <1>1, InvAlways, PTL

\* Nothing but what operators publish by hand is in the permanent store that
\* no reviewed record on main names.
THEOREM StoredIsReviewedAlways == Spec => []StoredIsReviewed
<1>1. Inv => StoredIsReviewed
  BY DEF Inv
<1> QED
  BY <1>1, InvAlways, PTL

\* Every candidate names the commit it was built from, however tags move
\* while builders run.
THEOREM ProvenanceIsTrueAlways == Spec => []ProvenanceIsTrue
<1>1. Inv => ProvenanceIsTrue
  BY DEF Inv
<1> QED
  BY <1>1, InvAlways, PTL

\* A merge acts on the result of an earlier check, yet an entry on main is
\* never removed and never changed but for its move to the mirror.
THEOREM HistoryImmutableAlways == Spec => HistoryImmutable
<1> DEFINE Body == \A o \in Objects : rel[o] # None =>
          /\ rel'[o] # None
          /\ rel'[o] = rel[o] \/ (rel[o].url = "github" /\ rel'[o] = [rel[o] EXCEPT !.url = "mirror"])
<1>1. Inv /\ [Next]_vars => [Body]_vars
  <2> SUFFICES ASSUME Inv, Next, NEW o \in Objects, rel[o] # None
               PROVE  /\ rel'[o] # None
                      /\ \/ rel'[o] = rel[o]
                         \/ rel[o].url = "github" /\ rel'[o] = [rel[o] EXCEPT !.url = "mirror"]
    OBVIOUS
  <2>1. rel[o] \in Entry /\ rel'[o] \in Entry /\ Immutable(rel'[o], rel[o])
    BY MainEffect DEF Inv, TypeOK
  <2> QED
    BY <2>1, EntryOrder
<1> QED
  BY <1>1, InvAlways, PTL DEF Spec, HistoryImmutable
=============================================================================
