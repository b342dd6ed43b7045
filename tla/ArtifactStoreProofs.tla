------------------------- MODULE ArtifactStoreProofs -------------------------
(***************************************************************************)
(* Machine-checked facts about ArtifactStore, for any number of            *)
(* publishers, objects, digests, attempts and faults.                      *)
(***************************************************************************)
EXTENDS ArtifactStore, TLAPS

\* Past the rehash of the copy, the temporary file is flushed and holds
\* exactly the expected bytes.
CopyVerified ==
    \A p \in Publishers :
      /\ pc[p] = "check" => synced[p]
      /\ pc[p] = "link" => synced[p] /\ temp[p] = job[p].digest

\* What a publisher has established about the final name it is working on.
PublisherKnows ==
    \A p \in Publishers :
      /\ pc[p] \in {"syncStored", "syncPresent", "syncFinal"} =>
           entry[job[p].obj] # "absent" /\ content[job[p].obj] = job[p].digest
      /\ pc[p] = "cleanup" /\ outcome[p] \in Successes =>
           entry[job[p].obj] = "durable" /\ content[job[p].obj] = job[p].digest

\* A name stands in a directory that has a name, and a publisher past a mkdir
\* works in a directory that exists.
TreeShape ==
    /\ \A o \in Objects :
         /\ entry[o] # "absent" => verDir[o] # "absent"
         /\ verDir[o] # "absent" => modDir[o[1]] # "absent"
    /\ \A p \in Publishers :
         /\ pc[p] \notin {"idle", "walkModule"} => modDir[job[p].obj[1]] # "absent"
         /\ pc[p] \notin {"idle", "walkModule", "syncModule", "walkVersion"} =>
              verDir[job[p].obj] # "absent"

\* A directory that power loss can take has a maker who did not fsync it yet.
UnsyncedExplained ==
    /\ \A m \in Modules : modDir[m] = "visible" => ModuleUnsynced(m)
    /\ \A o \in Objects : verDir[o] = "visible" => VersionUnsynced(o)

\* p has linked the final name of o and has not returned yet.
Linked(p, o) ==
    /\ pc[p] \in {"verifyFinal", "syncFinal", "cleanup"}
    /\ outcome[p] = "published"
    /\ job[p].obj = o

\* p was told that it published o.
Told(p, o) ==
    \E a \in acks : a.by = p /\ a.obj = o /\ a.status = "published"

\* Whoever linked the final name is its only winner, and while the name stays
\* nobody else can link it.
OneWinner ==
    \A o \in Objects :
      /\ entry[o] = "absent" => \A p \in Publishers : ~Linked(p, o) /\ ~Told(p, o)
      /\ \A p, q \in Publishers :
           (Linked(p, o) \/ Told(p, o)) /\ (Linked(q, o) \/ Told(q, o)) => p = q

\* The inductive invariant behind the store's safety properties.
Inv ==
    /\ TypeOK
    /\ CopyVerified
    /\ NoPartialArtifact
    /\ PublisherKnows
    /\ SuccessIsStored
    /\ TreeShape
    /\ UnsyncedExplained
    /\ OneWinner

-----------------------------------------------------------------------------
LEMMA PersistedType ==
    ASSUME NEW n \in NameStates
    PROVE  /\ Persisted(n) \in NameStates
           /\ Persisted(n) = "absent" <=> n = "absent"
           /\ n = "durable" => Persisted(n) = "durable"
           /\ n # "absent" => Persisted(n) = "durable"
BY DEF Persisted, NameStates

LEMMA JobType ==
    ASSUME TypeOK, NEW p \in Publishers
    PROVE  /\ job[p].obj \in Objects
           /\ job[p].obj[1] \in Modules
           /\ job[p].digest \in Digests
           /\ job[p].digest \in Bytes
BY DEF TypeOK, Jobs, Objects, Bytes

LEMMA InitInv == Init => Inv
<1> SUFFICES ASSUME Init PROVE Inv
  OBVIOUS
<1>1. (CHOOSE j \in Jobs : TRUE) \in Jobs
  <2>1. PICK m \in Modules, v \in Versions, d \in Digests : TRUE
    BY StoreAssumption
  <2>2. [obj |-> <<m, v>>, digest |-> d] \in Jobs
    BY DEF Jobs, Objects
  <2> QED
    BY <2>2
<1>2. TypeOK
  BY <1>1, StoreAssumption
     DEF Init, TypeOK, NameStates, Labels, Successes, Failures, FaultKinds
<1>3. CopyVerified /\ NoPartialArtifact /\ PublisherKnows
  BY DEF Init, CopyVerified, NoPartialArtifact, PublisherKnows
<1>4. SuccessIsStored
  BY DEF Init, SuccessIsStored
<1>5. TreeShape /\ UnsyncedExplained
  BY DEF Init, TreeShape, UnsyncedExplained, Objects
<1>6. OneWinner
  BY DEF Init, OneWinner, Linked, Told
<1> QED
  BY <1>2, <1>3, <1>4, <1>5, <1>6 DEF Inv

LEMMA NextTypeOK == TypeOK /\ [Next]_vars => TypeOK'
<1> SUFFICES ASSUME TypeOK, [Next]_vars PROVE TypeOK'
  OBVIOUS
<1> USE DEF TypeOK, Goto, Labels, fsVars, callVars, history, Acks
<1>1. ASSUME NEW p \in Publishers, NEW o \in Objects, NEW d \in Digests, Publish(p, o, d)
      PROVE  TypeOK'
  <2>1. [obj |-> o, digest |-> d] \in Jobs
    BY DEF Jobs
  <2>2. attempts' \in [Publishers -> Nat] /\ job' \in [Publishers -> Jobs]
    BY <1>1, <2>1 DEF Publish
  <2>3. pc' \in [Publishers -> Labels]
    BY <1>1 DEF Publish
  <2>4. outcome' \in [Publishers -> Successes \cup Failures]
    BY <1>1 DEF Publish, Failures
  <2> QED
    BY <1>1, <2>2, <2>3, <2>4 DEF Publish
<1>2. ASSUME NEW p \in Publishers, Step(p) PROVE TypeOK'
  <2> USE <1>2, JobType, PersistedType
  <2>1. CASE WalkModule(p)
    BY <2>1 DEF WalkModule, NameStates
  <2>2. CASE SyncModule(p)
    BY <2>2 DEF SyncModule, FsyncModuleDir, FsyncModulesRoot
  <2>3. CASE WalkVersion(p)
    BY <2>3 DEF WalkVersion, NameStates
  <2>4. CASE SyncVersion(p)
    BY <2>4 DEF SyncVersion, FsyncVersionDir, FsyncModuleDir
  <2>5. CASE Inspect(p)
    BY <2>5 DEF Inspect, Return, Failures, Successes
  <2>6. CASE SyncStored(p)
    BY <2>6 DEF SyncStored
  <2>7. CASE SyncPresent(p)
    BY <2>7 DEF SyncPresent, FsyncVersionDir, Return, Successes
  <2>8. CASE Stage(p)
    BY <2>8 DEF Stage, Bytes
  <2>9. CASE Flush(p)
    BY <2>9 DEF Flush
  <2>10. CASE CheckCopy(p)
    <3>1. outcome' \in [Publishers -> Successes \cup Failures]
      BY <2>10 DEF CheckCopy, Settle, Failures
    <3>2. pc' \in [Publishers -> Labels]
      BY <2>10 DEF CheckCopy, Settle
    <3> QED
      BY <2>10, <3>1, <3>2 DEF CheckCopy
  <2>11. CASE Link(p)
    BY <2>11 DEF Link, Successes, NameStates
  <2>12. CASE VerifyFinal(p)
    BY <2>12 DEF VerifyFinal, Verify, Settle, Failures
  <2>13. CASE SyncFinal(p)
    BY <2>13 DEF SyncFinal, FsyncVersionDir
  <2>14. CASE Cleanup(p)
    BY <2>14 DEF Cleanup, Return
  <2> QED
    BY <2>1, <2>2, <2>3, <2>4, <2>5, <2>6, <2>7, <2>8, <2>9, <2>10, <2>11,
       <2>12, <2>13, <2>14 DEF Step
<1>3. ASSUME NEW p \in Publishers, IOError(p) PROVE TypeOK'
  BY <1>3, JobType DEF IOError, Abandon, Return, Fault, FaultKinds, Failures, Successes
<1>4. ASSUME NEW p \in Publishers, Kill(p) PROVE TypeOK'
  BY <1>4, JobType DEF Kill, Abandon, Fault, FaultKinds
<1>5. CASE PowerLoss
  BY <1>5 DEF PowerLoss, Fault, FaultKinds, NameStates, Bytes
<1>6. CASE UNCHANGED vars
  BY <1>6 DEF vars
<1> QED
  BY <1>1, <1>2, <1>3, <1>4, <1>5, <1>6 DEF Next

\* Every variable keeps its type in every reachable state: TLC checks TypeOK for
\* two publishers, this for any number of publishers, objects and faults.
THEOREM TypeCorrect == Spec => []TypeOK
<1>1. Init => TypeOK
  BY InitInv DEF Inv
<1> QED
  BY <1>1, NextTypeOK, PTL DEF Spec

-----------------------------------------------------------------------------
\* Publishers only add names and durability; nothing they see goes away.
FsGrows ==
    \A o \in Objects :
      entry[o] # "absent" =>
        /\ entry'[o] # "absent"
        /\ entry[o] = "durable" => entry'[o] = "durable"
        /\ content'[o] = content[o]
        /\ flushed[o] => flushed'[o]

LEMMA StepFsGrows ==
    ASSUME TypeOK, NEW p \in Publishers, Step(p)
    PROVE  FsGrows
<1> USE JobType, PersistedType DEF FsGrows, TypeOK, fsVars
<1>1. CASE WalkModule(p)
  BY <1>1 DEF WalkModule
<1>2. CASE SyncModule(p)
  BY <1>2 DEF SyncModule
<1>3. CASE WalkVersion(p)
  BY <1>3 DEF WalkVersion
<1>4. CASE SyncVersion(p)
  BY <1>4 DEF SyncVersion, FsyncVersionDir
<1>5. CASE Inspect(p)
  BY <1>5 DEF Inspect
<1>6. CASE SyncStored(p)
  BY <1>6 DEF SyncStored
<1>7. CASE SyncPresent(p)
  BY <1>7 DEF SyncPresent, FsyncVersionDir
<1>8. CASE Stage(p)
  BY <1>8 DEF Stage
<1>9. CASE Flush(p)
  BY <1>9 DEF Flush
<1>10. CASE CheckCopy(p)
  BY <1>10 DEF CheckCopy
<1>11. CASE Link(p)
  BY <1>11 DEF Link
<1>12. CASE VerifyFinal(p)
  BY <1>12 DEF VerifyFinal
<1>13. CASE SyncFinal(p)
  BY <1>13 DEF SyncFinal, FsyncVersionDir
<1>14. CASE Cleanup(p)
  BY <1>14 DEF Cleanup
<1> QED
  BY <1>1, <1>2, <1>3, <1>4, <1>5, <1>6, <1>7, <1>8, <1>9, <1>10, <1>11,
     <1>12, <1>13, <1>14 DEF Step

\* A step changes only its own publisher's call state.
LEMMA StepIsLocal ==
    ASSUME TypeOK, NEW p \in Publishers, Step(p), NEW q \in Publishers, q # p
    PROVE  /\ pc'[q] = pc[q] /\ job'[q] = job[q] /\ outcome'[q] = outcome[q]
           /\ temp'[q] = temp[q] /\ synced'[q] = synced[q]
BY DEF TypeOK, Step, WalkModule, SyncModule, WalkVersion, SyncVersion, Inspect,
       SyncStored, SyncPresent, Stage, Flush, CheckCopy, Link, VerifyFinal,
       SyncFinal, Cleanup, Return, Settle, Goto

LEMMA StepCopyVerified ==
    ASSUME TypeOK, CopyVerified, NEW p \in Publishers, Step(p)
    PROVE  CopyVerified'
<1> SUFFICES ASSUME NEW q \in Publishers
             PROVE  /\ pc'[q] = "check" => synced'[q]
                    /\ pc'[q] = "link" => synced'[q] /\ temp'[q] = job'[q].digest
  BY DEF CopyVerified
<1>1. CASE q # p
  BY <1>1, StepIsLocal DEF CopyVerified
<1>2. CASE q = p
  BY <1>2 DEF CopyVerified, TypeOK, Step, WalkModule, SyncModule, WalkVersion,
       SyncVersion, Inspect, SyncStored, SyncPresent, Stage, Flush, CheckCopy,
       Link, VerifyFinal, SyncFinal, Cleanup, Return, Settle, Goto
<1> QED
  BY <1>1, <1>2

LEMMA StepNoPartialArtifact ==
    ASSUME TypeOK, CopyVerified, NoPartialArtifact, NEW p \in Publishers, Step(p)
    PROVE  NoPartialArtifact'
<1>1. CASE Link(p)
  BY <1>1, JobType DEF Link, CopyVerified, NoPartialArtifact, TypeOK
<1>2. CASE ~Link(p)
  <2>1. \A o \in Objects : entry'[o] # "absent" => entry[o] # "absent"
    BY <1>2, JobType, PersistedType DEF TypeOK, Step, WalkModule, SyncModule,
       WalkVersion, SyncVersion, Inspect, SyncStored, SyncPresent, Stage, Flush,
       CheckCopy, VerifyFinal, SyncFinal, Cleanup, FsyncVersionDir, fsVars
  <2> QED
    BY <2>1, StepFsGrows DEF NoPartialArtifact, FsGrows
<1> QED
  BY <1>1, <1>2

LEMMA StepPublisherKnows ==
    ASSUME TypeOK, PublisherKnows, NEW p \in Publishers, Step(p)
    PROVE  PublisherKnows'
<1> SUFFICES ASSUME NEW q \in Publishers
             PROVE  /\ pc'[q] \in {"syncStored", "syncPresent", "syncFinal"} =>
                         /\ entry'[job'[q].obj] # "absent"
                         /\ content'[job'[q].obj] = job'[q].digest
                    /\ pc'[q] = "cleanup" /\ outcome'[q] \in Successes =>
                         /\ entry'[job'[q].obj] = "durable"
                         /\ content'[job'[q].obj] = job'[q].digest
  BY DEF PublisherKnows
<1>1. CASE q # p
  BY <1>1, StepIsLocal, StepFsGrows, JobType DEF PublisherKnows, FsGrows
<1>2. CASE q = p
  <2> USE <1>2, JobType, StepFsGrows
      DEF PublisherKnows, FsGrows, TypeOK, Goto, Return, Settle, fsVars
  <2>1. CASE WalkModule(p) \/ SyncModule(p) \/ WalkVersion(p) \/ SyncVersion(p)
    BY <2>1 DEF WalkModule, SyncModule, WalkVersion, SyncVersion
  <2>2. CASE Inspect(p)
    BY <2>2 DEF Inspect, Verify
  <2>3. CASE SyncStored(p)
    BY <2>3 DEF SyncStored
  <2>4. CASE SyncPresent(p)
    BY <2>4 DEF SyncPresent
  <2>5. CASE Stage(p) \/ Flush(p) \/ CheckCopy(p)
    BY <2>5 DEF Stage, Flush, CheckCopy, Successes
  <2>6. CASE Link(p)
    BY <2>6 DEF Link
  <2>7. CASE VerifyFinal(p)
    BY <2>7 DEF VerifyFinal, Verify, Successes
  <2>8. CASE SyncFinal(p)
    BY <2>8, PersistedType DEF SyncFinal, FsyncVersionDir
  <2>9. CASE Cleanup(p)
    BY <2>9 DEF Cleanup
  <2> QED
    BY <2>1, <2>2, <2>3, <2>4, <2>5, <2>6, <2>7, <2>8, <2>9 DEF Step
<1> QED
  BY <1>1, <1>2

\* A new acknowledgement speaks of a durable name with the expected bytes.
LEMMA StepAck ==
    ASSUME TypeOK, PublisherKnows, NEW p \in Publishers, Step(p),
           NEW a \in acks', a \notin acks
    PROVE  /\ a.obj \in Objects /\ a.obj = job[p].obj /\ a.digest = job[p].digest
           /\ entry'[a.obj] = "durable" /\ content'[a.obj] = a.digest
<1> USE JobType DEF PublisherKnows, TypeOK, fsVars
<1>1. CASE SyncPresent(p)
  BY <1>1, PersistedType DEF SyncPresent, Return, FsyncVersionDir
<1>2. CASE Cleanup(p)
  BY <1>2 DEF Cleanup, Return
<1>3. CASE ~SyncPresent(p) /\ ~Cleanup(p)
  BY <1>3 DEF Step, WalkModule, SyncModule, WalkVersion, SyncVersion, Inspect,
       SyncStored, Stage, Flush, CheckCopy, Link, VerifyFinal, SyncFinal, Return,
       Successes
<1> QED
  BY <1>1, <1>2, <1>3

LEMMA StepFrame ==
    ASSUME NEW p \in Publishers, Step(p)
    PROVE  faults' = faults /\ attempts' = attempts
BY DEF Step, WalkModule, SyncModule, WalkVersion, SyncVersion, Inspect,
       SyncStored, SyncPresent, Stage, Flush, CheckCopy, Link, VerifyFinal,
       SyncFinal, Cleanup

LEMMA StepSuccessIsStored ==
    ASSUME TypeOK, PublisherKnows, SuccessIsStored, NEW p \in Publishers, Step(p)
    PROVE  SuccessIsStored'
<1> SUFFICES ASSUME NEW a \in acks'
             PROVE  /\ entry'[a.obj] = "durable"
                    /\ content'[a.obj] = a.digest
  BY DEF SuccessIsStored, Stored
<1>1. CASE a \in acks
  <2>1. a.obj \in Objects
    BY <1>1 DEF TypeOK, Acks
  <2>2. entry[a.obj] = "durable" /\ content[a.obj] = a.digest
    BY <1>1 DEF SuccessIsStored, Stored
  <2> QED
    BY <2>1, <2>2, StepFsGrows DEF FsGrows
<1>2. CASE a \notin acks
  BY <1>2, StepAck
<1> QED
  BY <1>1, <1>2

-----------------------------------------------------------------------------
(* Directories. *)

\* Publishers only make directories and flush them.
DirsGrow ==
    /\ \A m \in Modules : /\ modDir[m] # "absent" => modDir'[m] # "absent"
                          /\ modDir[m] = "durable" => modDir'[m] = "durable"
    /\ \A o \in Objects : /\ verDir[o] # "absent" => verDir'[o] # "absent"
                          /\ verDir[o] = "durable" => verDir'[o] = "durable"

LEMMA StepDirsGrow ==
    ASSUME TypeOK, NEW p \in Publishers, Step(p)
    PROVE  DirsGrow
<1> USE JobType, PersistedType DEF DirsGrow, TypeOK, fsVars
<1>1. CASE WalkModule(p)
  BY <1>1 DEF WalkModule
<1>2. CASE SyncModule(p)
  BY <1>2 DEF SyncModule, FsyncModuleDir, FsyncModulesRoot
<1>3. CASE WalkVersion(p)
  BY <1>3 DEF WalkVersion
<1>4. CASE SyncVersion(p)
  BY <1>4 DEF SyncVersion, FsyncModuleDir
<1>5. CASE modDir' = modDir /\ verDir' = verDir
  BY <1>5
<1> QED
  BY <1>1, <1>2, <1>3, <1>4, <1>5 DEF Step, Inspect, SyncStored, SyncPresent,
     Stage, Flush, CheckCopy, Link, VerifyFinal, SyncFinal, Cleanup

\* What a step may do to the tree and to its own place in publish().
LEMMA StepTree ==
    ASSUME TypeOK, NEW p \in Publishers, Step(p)
    PROVE  /\ job' = job
           /\ \A o \in Objects : entry[o] = "absent" /\ entry'[o] # "absent" =>
                pc[p] = "link" /\ o = job[p].obj
           /\ \A o \in Objects : verDir[o] = "absent" /\ verDir'[o] # "absent" =>
                pc[p] = "walkVersion" /\ o = job[p].obj
           /\ pc'[p] \notin {"idle", "walkModule"} =>
                pc[p] \notin {"idle", "walkModule"} \/ modDir'[job[p].obj[1]] # "absent"
           /\ pc'[p] \notin {"idle", "walkModule", "syncModule", "walkVersion"} =>
                \/ pc[p] \notin {"idle", "walkModule", "syncModule", "walkVersion"}
                \/ verDir'[job[p].obj] # "absent"
<1> USE JobType, PersistedType DEF TypeOK, fsVars, Goto
<1>1. CASE WalkModule(p)
  BY <1>1 DEF WalkModule
<1>2. CASE SyncModule(p)
  BY <1>2 DEF SyncModule, FsyncModuleDir, FsyncModulesRoot
<1>3. CASE WalkVersion(p)
  BY <1>3 DEF WalkVersion
<1>4. CASE SyncVersion(p)
  BY <1>4 DEF SyncVersion, FsyncModuleDir, FsyncVersionDir
<1>5. CASE Inspect(p)
  BY <1>5 DEF Inspect, Return
<1>6. CASE SyncStored(p)
  BY <1>6 DEF SyncStored
<1>7. CASE SyncPresent(p)
  BY <1>7 DEF SyncPresent, FsyncVersionDir, Return
<1>8. CASE Stage(p) \/ Flush(p) \/ CheckCopy(p)
  BY <1>8 DEF Stage, Flush, CheckCopy, Settle
<1>9. CASE Link(p)
  BY <1>9 DEF Link
<1>10. CASE VerifyFinal(p)
  BY <1>10 DEF VerifyFinal, Settle
<1>11. CASE SyncFinal(p)
  BY <1>11 DEF SyncFinal, FsyncVersionDir
<1>12. CASE Cleanup(p)
  BY <1>12 DEF Cleanup, Return
<1> QED
  BY <1>1, <1>2, <1>3, <1>4, <1>5, <1>6, <1>7, <1>8, <1>9, <1>10, <1>11,
     <1>12 DEF Step

LEMMA StepTreeShape ==
    ASSUME TypeOK, TreeShape, NEW p \in Publishers, Step(p)
    PROVE  TreeShape'
<1> USE JobType, StepDirsGrow, StepTree DEF DirsGrow, TreeShape
<1>1. ASSUME NEW o \in Objects
      PROVE  /\ entry'[o] # "absent" => verDir'[o] # "absent"
             /\ verDir'[o] # "absent" => modDir'[o[1]] # "absent"
  <2>1. o[1] \in Modules
    BY DEF Objects
  <2>2. entry'[o] # "absent" => verDir'[o] # "absent"
    BY <1>1
  <2>3. verDir'[o] # "absent" => modDir'[o[1]] # "absent"
    BY <1>1, <2>1
  <2> QED
    BY <2>2, <2>3
<1>2. ASSUME NEW q \in Publishers
      PROVE  /\ pc'[q] \notin {"idle", "walkModule"} => modDir'[job'[q].obj[1]] # "absent"
             /\ pc'[q] \notin {"idle", "walkModule", "syncModule", "walkVersion"} =>
                  verDir'[job'[q].obj] # "absent"
  <2>1. CASE q = p
    BY <1>2, <2>1
  <2>2. CASE q # p
    BY <1>2, <2>2, StepIsLocal
  <2> QED
    BY <2>1, <2>2
<1> QED
  BY <1>1, <1>2

\* A publisher leaves a fsync step only by doing the fsync.
LEMMA StepUnsynced ==
    ASSUME TypeOK, UnsyncedExplained, NEW p \in Publishers, Step(p)
    PROVE  UnsyncedExplained'
<1> USE JobType DEF UnsyncedExplained, ModuleUnsynced, VersionUnsynced, TypeOK, Goto
<1>1. CASE WalkModule(p)
  <2>1. pc[p] = "walkModule" /\ job' = job /\ orphans' = orphans /\ verDir' = verDir
    BY <1>1 DEF WalkModule, history
  <2>2. \A q \in Publishers : pc[q] \in {"syncModule", "syncVersion"} => pc'[q] = pc[q]
    BY <2>1, StepIsLocal
  <2>3. ASSUME NEW m \in Modules, modDir'[m] = "visible" PROVE ModuleUnsynced(m)'
    <3>1. CASE modDir[m] = "visible"
      BY <2>1, <2>2, <2>3, <3>1
    <3>2. CASE modDir[m] # "visible"
      BY <1>1, <2>1, <2>3, <3>2 DEF WalkModule
    <3> QED
      BY <3>1, <3>2
  <2>4. ASSUME NEW o \in Objects, verDir'[o] = "visible" PROVE VersionUnsynced(o)'
    BY <2>1, <2>2, <2>4
  <2> QED
    BY <2>3, <2>4
<1>2. CASE SyncModule(p)
  <2>1. pc[p] = "syncModule" /\ job' = job /\ orphans' = orphans
    BY <1>2 DEF SyncModule, history
  <2>2. \A q \in Publishers : pc[q] = "syncVersion" => pc'[q] = pc[q]
    BY <2>1, StepIsLocal
  <2>3. \A m \in Modules : modDir'[m] # "visible"
    BY <1>2 DEF SyncModule, FsyncModulesRoot, Persisted
  <2>4. \A o \in Objects : verDir'[o] = "visible" => verDir[o] = "visible"
    BY <1>2 DEF SyncModule, FsyncModuleDir, Persisted
  <2> QED
    BY <2>1, <2>2, <2>3, <2>4
<1>3. CASE WalkVersion(p)
  <2>1. pc[p] = "walkVersion" /\ job' = job /\ orphans' = orphans /\ modDir' = modDir
    BY <1>3 DEF WalkVersion, history
  <2>2. \A q \in Publishers : pc[q] \in {"syncModule", "syncVersion"} => pc'[q] = pc[q]
    BY <2>1, StepIsLocal
  <2>3. ASSUME NEW o \in Objects, verDir'[o] = "visible" PROVE VersionUnsynced(o)'
    <3>1. CASE verDir[o] = "visible"
      BY <2>1, <2>2, <2>3, <3>1
    <3>2. CASE verDir[o] # "visible"
      BY <1>3, <2>1, <2>3, <3>2 DEF WalkVersion
    <3> QED
      BY <3>1, <3>2
  <2>4. ASSUME NEW m \in Modules, modDir'[m] = "visible" PROVE ModuleUnsynced(m)'
    BY <2>1, <2>2, <2>4
  <2> QED
    BY <2>3, <2>4
<1>4. CASE SyncVersion(p)
  <2>1. pc[p] = "syncVersion" /\ job' = job /\ orphans' = orphans /\ modDir' = modDir
    BY <1>4 DEF SyncVersion, history
  <2>2. \A q \in Publishers :
          /\ pc[q] = "syncModule" => pc'[q] = pc[q]
          /\ pc[q] = "syncVersion" /\ q # p => pc'[q] = pc[q]
    BY <2>1, StepIsLocal
  <2>3. \A o \in Objects : verDir'[o] = "visible" => verDir[o] = "visible" /\ o # job[p].obj
    BY <1>4 DEF SyncVersion, FsyncModuleDir, Persisted
  <2>4. ASSUME NEW o \in Objects, verDir'[o] = "visible" PROVE VersionUnsynced(o)'
    BY <2>1, <2>2, <2>3, <2>4
  <2>5. ASSUME NEW m \in Modules, modDir'[m] = "visible" PROVE ModuleUnsynced(m)'
    BY <2>1, <2>2, <2>5
  <2> QED
    BY <2>4, <2>5
<1>5. CASE ~(WalkModule(p) \/ SyncModule(p) \/ WalkVersion(p) \/ SyncVersion(p))
  <2>1. /\ pc[p] \notin {"syncModule", "syncVersion"}
        /\ job' = job /\ orphans' = orphans /\ modDir' = modDir /\ verDir' = verDir
    BY <1>5 DEF Step, Inspect, SyncStored, SyncPresent, Stage, Flush, CheckCopy,
       Link, VerifyFinal, SyncFinal, Cleanup, history, fsVars
  <2>2. \A q \in Publishers : pc[q] \in {"syncModule", "syncVersion"} => pc'[q] = pc[q]
    BY <2>1, StepIsLocal
  <2> QED
    BY <2>1, <2>2
<1> QED
  BY <1>1, <1>2, <1>3, <1>4, <1>5

\* A publisher that ends at a fsync step leaves an orphan.
LEMMA AbandonUnsynced ==
    ASSUME TypeOK, UnsyncedExplained, NEW p \in Publishers, Abandon(p), Goto(p, "idle"),
           job' = job, modDir' = modDir, verDir' = verDir
    PROVE  UnsyncedExplained'
<1> USE JobType DEF UnsyncedExplained, ModuleUnsynced, VersionUnsynced, TypeOK, Goto, Abandon
<1>1. \A q \in Publishers : q # p => pc'[q] = pc[q]
  OBVIOUS
<1>2. orphans \subseteq orphans'
  OBVIOUS
<1>3. ASSUME NEW m \in Modules, modDir'[m] = "visible" PROVE ModuleUnsynced(m)'
  <2>1. CASE m \in orphans
    BY <1>2, <1>3, <2>1
  <2>2. CASE m \notin orphans
    <3>1. PICK q \in Publishers : pc[q] = "syncModule" /\ job[q].obj[1] = m
      BY <1>3, <2>2
    <3>2. CASE q = p
      BY <1>3, <3>1, <3>2
    <3>3. CASE q # p
      BY <1>1, <1>3, <3>1, <3>3
    <3> QED
      BY <3>2, <3>3
  <2> QED
    BY <2>1, <2>2
<1>4. ASSUME NEW o \in Objects, verDir'[o] = "visible" PROVE VersionUnsynced(o)'
  <2>1. CASE o \in orphans
    BY <1>2, <1>4, <2>1
  <2>2. CASE o \notin orphans
    <3>1. PICK q \in Publishers : pc[q] = "syncVersion" /\ job[q].obj = o
      BY <1>4, <2>2
    <3>2. CASE q = p
      BY <1>4, <3>1, <3>2
    <3>3. CASE q # p
      BY <1>1, <1>4, <3>1, <3>3
    <3> QED
      BY <3>2, <3>3
  <2> QED
    BY <2>1, <2>2
<1> QED
  BY <1>3, <1>4

-----------------------------------------------------------------------------
(* Racing publishers. *)

\* A step makes its own publisher a winner of a name it linked in this very
\* step, and nobody else.
LEMMA StepWinner ==
    ASSUME TypeOK, NEW p \in Publishers, Step(p), NEW o \in Objects, NEW q \in Publishers,
           Linked(q, o)' \/ Told(q, o)'
    PROVE  \/ Linked(q, o) \/ Told(q, o)
           \/ q = p /\ entry[o] = "absent" /\ entry'[o] # "absent"
<1> USE JobType DEF TypeOK, Linked, Told
<1>1. CASE Link(p)
  <2>1. acks' = acks /\ job' = job
    BY <1>1 DEF Link
  <2>2. CASE q # p
    BY <1>1, <2>1, <2>2, StepIsLocal
  <2>3. CASE q = p
    BY <1>1, <2>1, <2>3 DEF Link
  <2> QED
    BY <2>2, <2>3
<1>2. CASE Cleanup(p)
  <2>1. \A a \in acks' : a \in acks \/ (/\ a.by = p /\ a.obj = job[p].obj
                                        /\ a.status = outcome[p])
    BY <1>2 DEF Cleanup, Return
  <2>2. pc[p] = "cleanup" /\ pc'[p] = "idle"
    BY <1>2 DEF Cleanup, Return, Goto
  <2>3. Linked(q, o)' => Linked(q, o)
    BY <2>2, StepIsLocal
  <2>4. Told(q, o)' => Told(q, o) \/ Linked(q, o)
    BY <2>1, <2>2
  <2> QED
    BY <2>3, <2>4
<1>3. CASE ~Link(p) /\ ~Cleanup(p)
  <2>1. \A a \in acks' : a \in acks \/ a.status = "already-present"
    BY <1>3 DEF Step, WalkModule, SyncModule, WalkVersion, SyncVersion, Inspect,
       SyncStored, SyncPresent, Stage, Flush, CheckCopy, VerifyFinal, SyncFinal,
       Return, Successes
  <2>2. Told(q, o)' => Told(q, o)
    BY <2>1
  <2>3. Linked(p, o)' => Linked(p, o)
    BY <1>3 DEF Step, WalkModule, SyncModule, WalkVersion, SyncVersion, Inspect,
       SyncStored, SyncPresent, Stage, Flush, CheckCopy, VerifyFinal, SyncFinal,
       Return, Settle, Goto
  <2>4. Linked(q, o)' => Linked(q, o)
    BY <2>3, StepIsLocal
  <2> QED
    BY <2>2, <2>4
<1> QED
  BY <1>1, <1>2, <1>3

LEMMA StepOneWinner ==
    ASSUME TypeOK, OneWinner, NEW p \in Publishers, Step(p)
    PROVE  OneWinner'
<1> SUFFICES ASSUME NEW o \in Objects
             PROVE  /\ entry'[o] = "absent" =>
                         \A q \in Publishers : ~Linked(q, o)' /\ ~Told(q, o)'
                    /\ \A q, w \in Publishers :
                         (Linked(q, o)' \/ Told(q, o)') /\ (Linked(w, o)' \/ Told(w, o)')
                           => q = w
  BY DEF OneWinner
<1>1. entry'[o] = "absent" => entry[o] = "absent"
  BY StepFsGrows DEF FsGrows
<1>2. \A q \in Publishers :
        Linked(q, o)' \/ Told(q, o)' =>
          \/ Linked(q, o) \/ Told(q, o)
          \/ q = p /\ entry[o] = "absent" /\ entry'[o] # "absent"
  BY StepWinner
<1> QED
  BY <1>1, <1>2 DEF OneWinner

\* With the names as they were, fewer winners are still at most one.
LEMMA FewerWinners ==
    ASSUME OneWinner, entry' = entry, acks' = acks,
           \A p \in Publishers, o \in Objects : Linked(p, o)' => Linked(p, o)
    PROVE  OneWinner'
<1>1. \A p \in Publishers, o \in Objects : Told(p, o)' <=> Told(p, o)
  BY DEF Told
<1> QED
  BY <1>1 DEF OneWinner

-----------------------------------------------------------------------------
LEMMA PowerLossInv ==
    ASSUME Inv, PowerLoss
    PROVE  Inv'
<1> USE DEF Inv
<1>0. TypeOK'
  BY NextTypeOK DEF Next
<1>1. CopyVerified' /\ PublisherKnows'
  BY DEF PowerLoss, CopyVerified, PublisherKnows
<1>2. NoPartialArtifact'
  <2> SUFFICES ASSUME NEW o \in Objects, entry'[o] # "absent"
               PROVE  content'[o] \in Digests /\ flushed'[o]
    BY DEF NoPartialArtifact
  <2>1. entry[o] # "absent"
    BY DEF PowerLoss
  <2>2. content[o] \in Digests /\ flushed[o]
    BY <2>1 DEF NoPartialArtifact
  <2>3. content'[o] = content[o]
    BY <2>1, <2>2 DEF PowerLoss
  <2>4. flushed'[o]
    BY DEF PowerLoss
  <2> QED
    BY <2>2, <2>3, <2>4
<1>3. \A a \in acks' : a \in acks /\ entry'[a.obj] = "durable" /\ content'[a.obj] = content[a.obj]
  <2> SUFFICES ASSUME NEW a \in acks'
               PROVE  a \in acks /\ entry'[a.obj] = "durable" /\ content'[a.obj] = content[a.obj]
    OBVIOUS
  <2>1. a \in acks
    BY DEF PowerLoss
  <2>2. a.obj \in Objects /\ entry[a.obj] = "durable"
    BY <2>1 DEF TypeOK, Acks, SuccessIsStored
  <2>3. flushed[a.obj]
    BY <2>2 DEF NoPartialArtifact
  <2> QED
    BY <2>1, <2>2, <2>3 DEF PowerLoss
<1>4. SuccessIsStored'
  BY <1>3 DEF SuccessIsStored, Stored
<1>5. TreeShape'
  <2>1. ASSUME NEW o \in Objects
        PROVE  /\ entry'[o] # "absent" => verDir'[o] # "absent"
               /\ verDir'[o] # "absent" => modDir'[o[1]] # "absent"
    BY <2>1 DEF PowerLoss, Objects
  <2>2. \A p \in Publishers : pc'[p] = "idle"
    BY DEF PowerLoss
  <2> QED
    BY <2>1, <2>2 DEF TreeShape
<1>6. UnsyncedExplained'
  BY DEF PowerLoss, UnsyncedExplained
<1>7. OneWinner'
  <2>1. \A p \in Publishers, o \in Objects : ~Linked(p, o)'
    BY DEF PowerLoss, Linked
  <2>2. \A p \in Publishers, o \in Objects :
          Told(p, o)' => Told(p, o) /\ entry'[o] # "absent"
    BY <1>3 DEF Told
  <2> QED
    BY <2>1, <2>2 DEF OneWinner
<1> QED
  BY <1>0, <1>1, <1>2, <1>4, <1>5, <1>6, <1>7

\* A fault of one process changes nothing on the disk.
LEMMA FaultInv ==
    ASSUME Inv, NEW p \in Publishers, IOError(p) \/ Kill(p)
    PROVE  Inv'
<1> USE DEF Inv
<1>0. TypeOK'
  BY NextTypeOK DEF Next
<1>1. /\ fsVars' = fsVars /\ acks' = acks /\ job' = job
      /\ Goto(p, "idle") /\ Abandon(p)
  BY DEF IOError, Kill, Return, Successes
<1>2. \A q \in Publishers : pc'[q] # "idle" =>
        /\ pc'[q] = pc[q] /\ outcome'[q] = outcome[q]
        /\ temp'[q] = temp[q] /\ synced'[q] = synced[q]
  BY DEF IOError, Kill, Return, Goto, TypeOK
<1>3. CopyVerified' /\ NoPartialArtifact' /\ PublisherKnows' /\ SuccessIsStored' /\ TreeShape'
  BY <1>1, <1>2 DEF fsVars, CopyVerified, NoPartialArtifact, PublisherKnows,
     SuccessIsStored, Stored, TreeShape
<1>4. UnsyncedExplained'
  BY <1>1, AbandonUnsynced DEF fsVars
<1>5. OneWinner'
  <2>1. \A q \in Publishers, n \in Objects : Linked(q, n)' => Linked(q, n)
    BY <1>1, <1>2 DEF Linked
  <2> QED
    BY <1>1, <2>1, FewerWinners DEF fsVars
<1> QED
  BY <1>0, <1>3, <1>4, <1>5

LEMMA PublishInv ==
    ASSUME Inv, NEW p \in Publishers, NEW o \in Objects, NEW d \in Digests, Publish(p, o, d)
    PROVE  Inv'
<1> USE DEF Inv
<1>0. TypeOK'
  BY NextTypeOK DEF Next
<1>1. fsVars' = fsVars /\ acks' = acks /\ orphans' = orphans
  BY DEF Publish, history
<1>2. /\ pc[p] = "idle" /\ pc'[p] \in {"idle", "walkModule"}
      /\ \A q \in Publishers : q # p =>
           /\ pc'[q] = pc[q] /\ job'[q] = job[q] /\ outcome'[q] = outcome[q]
           /\ temp'[q] = temp[q] /\ synced'[q] = synced[q]
  BY DEF Publish, Goto, TypeOK
<1>3. CopyVerified' /\ NoPartialArtifact' /\ PublisherKnows' /\ SuccessIsStored' /\ TreeShape'
  BY <1>1, <1>2 DEF fsVars, CopyVerified, NoPartialArtifact, PublisherKnows,
     SuccessIsStored, Stored, TreeShape
<1>4. UnsyncedExplained'
  BY <1>1, <1>2 DEF fsVars, UnsyncedExplained, ModuleUnsynced, VersionUnsynced
<1>5. OneWinner'
  <2>1. \A q \in Publishers, n \in Objects : Linked(q, n)' => Linked(q, n)
    BY <1>2 DEF Linked
  <2> QED
    BY <1>1, <2>1, FewerWinners DEF fsVars
<1> QED
  BY <1>0, <1>3, <1>4, <1>5

LEMMA NextInv == Inv /\ [Next]_vars => Inv'
<1> SUFFICES ASSUME Inv, [Next]_vars PROVE Inv'
  OBVIOUS
<1>1. ASSUME NEW p \in Publishers, NEW o \in Objects, NEW d \in Digests, Publish(p, o, d)
      PROVE  Inv'
  BY <1>1, PublishInv
<1>2. ASSUME NEW p \in Publishers, Step(p) PROVE Inv'
  <2>1. TypeOK'
    BY NextTypeOK DEF Inv
  <2> QED
    BY <1>2, <2>1, StepCopyVerified, StepNoPartialArtifact, StepPublisherKnows,
       StepSuccessIsStored, StepTreeShape, StepUnsynced, StepOneWinner DEF Inv
<1>3. ASSUME NEW p \in Publishers, IOError(p) \/ Kill(p) PROVE Inv'
  BY <1>3, FaultInv
<1>4. CASE PowerLoss
  BY <1>4, PowerLossInv
<1>5. CASE UNCHANGED vars
  BY <1>5 DEF Inv, vars, fsVars, callVars, history, TypeOK, CopyVerified,
     NoPartialArtifact, PublisherKnows, SuccessIsStored, Stored, TreeShape,
     UnsyncedExplained, ModuleUnsynced, VersionUnsynced, OneWinner, Linked, Told
<1> QED
  BY <1>1, <1>2, <1>3, <1>4, <1>5 DEF Next

LEMMA InvAlways == Spec => []Inv
BY InitInv, NextInv, PTL DEF Spec

\* The public name of an artifact never denotes partial, unexpected or
\* unflushed bytes, whatever publishers, kills, I/O errors and power loss do.
THEOREM NoPartialArtifactAlways == Spec => []NoPartialArtifact
BY InvAlways, PTL DEF Inv

\* Every success reported to a caller, and not taken back by power loss, speaks
\* of a final name that is durable in its directory with the expected bytes.
THEOREM SuccessIsStoredAlways == Spec => []SuccessIsStored
BY InvAlways, PTL DEF Inv

\* Of all the publishers that ever raced for a version at most one is told
\* "published": os.link admits one winner, and a killed or failed winner leaves
\* a name that everyone else finds already present.
THEOREM OnePublishedAlways == Spec => []OnePublished
<1>1. Inv => OnePublished
  BY DEF Inv, TypeOK, Acks, OneWinner, OnePublished, Told
<1> QED
  BY <1>1, InvAlways, PTL

\* No publisher replaces or removes a bound version, whatever the interleaving
\* of link, kill and retry; only power loss takes a name away.
THEOREM NeverReplacedAlways == Spec => NeverReplaced
<1> DEFINE Kept == \A o \in Objects :
             Stored(o) # None =>
               \/ Stored(o)' = Stored(o)
               \/ faults' # faults /\ Stored(o)' = None
<1>1. Inv /\ [Next]_vars => [Kept]_vars
  <2> SUFFICES ASSUME Inv, Next PROVE Kept
    OBVIOUS
  <2>1. ASSUME FsGrows PROVE Kept
    BY <2>1 DEF FsGrows, Stored
  <2>2. ASSUME NEW p \in Publishers, NEW o \in Objects, NEW d \in Digests, Publish(p, o, d)
        PROVE  Kept
    BY <2>2 DEF Publish, fsVars, Stored
  <2>3. ASSUME NEW p \in Publishers, Step(p) PROVE Kept
    BY <2>1, <2>3, StepFsGrows DEF Inv
  <2>4. ASSUME NEW p \in Publishers, IOError(p) \/ Kill(p) PROVE Kept
    BY <2>4 DEF IOError, Kill, fsVars, Stored
  <2>5. CASE PowerLoss
    <3>1. faults' # faults
      BY <2>5 DEF PowerLoss, Fault, Inv, TypeOK, FaultKinds
    <3> QED
      BY <2>5, <3>1 DEF PowerLoss, Stored, Inv, NoPartialArtifact
  <2> QED
    BY <2>2, <2>3, <2>4, <2>5 DEF Next
<1> QED
  BY <1>1, InvAlways, PTL DEF Spec, NeverReplaced

\* From an empty tree on, power loss takes an acknowledged version back only
\* while a directory of it, made by somebody else, waits for a fsync its maker
\* has not done or will never do: whoever makes a directory fsyncs it before
\* publishing, and every directory of a published name exists.
THEOREM LostOnlyUnsyncedAlways == Spec => LostOnlyUnsynced
<1> DEFINE Body == \A a \in lost' \ lost :
                     ModuleUnsynced(a.obj[1]) \/ VersionUnsynced(a.obj)
<1>1. Inv /\ [Next]_vars => [Body]_vars
  <2> SUFFICES ASSUME Inv, Next, NEW a \in lost' \ lost
               PROVE  ModuleUnsynced(a.obj[1]) \/ VersionUnsynced(a.obj)
    OBVIOUS
  <2>1. PowerLoss
    <3>1. ASSUME NEW p \in Publishers, Step(p) PROVE lost' = lost
      BY <3>1 DEF Step, WalkModule, SyncModule, WalkVersion, SyncVersion, Inspect,
         SyncStored, SyncPresent, Stage, Flush, CheckCopy, Link, VerifyFinal,
         SyncFinal, Cleanup, history
    <3> QED
      BY <3>1 DEF Next, Publish, IOError, Kill, history
  <2>2. a \in acks /\ a.obj \in Objects /\ a.obj[1] \in Modules
    BY <2>1 DEF PowerLoss, Inv, TypeOK, Acks, Objects
  <2>3. entry[a.obj] = "durable"
    BY <2>2 DEF Inv, SuccessIsStored
  <2>4. verDir[a.obj] # "absent" /\ modDir[a.obj[1]] # "absent"
    BY <2>2, <2>3 DEF Inv, TreeShape
  <2>5. modDir[a.obj[1]] # "durable" \/ verDir[a.obj] # "durable"
    BY <2>1, <2>2, <2>3 DEF PowerLoss
  <2>6. modDir[a.obj[1]] = "visible" \/ verDir[a.obj] = "visible"
    BY <2>2, <2>4, <2>5 DEF Inv, TypeOK, NameStates
  <2> QED
    BY <2>2, <2>6 DEF Inv, UnsyncedExplained
<1> QED
  BY <1>1, InvAlways, PTL DEF Spec, LostOnlyUnsynced

-----------------------------------------------------------------------------
\* The refinement mapping.
BoundBar == [o \in Objects |-> Stored(o)]
PromisedBar == {<<a.obj, a.digest>> : a \in {b \in acks : Settled(b)}}

\* A settled success stays settled while directories only grow.
LEMMA PromisesGrow ==
    ASSUME Inv, DirsGrow, acks \subseteq acks'
    PROVE  PromisedBar \subseteq PromisedBar'
<1>1. \A a \in acks : Settled(a) => Settled(a)'
  <2> SUFFICES ASSUME NEW a \in acks, Settled(a) PROVE Settled(a)'
    OBVIOUS
  <2>1. a.obj \in Objects /\ a.obj[1] \in Modules
    BY DEF Inv, TypeOK, Acks, Objects
  <2> QED
    BY <2>1 DEF Settled, DirsGrow
<1> QED
  BY <1>1 DEF PromisedBar

LEMMA StepSimulates ==
    ASSUME Inv, Inv', NEW p \in Publishers, Step(p)
    PROVE  [Abstract!Next]_<<BoundBar, PromisedBar>>
<1>1. CASE Link(p) /\ entry[job[p].obj] = "absent"
  <2>1. job[p].obj \in Objects /\ job[p].digest \in Digests /\ temp[p] = job[p].digest
    BY <1>1, JobType DEF Link, CopyVerified, Inv
  <2>2. PromisedBar' = PromisedBar
    BY <1>1 DEF Link, PromisedBar, Settled
  <2>3. BoundBar' = [BoundBar EXCEPT ![job[p].obj] = job[p].digest]
    BY <1>1, <2>1 DEF Link, BoundBar, Stored, Inv, TypeOK
  <2>4. BoundBar[job[p].obj] = None
    BY <1>1, <2>1 DEF BoundBar, Stored
  <2>5. Abstract!Bind(job[p].obj, job[p].digest)
    BY <2>2, <2>3, <2>4 DEF Abstract!Bind, BoundBar, PromisedBar
  <2> QED
    BY <2>1, <2>5 DEF Abstract!Next
<1>2. CASE ~(Link(p) /\ entry[job[p].obj] = "absent")
  <2>1. \A o \in Objects : Stored(o)' = Stored(o)
    BY <1>2, PersistedType, JobType DEF Step, WalkModule, SyncModule, WalkVersion,
       SyncVersion, Inspect, SyncStored, SyncPresent, Stage, Flush, CheckCopy,
       Link, VerifyFinal, SyncFinal, Cleanup, FsyncVersionDir, fsVars, Stored,
       Inv, TypeOK
  <2>2. acks \subseteq acks'
    BY DEF Step, WalkModule, SyncModule, WalkVersion, SyncVersion, Inspect,
       SyncStored, SyncPresent, Stage, Flush, CheckCopy, Link, VerifyFinal,
       SyncFinal, Cleanup, Return, Successes
  <2>3. PromisedBar \subseteq PromisedBar'
    BY <2>2, StepDirsGrow, PromisesGrow DEF Inv
  <2>4. PICK pairs : pairs = PromisedBar'
    OBVIOUS
  <2>5. pairs \in SUBSET (Objects \X Digests)
    BY <2>4 DEF PromisedBar, Inv, TypeOK, Acks
  <2>6. \A x \in pairs : x[1] \in Objects /\ Stored(x[1])' = x[2]
    <3> SUFFICES ASSUME NEW x \in PromisedBar' PROVE x[1] \in Objects /\ Stored(x[1])' = x[2]
      BY <2>4
    <3>1. PICK a \in acks' : x = <<a.obj, a.digest>>
      BY DEF PromisedBar
    <3>2. x[1] = a.obj /\ x[2] = a.digest
      BY <3>1
    <3>3. a.obj \in Objects
      BY DEF Inv, TypeOK, Acks
    <3>4. entry'[a.obj] = "durable" /\ content'[a.obj] = a.digest
      BY <3>3 DEF Inv, SuccessIsStored, Stored
    <3> QED
      BY <3>2, <3>3, <3>4 DEF Stored
  <2>7. \A x \in pairs : BoundBar[x[1]] = x[2]
    BY <2>1, <2>6 DEF BoundBar
  <2>8. Abstract!Promise(pairs)
    BY <2>1, <2>3, <2>4, <2>7 DEF Abstract!Promise, BoundBar, PromisedBar
  <2> QED
    BY <2>5, <2>8 DEF Abstract!Next
<1> QED
  BY <1>1, <1>2

LEMMA PowerLossSimulates ==
    ASSUME Inv, Inv', PowerLoss
    PROVE  Abstract!Next
<1> DEFINE gone == {o \in Objects : entry'[o] = "absent"}
<1>1. \A o \in Objects : Stored(o)' = IF o \in gone THEN None ELSE Stored(o)
  BY DEF PowerLoss, Stored, NoPartialArtifact, Inv, TypeOK
<1>2. PICK pairs : pairs = PromisedBar'
  OBVIOUS
<1>3. pairs \in SUBSET (Objects \X Digests)
  BY <1>2 DEF PromisedBar, Inv, TypeOK, Acks
<1>4. \A x \in pairs : x[1] \in Objects /\ x[1] \notin gone /\ Stored(x[1]) = x[2]
  <2> SUFFICES ASSUME NEW x \in PromisedBar'
               PROVE  x[1] \in Objects /\ x[1] \notin gone /\ Stored(x[1]) = x[2]
    BY <1>2
  <2>1. PICK a \in acks' : x = <<a.obj, a.digest>>
    BY DEF PromisedBar
  <2>2. x[1] = a.obj /\ x[2] = a.digest
    BY <2>1
  <2>3. a.obj \in Objects /\ a \in acks
    BY DEF Inv, TypeOK, Acks, PowerLoss
  <2>4. entry'[a.obj] = "durable"
    BY <2>3 DEF Inv, SuccessIsStored
  <2>5. Stored(a.obj) = a.digest
    BY <2>3 DEF Inv, SuccessIsStored
  <2> QED
    BY <2>2, <2>3, <2>4, <2>5
<1>5. PromisedBar \subseteq pairs
  <2> SUFFICES ASSUME NEW a \in acks, Settled(a)
               PROVE  a \in acks' /\ Settled(a)'
    BY <1>2 DEF PromisedBar
  <2>1. a.obj \in Objects /\ a.obj[1] \in Modules
    BY DEF Inv, TypeOK, Acks, Objects
  <2>2. entry[a.obj] = "durable"
    BY DEF Inv, SuccessIsStored
  <2>3. modDir[a.obj[1]] = "durable" /\ verDir[a.obj] = "durable"
    BY DEF Settled
  <2> QED
    BY <2>1, <2>2, <2>3 DEF PowerLoss, Settled
<1>6. Abstract!Forget(gone, pairs)
  <2>1. \A x \in PromisedBar \cup pairs : x[1] \notin gone
    BY <1>4, <1>5
  <2>2. \A x \in pairs : BoundBar[x[1]] = x[2]
    BY <1>4 DEF BoundBar
  <2>3. BoundBar' = [o \in Objects |-> IF o \in gone THEN None ELSE BoundBar[o]]
    BY <1>1 DEF BoundBar
  <2>4. PromisedBar' = PromisedBar \cup pairs
    BY <1>2, <1>5
  <2> QED
    BY <2>1, <2>2, <2>3, <2>4 DEF Abstract!Forget, BoundBar, PromisedBar
<1>7. gone \in SUBSET Objects
  OBVIOUS
<1> QED
  BY <1>3, <1>6, <1>7 DEF Abstract!Next

\* The publish protocol, with all its interleavings, kills, errors and power
\* loss, implements the immutable store its callers reason about, from an
\* empty tree on: a success is a promise once its directories are fsynced.
THEOREM StoreRefinement == Spec => ImplementsImmutableStore
<1>1. Init => Abstract!Init
  BY DEF Init, Abstract!Init, Stored
<1>2. Inv /\ Inv' /\ [Next]_vars => [Abstract!Next]_<<BoundBar, PromisedBar>>
  <2> SUFFICES ASSUME Inv, Inv', [Next]_vars
               PROVE  [Abstract!Next]_<<BoundBar, PromisedBar>>
    OBVIOUS
  <2>1. ASSUME NEW p \in Publishers, Step(p)
        PROVE  [Abstract!Next]_<<BoundBar, PromisedBar>>
    BY <2>1, StepSimulates
  <2>2. ASSUME fsVars' = fsVars, acks' = acks
        PROVE  [Abstract!Next]_<<BoundBar, PromisedBar>>
    BY <2>2 DEF fsVars, Stored, Settled, BoundBar, PromisedBar
  <2>3. ASSUME NEW p \in Publishers, NEW o \in Objects, NEW d \in Digests, Publish(p, o, d)
        PROVE  fsVars' = fsVars /\ acks' = acks
    BY <2>3 DEF Publish
  <2>4. ASSUME NEW p \in Publishers, IOError(p) \/ Kill(p)
        PROVE  fsVars' = fsVars /\ acks' = acks
    BY <2>4 DEF IOError, Kill, Return, Successes
  <2>5. CASE PowerLoss
    BY <2>5, PowerLossSimulates
  <2>6. CASE UNCHANGED vars
    BY <2>2, <2>6 DEF vars
  <2> QED
    BY <2>1, <2>2, <2>3, <2>4, <2>5, <2>6 DEF Next
<1> QED
  BY <1>1, <1>2, InvAlways, PTL
     DEF Spec, ImplementsImmutableStore, Abstract!Spec, Abstract!ivars, BoundBar, PromisedBar
=============================================================================
