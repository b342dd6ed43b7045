---------------------------- MODULE ArtifactStore ----------------------------
(***************************************************************************)
(* FilesystemArtifactStore (scripts/artifact_store.py): publisher          *)
(* processes that run publish() at the same time against one directory     *)
(* tree, with SIGKILL, I/O errors and power loss between any two of their  *)
(* system calls.                                                           *)
(*                                                                         *)
(* The tree below <root>/modules (which the deployment role provisions) is *)
(* <module>/<version>/<module>-<version>.ocp.  A name is "absent",         *)
(* "visible" (in the page cache only) or "durable" (its parent directory   *)
(* was fsynced since the name was made).  A file's bytes are identified    *)
(* with their SHA-256; Torn stands for bytes no publisher asked for.       *)
(***************************************************************************)
EXTENDS Naturals

CONSTANTS
    Publishers,   \* concurrent publisher processes
    Modules,      \* module identifiers
    Versions,     \* version strings
    Digests,      \* SHA-256 values a caller may expect
    Torn,         \* bytes whose digest nobody expects
    None,         \* no file, no bytes
    MaxAttempts,  \* bound: calls of publish() per publisher
    MaxFaults     \* bound: number of faults of each kind

Objects == Modules \X Versions
Jobs == [obj : Objects, digest : Digests]
Bytes == Digests \cup {Torn}
NameStates == {"absent", "visible", "durable"}
FaultKinds == {"kill", "error", "power"}
Successes == {"published", "already-present"}
Failures == {"invalid", "conflict", "storage-error"}
Acks == [by : Publishers, obj : Objects, digest : Digests, status : Successes]

ASSUME StoreAssumption ==
    /\ Modules # {} /\ Versions # {} /\ Digests # {}
    /\ Torn \notin Digests
    /\ None \notin Bytes
    /\ MaxAttempts \in Nat
    /\ MaxFaults \in [FaultKinds -> Nat]

VARIABLES
    modDir,    \* the name of each module directory in <root>/modules
    verDir,    \* the name of each version directory in its module directory
    entry,     \* the final name of each object in its version directory
    content,   \* the bytes behind the final name
    flushed,   \* whether those bytes were fsynced
    pc,        \* what each publisher does next
    job,       \* [obj, digest] of the publish() call in progress
    temp,      \* bytes of the publisher's .staging/<uuid>.partial
    synced,    \* whether that temporary file was fsynced
    outcome,   \* status of the call, returned once staging is cleaned up
    acks,      \* successes returned to callers and not taken back since
    lost,      \* history: successes a power loss took back
    orphans,   \* history: directories whose maker ended before it fsynced them
    attempts,  \* calls made by each publisher
    faults     \* faults so far, by kind

fsVars == <<modDir, verDir, entry, content, flushed>>
callVars == <<pc, job, temp, synced, outcome>>
history == <<lost, orphans>>
vars == <<fsVars, callVars, acks, history, attempts, faults>>

Labels == {"idle", "walkModule", "syncModule", "walkVersion", "syncVersion",
           "inspect", "syncStored", "syncPresent", "stage", "flush", "check",
           "link", "verifyFinal", "syncFinal", "cleanup"}

\* One type invariant: every variable of the store and of the publishers.
TypeOK ==
    /\ modDir \in [Modules -> NameStates]
    /\ verDir \in [Objects -> NameStates]
    /\ entry \in [Objects -> NameStates]
    /\ content \in [Objects -> Bytes \cup {None}]
    /\ flushed \in [Objects -> BOOLEAN]
    /\ pc \in [Publishers -> Labels]
    /\ job \in [Publishers -> Jobs]
    /\ temp \in [Publishers -> Bytes \cup {None}]
    /\ synced \in [Publishers -> BOOLEAN]
    /\ outcome \in [Publishers -> Successes \cup Failures]
    /\ acks \subseteq Acks
    /\ lost \subseteq Acks
    /\ orphans \subseteq Modules \cup Objects
    /\ attempts \in [Publishers -> Nat]
    /\ faults \in [FaultKinds -> Nat]

\* Nothing is published yet; job and outcome hold no live value.
Init ==
    /\ modDir = [m \in Modules |-> "absent"]
    /\ verDir = [o \in Objects |-> "absent"]
    /\ entry = [o \in Objects |-> "absent"]
    /\ content = [o \in Objects |-> None]
    /\ flushed = [o \in Objects |-> FALSE]
    /\ pc = [p \in Publishers |-> "idle"]
    /\ job = [p \in Publishers |-> CHOOSE j \in Jobs : TRUE]
    /\ temp = [p \in Publishers |-> None]
    /\ synced = [p \in Publishers |-> FALSE]
    /\ outcome = [p \in Publishers |-> "invalid"]
    /\ acks = {}
    /\ lost = {}
    /\ orphans = {}
    /\ attempts = [p \in Publishers |-> 0]
    /\ faults = [k \in FaultKinds |-> 0]

-----------------------------------------------------------------------------
(* fsync of a directory makes every name in it durable. *)

Persisted(name) == IF name = "visible" THEN "durable" ELSE name

FsyncModulesRoot == modDir' = [m \in Modules |-> Persisted(modDir[m])]

FsyncModuleDir(m) ==
    verDir' = [o \in Objects |-> IF o[1] = m THEN Persisted(verDir[o]) ELSE verDir[o]]

FsyncVersionDir(o) == entry' = [entry EXCEPT ![o] = Persisted(entry[o])]

Goto(p, label) == pc' = [pc EXCEPT ![p] = label]

\* Mutant: the caller is told of success whatever the status.
ReturnUnchecked(p, status) ==
    /\ Goto(p, "idle")
    /\ outcome' = [outcome EXCEPT ![p] = status]
    /\ acks' = acks \cup {[by |-> p, obj |-> job[p].obj,
                          digest |-> job[p].digest, status |-> status]}

\* The call ends with this status; a success becomes a promise to the caller.
Return(p, status) ==
    /\ Goto(p, "idle")
    /\ outcome' = [outcome EXCEPT ![p] = status]
    /\ acks' = IF status \in Successes
               THEN acks \cup {[by |-> p, obj |-> job[p].obj,
                                digest |-> job[p].digest, status |-> status]}
               ELSE acks

\* The call's status is settled, but the finally clause still has to run.
Settle(p, status) ==
    /\ Goto(p, "cleanup")
    /\ outcome' = [outcome EXCEPT ![p] = status]

-----------------------------------------------------------------------------
(* publish(): hash the pinned source; a mismatch ends the call before any  *)
(* directory is made.                                                      *)

Publish(p, o, d) ==
    /\ pc[p] = "idle"
    /\ attempts[p] < MaxAttempts
    /\ attempts' = [attempts EXCEPT ![p] = @ + 1]
    /\ job' = [job EXCEPT ![p] = [obj |-> o, digest |-> d]]
    /\ \/ Goto(p, "walkModule") /\ UNCHANGED outcome
       \/ outcome' = [outcome EXCEPT ![p] = "invalid"] /\ UNCHANGED pc
    /\ UNCHANGED <<fsVars, temp, synced, acks, history, faults>>

(* _directory(create=True): mkdir each component.  Only the process whose  *)
(* mkdir succeeded fsyncs the new directory and its parent; a process that *)
(* finds the name there just opens it.                                     *)

WalkModule(p) ==
    LET m == job[p].obj[1] IN
    /\ pc[p] = "walkModule"
    /\ \/ /\ modDir[m] = "absent"
          /\ modDir' = [modDir EXCEPT ![m] = "visible"]
          /\ Goto(p, "syncModule")
       \/ /\ modDir[m] # "absent"
          /\ Goto(p, "walkVersion")
          /\ UNCHANGED modDir
    /\ UNCHANGED <<verDir, entry, content, flushed, job, temp, synced, outcome,
                   acks, history, attempts, faults>>

SyncModule(p) ==
    /\ pc[p] = "syncModule"
    /\ FsyncModuleDir(job[p].obj[1])
    /\ FsyncModulesRoot
    /\ Goto(p, "walkVersion")
    /\ UNCHANGED <<entry, content, flushed, job, temp, synced, outcome,
                   acks, history, attempts, faults>>

WalkVersion(p) ==
    LET o == job[p].obj IN
    /\ pc[p] = "walkVersion"
    /\ \/ /\ verDir[o] = "absent"
          /\ verDir' = [verDir EXCEPT ![o] = "visible"]
          /\ Goto(p, "syncVersion")
       \/ /\ verDir[o] # "absent"
          /\ Goto(p, "inspect")
          /\ UNCHANGED verDir
    /\ UNCHANGED <<modDir, entry, content, flushed, job, temp, synced, outcome,
                   acks, history, attempts, faults>>

\* Mutant: the new directory is fsynced, but not its parent.
SyncVersionChildOnly(p) ==
    /\ pc[p] = "syncVersion"
    /\ FsyncVersionDir(job[p].obj)
    /\ Goto(p, "inspect")
    /\ UNCHANGED <<modDir, verDir, content, flushed, job, temp, synced, outcome,
                   acks, history, attempts, faults>>

SyncVersion(p) ==
    /\ pc[p] = "syncVersion"
    /\ FsyncVersionDir(job[p].obj)
    /\ FsyncModuleDir(job[p].obj[1])
    /\ Goto(p, "inspect")
    /\ UNCHANGED <<modDir, content, flushed, job, temp, synced, outcome,
                   acks, history, attempts, faults>>

(* _verify_at: the complete digest of what the final name denotes. *)
Verify(o, d) ==
    IF entry[o] = "absent" THEN "missing"
    ELSE IF content[o] = d THEN "match" ELSE "conflict"

(* First look at the final name: an existing match only needs its          *)
(* durability completed, any other bytes refuse the call.                  *)
Inspect(p) ==
    LET found == Verify(job[p].obj, job[p].digest) IN
    /\ pc[p] = "inspect"
    /\ \/ found = "missing" /\ Goto(p, "stage") /\ UNCHANGED <<outcome, acks>>
       \/ found = "match" /\ Goto(p, "syncStored") /\ UNCHANGED <<outcome, acks>>
       \/ found = "conflict" /\ Return(p, "conflict")
    /\ UNCHANGED <<fsVars, job, temp, synced, history, attempts, faults>>

SyncStored(p) ==
    /\ pc[p] = "syncStored"
    /\ flushed' = [flushed EXCEPT ![job[p].obj] = TRUE]
    /\ Goto(p, "syncPresent")
    /\ UNCHANGED <<modDir, verDir, entry, content, job, temp, synced, outcome,
                   acks, history, attempts, faults>>

\* Mutant: an existing match is acknowledged without fsync of its directory.
SyncPresentSkipped(p) ==
    /\ pc[p] = "syncPresent"
    /\ Return(p, "already-present")
    /\ UNCHANGED <<fsVars, job, temp, synced, history, attempts, faults>>

SyncPresent(p) ==
    /\ pc[p] = "syncPresent"
    /\ FsyncVersionDir(job[p].obj)
    /\ Return(p, "already-present")
    /\ UNCHANGED <<modDir, verDir, content, flushed, job, temp, synced,
                   history, attempts, faults>>

(* Copy the pinned source into an exclusive temporary file.  The source's  *)
(* owner may rewrite it after it was hashed, so the copy may be Torn.      *)
Stage(p) ==
    /\ pc[p] = "stage"
    /\ temp' \in {[temp EXCEPT ![p] = b] : b \in {job[p].digest, Torn}}
    /\ synced' = [synced EXCEPT ![p] = FALSE]
    /\ Goto(p, "flush")
    /\ UNCHANGED <<fsVars, job, outcome, acks, history, attempts, faults>>

\* Mutant: the temporary file is not fsynced before it is linked.
FlushSkipped(p) ==
    /\ pc[p] = "flush"
    /\ Goto(p, "check")
    /\ UNCHANGED <<fsVars, job, temp, synced, outcome, acks, history, attempts, faults>>

Flush(p) ==
    /\ pc[p] = "flush"
    /\ synced' = [synced EXCEPT ![p] = TRUE]
    /\ Goto(p, "check")
    /\ UNCHANGED <<fsVars, job, temp, outcome, acks, history, attempts, faults>>

CheckCopy(p) ==
    /\ pc[p] = "check"
    /\ \/ temp[p] = job[p].digest /\ Goto(p, "link") /\ UNCHANGED outcome
       \/ temp[p] # job[p].digest /\ Settle(p, "invalid")
    /\ UNCHANGED <<fsVars, job, temp, synced, acks, history, attempts, faults>>

\* Mutant: os.replace instead of os.link.
LinkReplacing(p) ==
    /\ pc[p] = "link"
    /\ Goto(p, "verifyFinal")
    /\ entry' = [entry EXCEPT ![job[p].obj] = "visible"]
    /\ content' = [content EXCEPT ![job[p].obj] = temp[p]]
    /\ flushed' = [flushed EXCEPT ![job[p].obj] = synced[p]]
    /\ outcome' = [outcome EXCEPT ![p] = "published"]
    /\ UNCHANGED <<modDir, verDir, job, temp, synced, acks, history, attempts, faults>>

\* Mutant: the loser of the link race also reports "published".
LinkLoserPublishes(p) ==
    /\ pc[p] = "link"
    /\ Goto(p, "verifyFinal")
    /\ outcome' = [outcome EXCEPT ![p] = "published"]
    /\ IF entry[job[p].obj] = "absent"
       THEN /\ entry' = [entry EXCEPT ![job[p].obj] = "visible"]
            /\ content' = [content EXCEPT ![job[p].obj] = temp[p]]
            /\ flushed' = [flushed EXCEPT ![job[p].obj] = synced[p]]
       ELSE UNCHANGED <<entry, content, flushed>>
    /\ UNCHANGED <<modDir, verDir, job, temp, synced, acks, history, attempts, faults>>

(* os.link never replaces a name: the loser of a race sees FileExistsError. *)
Link(p) ==
    LET o == job[p].obj IN
    /\ pc[p] = "link"
    /\ Goto(p, "verifyFinal")
    /\ \/ /\ entry[o] = "absent"
          /\ entry' = [entry EXCEPT ![o] = "visible"]
          /\ content' = [content EXCEPT ![o] = temp[p]]
          /\ flushed' = [flushed EXCEPT ![o] = synced[p]]
          /\ outcome' = [outcome EXCEPT ![p] = "published"]
       \/ /\ entry[o] # "absent"
          /\ outcome' = [outcome EXCEPT ![p] = "already-present"]
          /\ UNCHANGED <<entry, content, flushed>>
    /\ UNCHANGED <<modDir, verDir, job, temp, synced, acks, history, attempts, faults>>

VerifyFinal(p) ==
    /\ pc[p] = "verifyFinal"
    /\ \/ /\ Verify(job[p].obj, job[p].digest) = "match"
          /\ Goto(p, "syncFinal")
          /\ UNCHANGED outcome
       \/ /\ Verify(job[p].obj, job[p].digest) # "match"
          /\ Settle(p, "conflict")
    /\ UNCHANGED <<fsVars, job, temp, synced, acks, history, attempts, faults>>

\* Mutant: success is returned without fsync of the version directory.
SyncFinalSkipped(p) ==
    /\ pc[p] = "syncFinal"
    /\ Goto(p, "cleanup")
    /\ UNCHANGED <<fsVars, job, temp, synced, outcome, acks, history, attempts, faults>>

SyncFinal(p) ==
    /\ pc[p] = "syncFinal"
    /\ FsyncVersionDir(job[p].obj)
    /\ Goto(p, "cleanup")
    /\ UNCHANGED <<modDir, verDir, content, flushed, job, temp, synced, outcome,
                   acks, history, attempts, faults>>

(* finally: unlink the temporary name, fsync staging, then return or raise. *)
Cleanup(p) ==
    /\ pc[p] = "cleanup"
    /\ temp' = [temp EXCEPT ![p] = None]
    /\ Return(p, outcome[p])
    /\ UNCHANGED <<fsVars, job, synced, history, attempts, faults>>

-----------------------------------------------------------------------------
Fault(kind) ==
    /\ faults[kind] < MaxFaults[kind]
    /\ faults' = [faults EXCEPT ![kind] = @ + 1]

\* The publisher ends here: a directory it made and has not fsynced stays
\* visible, and nobody else will ever fsync it on purpose.
Abandon(p) ==
    orphans' = orphans \cup (CASE pc[p] = "syncModule"  -> {job[p].obj[1]}
                              [] pc[p] = "syncVersion" -> {job[p].obj}
                              [] OTHER                 -> {})

(* Any system call may fail: the finally clause runs and the caller gets    *)
(* ArtifactStoreError.  Names made so far stay.                             *)
IOError(p) ==
    /\ pc[p] # "idle"
    /\ Fault("error")
    /\ temp' = [temp EXCEPT ![p] = None]
    /\ Return(p, "storage-error")
    /\ Abandon(p)
    /\ UNCHANGED <<fsVars, job, synced, lost, attempts>>

(* SIGKILL: no finally clause; the temporary file stays in .staging under a *)
(* name nobody will use again.                                              *)
Kill(p) ==
    /\ pc[p] # "idle"
    /\ Fault("kill")
    /\ Goto(p, "idle")
    /\ temp' = [temp EXCEPT ![p] = None]
    /\ Abandon(p)
    /\ UNCHANGED <<fsVars, job, synced, outcome, acks, lost, attempts>>

(* Power loss ends every process.  A name survives if it was durable, or    *)
(* happened to be written back, and its directory survives; unflushed bytes *)
(* may come back torn.                                                      *)
PowerLoss ==
    /\ Fault("power")
    /\ \E ms \in SUBSET {m \in Modules : modDir[m] = "visible"},
          vs \in SUBSET {o \in Objects : verDir[o] = "visible"},
          es \in SUBSET {o \in Objects : entry[o] = "visible"},
          ts \in SUBSET {o \in Objects : entry[o] # "absent" /\ ~flushed[o]} :
         LET modKept(m) == modDir[m] = "durable" \/ m \in ms
             verKept(o) == modKept(o[1]) /\ (verDir[o] = "durable" \/ o \in vs)
             kept(o)    == verKept(o) /\ (entry[o] = "durable" \/ o \in es)
         IN  /\ modDir' = [m \in Modules |-> IF modKept(m) THEN "durable" ELSE "absent"]
             /\ verDir' = [o \in Objects |-> IF verKept(o) THEN "durable" ELSE "absent"]
             /\ entry' = [o \in Objects |-> IF kept(o) THEN "durable" ELSE "absent"]
             /\ content' = [o \in Objects |->
                              IF ~kept(o) THEN None
                              ELSE IF o \in ts THEN Torn ELSE content[o]]
             /\ acks' = {a \in acks : kept(a.obj)}
             /\ lost' = lost \cup {a \in acks : ~kept(a.obj)}
    /\ flushed' = [o \in Objects |-> TRUE]   \* what is left is on the disk
    /\ orphans' = {}
    /\ pc' = [p \in Publishers |-> "idle"]
    /\ temp' = [p \in Publishers |-> None]
    /\ UNCHANGED <<job, synced, outcome, attempts>>

Step(p) ==
    \/ WalkModule(p)
    \/ SyncModule(p)
    \/ WalkVersion(p)
    \/ SyncVersion(p)
    \/ Inspect(p)
    \/ SyncStored(p)
    \/ SyncPresent(p)
    \/ Stage(p)
    \/ Flush(p)
    \/ CheckCopy(p)
    \/ Link(p)
    \/ VerifyFinal(p)
    \/ SyncFinal(p)
    \/ Cleanup(p)

Next ==
    \/ \E p \in Publishers :
         \/ \E o \in Objects, d \in Digests : Publish(p, o, d)
         \/ Step(p)
         \/ IOError(p)
         \/ Kill(p)
    \/ PowerLoss

Spec == Init /\ [][Next]_vars

-----------------------------------------------------------------------------
\* What the final name denotes: None or the bound digest.
Stored(o) == IF entry[o] = "absent" THEN None ELSE content[o]

\* The public name never denotes partial bytes or bytes no caller expected,
\* and what it denotes would survive power loss unchanged: link happens only
\* after the copy was fsynced and rehashed.
NoPartialArtifact ==
    \A o \in Objects : entry[o] # "absent" => content[o] \in Digests /\ flushed[o]

\* No step of any publisher replaces or removes a bound version; only power
\* loss may take a name away ("no replace/delete API").
NeverReplaced ==
    [][\A o \in Objects :
          Stored(o) # None =>
            \/ Stored(o)' = Stored(o)
            \/ faults' # faults /\ Stored(o)' = None]_vars

\* A success was returned only for a version whose final name is durable in
\* its directory and denotes the expected bytes, across kills, retries and the
\* power losses it survived.
SuccessIsStored ==
    \A a \in acks : Stored(a.obj) = a.digest /\ entry[a.obj] = "durable"

\* Of publishers racing for one version at most one reports "published"; a
\* second one may only after a power loss took back what the first was told.
OnePublished ==
    \A a, b \in acks :
      a.obj = b.obj /\ a.status = "published" /\ b.status = "published" => a.by = b.by

\* The directory is in the page cache only, and the process that made it has
\* not fsynced it yet or ended without doing so.
ModuleUnsynced(m) ==
    /\ modDir[m] = "visible"
    /\ m \in orphans \/ \E p \in Publishers : pc[p] = "syncModule" /\ job[p].obj[1] = m

VersionUnsynced(o) ==
    /\ verDir[o] = "visible"
    /\ o \in orphans \/ \E p \in Publishers : pc[p] = "syncVersion" /\ job[p].obj = o

\* Power loss takes an acknowledged version back in one case only: somebody
\* else made its module or version directory and had not fsynced it, because
\* it was slower, killed or failed.  A publisher's own mkdir, link and fsyncs
\* leave no other window.
LostOnlyUnsynced ==
    [][\A a \in lost' \ lost : ModuleUnsynced(a.obj[1]) \/ VersionUnsynced(a.obj)]_vars

\* What a caller was told is stored stays stored, power loss included: a failed
\* publish raises "callers must not assume durable publication", so a success
\* may be assumed durable, and a retry is to "complete durability".
SuccessSurvives == lost = {}

\* A success is settled once both directories have reached the disk.
Settled(a) == modDir[a.obj[1]] = "durable" /\ verDir[a.obj] = "durable"

Abstract ==
    INSTANCE ImmutableStore
    WITH bound <- [o \in Objects |-> Stored(o)],
         promised <- {<<a.obj, a.digest>> : a \in {b \in acks : Settled(b)}}

\* The filesystem protocol implements the immutable store: every step binds an
\* unbound version, promises what it is bound to, or loses bindings without a
\* promise, where a success becomes a promise with its directories' fsync.
ImplementsImmutableStore == Abstract!Spec
=============================================================================
