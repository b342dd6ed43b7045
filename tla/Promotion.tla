------------------------------- MODULE Promotion -------------------------------
(***************************************************************************)
(* RegistryPromotionService.promote (web/backend/app/registry_promotion.py) *)
(* run by several promoters at once: reviewed evidence, then bytes in the  *)
(* artifact store, then one READ COMMITTED transaction.  The store is the  *)
(* abstract ImmutableStore, which keeps its promises: the power loss in    *)
(* which ArtifactStore does not is that module's.  PostgreSQL contributes  *)
(* the advisory lock on the idempotency key, the module row lock, the KEY  *)
(* SHARE locks foreign keys take on the modules a version requires, and    *)
(* atomic commit.                                                          *)
(*                                                                         *)
(* A version is its SemVer precedence, a number.  A bundle embeds its      *)
(* module and version, so no digest is shared by two objects and the       *)
(* artifacts table never has to arbitrate.                                 *)
(***************************************************************************)
EXTENDS Integers, FiniteSets, Sequences

CONSTANTS
    Promoters,    \* concurrent runs of the promotion CLI
    Modules,      \* module identifiers named by intents
    Registered,   \* the modules that have a row in the database
    Versions,     \* SemVer precedences, positive
    Channels,     \* stable, beta, nightly
    Digests,      \* bundle digests
    Keys,         \* idempotency keys
    Requires,     \* Requires[d]: the modules bundle d requires, sorted by id
    Intents,      \* the intents operators may dispatch
    Candidates,   \* Candidates[o]: candidates reviewers may merge for object o
    Imported,     \* Imported[o]: historical [channel, digest], or None
    None,
    MaxAttempts,  \* bound: dispatches of each promoter
    MaxFaults,    \* bound: crashes, lost responses and store crashes
    MaxRevisions  \* bound: later changes of candidates on main

Objects == Modules \X Versions
Pointers == Registered \X Channels
Candidate == [channel : Channels, digest : Digests]

IntentType == [obj : Objects, channel : Channels, digest : Digests, rev : Nat, key : Keys]
VersionRow == [channel : Channels, digest : Digests, promoted : BOOLEAN]
Event == [intent : IntentType, previous : Versions \cup {0}, rev : Nat]

Dependencies(d) == {Requires[d][k] : k \in DOMAIN Requires[d]}

\* The tables are finite: of some versions one is the greatest.
ASSUME PromotionAssumption ==
    /\ Registered \subseteq Modules
    /\ Versions \subseteq Nat \ {0}
    /\ \A S \in SUBSET Versions : S # {} => \E v \in S : \A w \in S : w <= v
    /\ IsFiniteSet(Keys)
    /\ Intents \subseteq IntentType /\ Intents # {}
    /\ Requires \in [Digests -> Seq(Modules)]
    /\ \A i \in Intents : i.obj[1] \notin Dependencies(i.digest)
    /\ Candidates \in [Objects -> SUBSET Candidate]
    /\ Imported \in [Objects -> Candidate \cup {None}]
    /\ \A o \in Objects : Imported[o] # None => o[1] \in Registered
    /\ None \notin Candidate \cup Digests \cup Promoters \cup VersionRow \cup Event
    /\ MaxAttempts \in [Promoters -> Nat] /\ MaxFaults \in Nat /\ MaxRevisions \in Nat

VARIABLES
    onMain,     \* the reviewed candidate of each object on main, or None
    bound,      \* artifact store: digest behind each object's name, or None
    promised,   \* artifact store: acknowledged <<object, digest>> pairs
    versions,   \* module_versions: [channel, digest, promoted], or None
    pointers,   \* module_channels: [version, rev]; rev 0 means no row
    events,     \* promotion_events by key: [intent, previous, rev], or None
    keyLock,    \* holder of the advisory lock on each key, or None
    moduleLock, \* holder of each module row's FOR UPDATE lock, or None
    shared,     \* holders of each module row's KEY SHARE lock
    pc,         \* what each promoter does next
    intent,     \* the intent it promotes
    seen,       \* the versions its v1 projection read
    response,   \* what its operator was told last
    acks,       \* every success told to an operator: [intent, rev]
    attempts, mishaps, revisions

storeVars == <<bound, promised>>
dbVars == <<versions, pointers, events>>
lockVars == <<keyLock, moduleLock, shared>>
counters == <<attempts, mishaps, revisions>>
vars == <<onMain, storeVars, dbVars, lockVars, pc, intent, seen, response, acks, counters>>

Store == INSTANCE ImmutableStore

Labels == {"idle", "publish", "verify", "lockKey", "lockModule", "decide",
           "depend", "project", "guard", "commit"}
InTransaction == {"lockModule", "decide", "depend", "project", "guard", "commit"}

\* One type invariant: store, database rows, locks and promoters.
TypeOK ==
    /\ onMain \in [Objects -> Candidate \cup {None}]
    /\ bound \in [Objects -> Digests \cup {None}]
    /\ promised \subseteq Objects \X Digests
    /\ versions \in [Objects -> VersionRow \cup {None}]
    /\ pointers \in [Pointers -> [version : Versions \cup {0}, rev : Nat]]
    /\ events \in [Keys -> Event \cup {None}]
    /\ keyLock \in [Keys -> Promoters \cup {None}]
    /\ moduleLock \in [Registered -> Promoters \cup {None}]
    /\ shared \in [Registered -> SUBSET Promoters]
    /\ pc \in [Promoters -> Labels]
    /\ intent \in [Promoters -> IntentType]
    /\ seen \in [Promoters -> [Objects -> VersionRow \cup {None}]]
    /\ response \in [Promoters -> {"none", "published", "already-published",
                                   "conflict", "error"}]
    /\ acks \subseteq [intent : IntentType, rev : Nat]
    /\ attempts \in [Promoters -> Nat] /\ mishaps \in Nat /\ revisions \in Nat

-----------------------------------------------------------------------------
(* build_index: a channel selects the greatest version published to it. *)

Published(vs, m, c) == {v \in Versions : vs[<<m, v>>] # None /\ vs[<<m, v>>].channel = c}

Selected(vs, m, c) ==
    LET found == Published(vs, m, c) IN
    IF found = {} THEN 0 ELSE CHOOSE v \in found : \A w \in found : w <= v

(* validate_v1_representability: pointers are exactly v1's selection. *)
Representable(vs, ps) ==
    \A x \in Pointers : ps[x].version = Selected(vs, x[1], x[2])

ImportedRow(o) ==
    IF Imported[o] = None THEN None
    ELSE [channel |-> Imported[o].channel, digest |-> Imported[o].digest, promoted |-> FALSE]

\* The database right after the historical import: pointers at revision 1.
Init ==
    /\ onMain = [o \in Objects |-> IF Candidates[o] = {} THEN None
                                   ELSE CHOOSE c \in Candidates[o] : TRUE]
    /\ bound = [o \in Objects |-> None]
    /\ promised = {}
    /\ versions = [o \in Objects |-> ImportedRow(o)]
    /\ pointers = [x \in Pointers |->
                     LET v == Selected(versions, x[1], x[2]) IN
                     [version |-> v, rev |-> IF v = 0 THEN 0 ELSE 1]]
    /\ events = [k \in Keys |-> None]
    /\ keyLock = [k \in Keys |-> None]
    /\ moduleLock = [m \in Registered |-> None]
    /\ shared = [m \in Registered |-> {}]
    /\ pc = [p \in Promoters |-> "idle"]
    /\ intent = [p \in Promoters |-> CHOOSE i \in Intents : TRUE]
    /\ seen = [p \in Promoters |-> versions]
    /\ response = [p \in Promoters |-> "none"]
    /\ acks = {}
    /\ attempts = [p \in Promoters |-> 0]
    /\ mishaps = 0
    /\ revisions = 0

-----------------------------------------------------------------------------
Goto(p, label) == pc' = [pc EXCEPT ![p] = label]

Respond(p, answer) ==
    /\ Goto(p, "idle")
    /\ response' = [response EXCEPT ![p] = answer]

\* Mutant: the advisory lock is taken for the session, not the transaction.
UnlockModuleOnly(p) ==
    /\ moduleLock' = [m \in Registered |-> IF moduleLock[m] = p THEN None ELSE moduleLock[m]]
    /\ shared' = [m \in Registered |-> shared[m] \ {p}]
    /\ UNCHANGED keyLock

\* The transaction ends, either way: all its locks are released.
Unlock(p) ==
    /\ keyLock' = [k \in Keys |-> IF keyLock[k] = p THEN None ELSE keyLock[k]]
    /\ moduleLock' = [m \in Registered |-> IF moduleLock[m] = p THEN None ELSE moduleLock[m]]
    /\ shared' = [m \in Registered |-> shared[m] \ {p}]

Rollback(p) ==
    /\ Unlock(p)
    /\ Respond(p, "conflict")
    /\ UNCHANGED <<dbVars, acks>>

\* Mutant: the transaction is opened before the bytes are published.
PromoteBeforeBytes(p, i) ==
    /\ pc[p] = "idle"
    /\ attempts[p] < MaxAttempts[p]
    /\ attempts' = [attempts EXCEPT ![p] = @ + 1]
    /\ intent' = [intent EXCEPT ![p] = i]
    /\ onMain[i.obj] = [channel |-> i.channel, digest |-> i.digest]
    /\ Goto(p, "lockKey")
    /\ response' = [response EXCEPT ![p] = "none"]
    /\ UNCHANGED <<onMain, storeVars, dbVars, lockVars, seen, acks, mishaps, revisions>>

(* Load the reviewed candidate from main and compare it with the intent;   *)
(* nothing is written when it does not match.                              *)
Promote(p, i) ==
    /\ pc[p] = "idle"
    /\ attempts[p] < MaxAttempts[p]
    /\ attempts' = [attempts EXCEPT ![p] = @ + 1]
    /\ intent' = [intent EXCEPT ![p] = i]
    /\ \/ /\ onMain[i.obj] = [channel |-> i.channel, digest |-> i.digest]
          /\ Goto(p, "publish")
          /\ response' = [response EXCEPT ![p] = "none"]
       \/ /\ onMain[i.obj] # [channel |-> i.channel, digest |-> i.digest]
          /\ Respond(p, "conflict")
    /\ UNCHANGED <<onMain, storeVars, dbVars, lockVars, seen, acks, mishaps, revisions>>

(* store.publish: binds the version, finds it bound, or meets other bytes. *)
PublishBytes(p) ==
    LET o == intent[p].obj
        d == intent[p].digest
    IN
    /\ pc[p] = "publish"
    /\ \/ Store!Bind(o, d) /\ Goto(p, "verify") /\ UNCHANGED response
       \/ bound[o] = d /\ Goto(p, "verify") /\ UNCHANGED <<storeVars, response>>
       \/ bound[o] \notin {None, d} /\ Respond(p, "conflict") /\ UNCHANGED storeVars
    /\ UNCHANGED <<onMain, dbVars, lockVars, intent, seen, acks, counters>>

(* publish returns and store.verify rehashes the stored bytes. *)
VerifyBytes(p) ==
    /\ pc[p] = "verify"
    /\ Store!Promise({<<intent[p].obj, intent[p].digest>>})
    /\ Goto(p, "lockKey")
    /\ UNCHANGED <<onMain, dbVars, lockVars, intent, seen, response, acks, counters>>

LockKey(p) ==
    /\ pc[p] = "lockKey"
    /\ keyLock[intent[p].key] = None
    /\ keyLock' = [keyLock EXCEPT ![intent[p].key] = p]
    /\ Goto(p, "lockModule")
    /\ UNCHANGED <<onMain, storeVars, dbVars, moduleLock, shared, intent, seen,
                   response, acks, counters>>

\* Mutant: the module row is read without FOR UPDATE.
LockModuleSkipped(p) ==
    /\ pc[p] = "lockModule"
    /\ intent[p].obj[1] \in Registered
    /\ Goto(p, "decide")
    /\ UNCHANGED <<onMain, storeVars, dbVars, lockVars, intent, seen, response, acks, counters>>

(* SELECT ... FOR UPDATE waits for every other lock on the row; a module   *)
(* without a row ends the transaction.                                     *)
LockModule(p) ==
    LET m == intent[p].obj[1] IN
    /\ pc[p] = "lockModule"
    /\ \/ /\ m \notin Registered
          /\ Rollback(p)
       \/ /\ m \in Registered
          /\ moduleLock[m] = None /\ shared[m] = {}
          /\ moduleLock' = [moduleLock EXCEPT ![m] = p]
          /\ Goto(p, "decide")
          /\ UNCHANGED <<keyLock, shared, dbVars, response, acks>>
    /\ UNCHANGED <<onMain, storeVars, intent, seen, counters>>

\* The release row promote() inserts.
NewRow(i) == [channel |-> i.channel, digest |-> i.digest, promoted |-> TRUE]

Pointer(i) == <<i.obj[1], i.channel>>

\* Mutant: any committed event of the key counts as a retry.
DecideByKey(p) ==
    LET i == intent[p] IN
    /\ pc[p] = "decide"
    /\ \/ /\ events[i.key] # None
          /\ Unlock(p)
          /\ Respond(p, "already-published")
          /\ acks' = acks \cup {[intent |-> i, rev |-> events[i.key].rev]}
       \/ /\ events[i.key] = None
          /\ Goto(p, "project")
          /\ UNCHANGED <<lockVars, response, acks>>
    /\ UNCHANGED <<onMain, storeVars, dbVars, intent, seen, counters>>

\* Mutant: a retry points the channel at its version again.
DecideRepoints(p) ==
    LET i == intent[p] IN
    /\ pc[p] = "decide"
    /\ \/ /\ events[i.key] # None /\ events[i.key].intent = i
          /\ Unlock(p)
          /\ Respond(p, "already-published")
          /\ pointers' = [pointers EXCEPT ![Pointer(i)].version = i.obj[2]]
       \/ /\ events[i.key] = None
          /\ pointers[Pointer(i)].rev = i.rev
          /\ versions[i.obj] = None
          /\ Goto(p, "project")
          /\ UNCHANGED <<lockVars, response, pointers>>
    /\ UNCHANGED <<onMain, storeVars, versions, events, intent, seen, acks, counters>>

\* Mutant: the version's owner is looked up before the key's event.
DecideOwnerFirst(p) ==
    LET i == intent[p] IN
    /\ pc[p] = "decide"
    /\ \/ /\ \E k \in Keys : events[k] # None /\ events[k].intent.obj = i.obj
          /\ Rollback(p)
       \/ /\ events[i.key] = None
          /\ pointers[Pointer(i)].rev = i.rev
          /\ versions[i.obj] = None
          /\ Goto(p, "project")
          /\ UNCHANGED <<lockVars, dbVars, response, acks>>
    /\ UNCHANGED <<onMain, storeVars, intent, seen, counters>>

(* Everything read under the module lock: the committed event of the key,  *)
(* an event that owns the version, the channel revision and the version.   *)
Decide(p) ==
    LET i == intent[p]
        event == events[i.key]
        owned == \E k \in Keys : events[k] # None /\ events[k].intent.obj = i.obj
    IN
    /\ pc[p] = "decide"
    /\ \/ /\ event # None /\ event.intent = i /\ versions[i.obj] = NewRow(i)
          /\ Unlock(p)
          /\ Respond(p, "already-published")
          /\ acks' = acks \cup {[intent |-> i, rev |-> event.rev]}
          /\ UNCHANGED dbVars
       \/ /\ event # None /\ ~(event.intent = i /\ versions[i.obj] = NewRow(i))
          /\ Rollback(p)
       \/ /\ event = None
          /\ \/ owned
             \/ pointers[Pointer(i)].rev # i.rev
             \/ versions[i.obj] # None
             \/ ~(Dependencies(i.digest) \subseteq Registered)
          /\ Rollback(p)
       \/ /\ event = None
          /\ ~owned
          /\ pointers[Pointer(i)].rev = i.rev
          /\ versions[i.obj] = None
          /\ Dependencies(i.digest) \subseteq Registered
          /\ Goto(p, "depend")
          /\ UNCHANGED <<lockVars, dbVars, response, acks>>
    /\ UNCHANGED <<onMain, storeVars, intent, seen, counters>>

\* Dependency rows whose foreign key has not been checked yet, first of them.
Unchecked(p) ==
    LET required == Requires[intent[p].digest] IN
    {k \in DOMAIN required : p \notin shared[required[k]]}

NextDependencies(p) ==
    {Requires[intent[p].digest][k] : k \in {k \in Unchecked(p) : \A j \in Unchecked(p) : k <= j}}

(* The INSERT of the dependency rows, in sorted order: each foreign key    *)
(* check takes KEY SHARE on the required module's row, which waits for a   *)
(* promotion of that module.                                               *)
Depend(p) ==
    /\ pc[p] = "depend"
    /\ \/ /\ Unchecked(p) = {}
          /\ Goto(p, "project")
          /\ UNCHANGED shared
       \/ \E m \in NextDependencies(p) :
            /\ moduleLock[m] = None
            /\ shared' = [shared EXCEPT ![m] = @ \cup {p}]
            /\ UNCHANGED pc
    /\ UNCHANGED <<onMain, storeVars, dbVars, keyLock, moduleLock, intent, seen,
                   response, acks, counters>>

\* The uncommitted rows of p on top of what is committed.
WithOwnVersion(p, vs) == [vs EXCEPT ![intent[p].obj] = NewRow(intent[p])]

\* Mutant: the revision is decremented.
PointerCountsDown(p, ps) ==
    [ps EXCEPT ![Pointer(intent[p])] = [version |-> intent[p].obj[2], rev |-> @.rev - 1]]

WithOwnPointer(p, ps) ==
    [ps EXCEPT ![Pointer(intent[p])] = [version |-> intent[p].obj[2], rev |-> @.rev + 1]]

(* After the flush: project_v1 and channel_targets are separate statements, *)
(* so another module's commit may fall between the two reads.               *)
Project(p) ==
    /\ pc[p] = "project"
    /\ seen' = [seen EXCEPT ![p] = WithOwnVersion(p, versions)]
    /\ Goto(p, "guard")
    /\ UNCHANGED <<onMain, storeVars, dbVars, lockVars, intent, response, acks, counters>>

\* Mutant: the future state is committed without the v1 check.
GuardSkipped(p) ==
    /\ pc[p] = "guard"
    /\ Goto(p, "commit")
    /\ UNCHANGED <<onMain, storeVars, dbVars, lockVars, intent, seen, response, acks, counters>>

Guard(p) ==
    LET fits == Representable(seen[p], WithOwnPointer(p, pointers)) IN
    /\ pc[p] = "guard"
    /\ \/ /\ fits
          /\ Goto(p, "commit")
          /\ UNCHANGED <<lockVars, dbVars, response, acks>>
       \/ ~fits /\ Rollback(p)
    /\ UNCHANGED <<onMain, storeVars, intent, seen, counters>>

\* Version, pointer and audit event become visible together.
Apply(p) ==
    LET i == intent[p] IN
    /\ versions' = WithOwnVersion(p, versions)
    /\ pointers' = WithOwnPointer(p, pointers)
    /\ events' = [events EXCEPT ![i.key] =
                    [intent |-> i, previous |-> pointers[Pointer(i)].version,
                     rev |-> pointers[Pointer(i)].rev + 1]]

Commit(p) ==
    /\ pc[p] = "commit"
    /\ Apply(p)
    /\ Unlock(p)
    /\ Respond(p, "published")
    /\ acks' = acks \cup {[intent |-> intent[p], rev |-> pointers[Pointer(intent[p])].rev + 1]}
    /\ UNCHANGED <<onMain, storeVars, intent, seen, counters>>

\* The transactions p waits for.
Blockers(p) ==
    LET m == intent[p].obj[1] IN
    CASE pc[p] = "lockKey" -> {keyLock[intent[p].key]} \ {None}
      [] pc[p] = "lockModule" /\ m \in Registered -> ({moduleLock[m]} \ {None}) \cup shared[m]
      [] pc[p] = "depend" -> {moduleLock[n] : n \in NextDependencies(p)} \ {None}
      [] OTHER -> {}

(* PostgreSQL's detector aborts a transaction that is on a cycle of waits:  *)
(* the module locks have no order among themselves, so promotions of        *)
(* modules that require each other can meet crosswise.                      *)
Deadlock(p) ==
    /\ \E cycle \in SUBSET Promoters : \E waitsFor \in [cycle -> cycle] :
         /\ p \in cycle
         /\ \A q \in cycle : waitsFor[q] \in Blockers(q)
         /\ {waitsFor[q] : q \in cycle} = cycle
    /\ Unlock(p)
    /\ Respond(p, "error")
    /\ UNCHANGED <<onMain, storeVars, dbVars, intent, seen, acks, counters>>

-----------------------------------------------------------------------------
Mishap == mishaps < MaxFaults /\ mishaps' = mishaps + 1

(* The commit took effect but its acknowledgement never arrived. *)
CommitLost(p) ==
    /\ pc[p] = "commit"
    /\ Mishap
    /\ Apply(p)
    /\ Unlock(p)
    /\ Respond(p, "error")
    /\ UNCHANGED <<onMain, storeVars, intent, seen, acks, attempts, revisions>>

(* The process or its connection dies: PostgreSQL rolls back. *)
Crash(p) ==
    /\ pc[p] # "idle"
    /\ Mishap
    /\ Unlock(p)
    /\ Respond(p, "error")
    /\ UNCHANGED <<onMain, storeVars, dbVars, intent, seen, acks, attempts, revisions>>

(* The promoter host loses power: every promoter dies and the store may    *)
(* lose bindings nobody was told about.                                    *)
HostCrash ==
    /\ Mishap
    /\ \E lost \in SUBSET {o \in Objects : bound[o] # None} : Store!Forget(lost, {})
    /\ pc' = [p \in Promoters |-> "idle"]
    /\ response' = [p \in Promoters |-> IF pc[p] = "idle" THEN response[p] ELSE "error"]
    /\ keyLock' = [k \in Keys |-> None]
    /\ moduleLock' = [m \in Registered |-> None]
    /\ shared' = [m \in Registered |-> {}]
    /\ UNCHANGED <<onMain, dbVars, intent, seen, acks, attempts, revisions>>

(* Reviewers merge another candidate for an object. *)
ReviseCandidate(o, c) ==
    /\ revisions < MaxRevisions
    /\ c # onMain[o]
    /\ onMain' = [onMain EXCEPT ![o] = c]
    /\ revisions' = revisions + 1
    /\ UNCHANGED <<storeVars, dbVars, lockVars, pc, intent, seen, response, acks,
                   attempts, mishaps>>

Step(p) ==
    \/ PublishBytes(p)
    \/ VerifyBytes(p)
    \/ LockKey(p)
    \/ LockModule(p)
    \/ Decide(p)
    \/ Depend(p)
    \/ Project(p)
    \/ Guard(p)
    \/ Commit(p)
    \/ Deadlock(p)

Next ==
    \/ \E p \in Promoters :
         \/ \E i \in Intents : Promote(p, i)
         \/ Step(p)
         \/ CommitLost(p)
         \/ Crash(p)
    \/ HostCrash
    \/ \E o \in Objects : \E c \in Candidates[o] : ReviseCandidate(o, c)

Spec == Init /\ [][Next]_vars

\* A promotion that can continue does: it waits for nothing but locks, and
\* PostgreSQL looks for deadlocks among the transactions that wait.
FairSpec == Spec /\ \A p \in Promoters : WF_vars(Step(p))

-----------------------------------------------------------------------------
\* No promoted version is visible before its bytes are durably stored under
\* its name ("No connection/DB transaction may precede durable publication").
BytesBeforeMetadata ==
    \A o \in Objects :
      versions[o] # None /\ versions[o].promoted =>
        /\ bound[o] = versions[o].digest
        /\ <<o, versions[o].digest>> \in promised

\* In every committed state the channel pointers are what a v1 client selects,
\* although the guard reads versions and pointers in two statements.
ChannelsFollowV1 == Representable(versions, pointers)

\* Audit and data agree: each promoted version has exactly one event, which
\* records its digest; and a pointer's revision counts its promotions, so no
\* concurrent promotion of the channel was lost.
AuditMatchesData ==
    /\ \A o \in Objects :
         LET owners == {k \in Keys : events[k] # None /\ events[k].intent.obj = o} IN
         IF versions[o] # None /\ versions[o].promoted
         THEN \E k \in owners : owners = {k} /\ NewRow(events[k].intent) = versions[o]
         ELSE owners = {}
    /\ \A x \in Pointers :
         pointers[x].rev =
           Cardinality({k \in Keys : events[k] # None /\ Pointer(events[k].intent) = x})
           + (IF \E o \in Objects : o[1] = x[1] /\ Imported[o] # None /\ Imported[o].channel = x[2]
              THEN 1 ELSE 0)

\* All successes told to operators for one key describe one committed event.
RetriesAgree ==
    \A a \in acks :
      /\ events[a.intent.key] # None
      /\ events[a.intent.key].intent = a.intent
      /\ events[a.intent.key].rev = a.rev

\* A step never edits or removes a published version or an event, and moves a
\* pointer only forward, one revision at a time: a late retry of an older
\* promotion never rewinds the channel.
HistoryOnlyGrows ==
    [][/\ \A o \in Objects : versions[o] # None => versions'[o] = versions[o]
       /\ \A k \in Keys : events[k] # None => events'[k] = events[k]
       /\ \A x \in Pointers :
            pointers'[x] # pointers[x] =>
              /\ pointers'[x].rev = pointers[x].rev + 1
              /\ pointers'[x].version > pointers[x].version]_vars

\* Repeating a committed intent, with its candidate still on main, is never
\* answered with a conflict, whatever happened to the channel since.
CommittedRetryAccepted ==
    [][\A p \in Promoters :
         LET i == intent'[p] IN
         /\ response'[p] = "conflict" /\ (response[p] # "conflict" \/ attempts'[p] # attempts[p])
         /\ onMain[i.obj] = [channel |-> i.channel, digest |-> i.digest]
         => events[i.key] = None \/ events[i.key].intent # i]_vars

\* Every dispatched promotion is answered: no lock is ever leaked, the order
\* key, then module, closes no cycle, and a cycle of promotions whose versions
\* require each other's modules costs one of them an error, not all their time.
EveryPromotionEnds == \A p \in Promoters : pc[p] # "idle" ~> pc[p] = "idle"
=============================================================================
