--------------------------- MODULE PromotionProofs ---------------------------
(***************************************************************************)
(* Machine-checked facts about Promotion, for any promoters, modules,      *)
(* versions, intents, faults and candidate revisions.                      *)
(***************************************************************************)
EXTENDS Promotion, FiniteSetTheorems, TLAPS

ModuleOf(p) == intent[p].obj[1]

\* The store keeps what it acknowledged, and a promoter past its publication
\* still finds its bytes there.
BytesReady ==
    /\ \A o \in Objects, d \in Digests : <<o, d>> \in promised => bound[o] = d
    /\ \A p \in Promoters :
         /\ pc[p] = "verify" => bound[intent[p].obj] = intent[p].digest
         /\ pc[p] \in {"lockKey"} \cup InTransaction =>
              <<intent[p].obj, intent[p].digest>> \in promised

\* Which locks a transaction holds at each of its statements.
LocksHeld ==
    \A p \in Promoters :
      /\ pc[p] \in InTransaction => keyLock[intent[p].key] = p
      /\ pc[p] \in InTransaction \ {"lockModule"} =>
           ModuleOf(p) \in Registered /\ moduleLock[ModuleOf(p)] = p

\* What Decide found out stays true until the transaction ends.
Decided ==
    \A p \in Promoters :
      pc[p] \in {"depend", "project", "guard", "commit"} =>
        /\ events[intent[p].key] = None
        /\ \A k \in Keys : events[k] # None => events[k].intent.obj # intent[p].obj
        /\ versions[intent[p].obj] = None

\* What the v1 guard read of its own module is still committed, although
\* other modules may have moved on; past the guard the module's pointers fit.
Guarded ==
    \A p \in Promoters :
      /\ pc[p] \in {"guard", "commit"} =>
           \A v \in Versions :
             seen[p][<<ModuleOf(p), v>>] = WithOwnVersion(p, versions)[<<ModuleOf(p), v>>]
      /\ pc[p] = "commit" =>
           \A c \in Channels :
             WithOwnPointer(p, pointers)[<<ModuleOf(p), c>>].version
               = Selected(seen[p], ModuleOf(p), c)

EventsRegistered ==
    \A k \in Keys : events[k] # None => events[k].intent.obj[1] \in Registered

\* The inductive invariant behind the safety properties.
Inv ==
    /\ TypeOK
    /\ BytesReady
    /\ LocksHeld
    /\ Decided
    /\ Guarded
    /\ EventsRegistered
    /\ BytesBeforeMetadata
    /\ ChannelsFollowV1
    /\ AuditMatchesData
    /\ RetriesAgree

-----------------------------------------------------------------------------
(* build_index. *)

\* A channel with versions selects one of them, none being greater.
LEMMA SelectedIsGreatest ==
    ASSUME NEW vs, NEW m, NEW c
    PROVE  /\ Published(vs, m, c) = {} => Selected(vs, m, c) = 0
           /\ Published(vs, m, c) # {} =>
                /\ Selected(vs, m, c) \in Published(vs, m, c)
                /\ \A w \in Published(vs, m, c) : w <= Selected(vs, m, c)
           /\ Selected(vs, m, c) \in Versions \cup {0}
<1> DEFINE found == Published(vs, m, c)
<1>1. found \subseteq Versions
  BY DEF Published
<1>2. found # {} => \E v \in found : \A w \in found : w <= v
  BY <1>1, PromotionAssumption
<1>3. found # {} => /\ Selected(vs, m, c) \in found
                    /\ \A w \in found : w <= Selected(vs, m, c)
  <2> HIDE DEF found
  <2> QED
    BY <1>2 DEF Selected, found
<1> QED
  BY <1>1, <1>3 DEF Selected

\* The selection of a module depends on that module's rows only.
LEMMA SelectedLocal ==
    ASSUME NEW vs, NEW ws, NEW m, NEW c,
           \A v \in Versions : vs[<<m, v>>] = ws[<<m, v>>]
    PROVE  Selected(vs, m, c) = Selected(ws, m, c)
<1>1. Published(vs, m, c) = Published(ws, m, c)
  BY DEF Published
<1> QED
  BY <1>1 DEF Selected

-----------------------------------------------------------------------------
(* The initial state: the historical import. *)

LEMMA IntentOf ==
    ASSUME TypeOK, NEW p \in Promoters
    PROVE  /\ intent[p] \in IntentType
           /\ intent[p].obj \in Objects
           /\ intent[p].obj = <<ModuleOf(p), intent[p].obj[2]>>
           /\ ModuleOf(p) \in Modules
           /\ intent[p].obj[2] \in Versions
           /\ intent[p].channel \in Channels
           /\ intent[p].digest \in Digests
           /\ intent[p].rev \in Nat
           /\ intent[p].key \in Keys
           /\ NewRow(intent[p]) \in VersionRow
           /\ NewRow(intent[p]) # None
           /\ ModuleOf(p) \in Registered => Pointer(intent[p]) \in Pointers
<1>1. intent[p] \in IntentType
  BY DEF TypeOK
<1>2. /\ intent[p].obj \in Objects /\ intent[p].channel \in Channels
      /\ intent[p].digest \in Digests /\ intent[p].rev \in Nat /\ intent[p].key \in Keys
  BY <1>1 DEF IntentType
<1>3. /\ ModuleOf(p) \in Modules /\ intent[p].obj[2] \in Versions
      /\ intent[p].obj = <<ModuleOf(p), intent[p].obj[2]>>
  BY <1>2 DEF Objects, ModuleOf
<1>4. NewRow(intent[p]) \in VersionRow
  BY <1>2 DEF NewRow, VersionRow
<1>5. NewRow(intent[p]) # None
  BY <1>4, PromotionAssumption
<1>6. ModuleOf(p) \in Registered => Pointer(intent[p]) \in Pointers
  BY <1>2 DEF Pointer, Pointers, ModuleOf
<1> QED
  BY <1>1, <1>2, <1>3, <1>4, <1>5, <1>6

LEMMA InitTypeOK == Init => TypeOK
<1> SUFFICES ASSUME Init PROVE TypeOK
  OBVIOUS
<1>1. \A o \in Objects : ImportedRow(o) \in VersionRow \cup {None}
  BY PromotionAssumption DEF ImportedRow, VersionRow, Candidate
<1>2. versions \in [Objects -> VersionRow \cup {None}]
  BY <1>1 DEF Init
<1>3. pointers \in [Pointers -> [version : Versions \cup {0}, rev : Nat]]
  BY SelectedIsGreatest DEF Init
<1>4. intent \in [Promoters -> IntentType]
  BY PromotionAssumption DEF Init
<1>5. onMain \in [Objects -> Candidate \cup {None}]
  BY PromotionAssumption DEF Init
<1>6. /\ bound \in [Objects -> Digests \cup {None}]
      /\ events \in [Keys -> Event \cup {None}]
      /\ keyLock \in [Keys -> Promoters \cup {None}]
      /\ moduleLock \in [Registered -> Promoters \cup {None}]
      /\ shared \in [Registered -> SUBSET Promoters]
      /\ pc \in [Promoters -> Labels]
      /\ seen \in [Promoters -> [Objects -> VersionRow \cup {None}]]
      /\ response \in [Promoters -> {"none", "published", "already-published",
                                     "conflict", "error"}]
      /\ attempts \in [Promoters -> Nat]
  BY <1>2 DEF Init, Labels
<1> QED
  BY <1>2, <1>3, <1>4, <1>5, <1>6 DEF Init, TypeOK

LEMMA InitInv == Init => Inv
<1> SUFFICES ASSUME Init PROVE Inv
  OBVIOUS
<1>1. TypeOK
  BY InitTypeOK
<1>2. BytesReady /\ LocksHeld /\ Decided /\ Guarded /\ EventsRegistered /\ RetriesAgree
  BY DEF Init, BytesReady, LocksHeld, Decided, Guarded, EventsRegistered, RetriesAgree,
         InTransaction
<1>3. \A o \in Objects : versions[o] # None => ~versions[o].promoted
  BY DEF Init, ImportedRow
<1>4. BytesBeforeMetadata
  BY <1>3 DEF BytesBeforeMetadata
<1>5. ChannelsFollowV1
  BY DEF Init, ChannelsFollowV1, Representable
<1>6. ASSUME NEW x \in Pointers
      PROVE  pointers[x].rev =
               IF \E o \in Objects : o[1] = x[1] /\ Imported[o] # None /\ Imported[o].channel = x[2]
               THEN 1 ELSE 0
  <2>1. x[1] \in Modules
    BY PromotionAssumption DEF Pointers
  <2>2. ASSUME NEW v \in Versions
        PROVE  /\ <<x[1], v>> \in Objects
               /\ v \in Published(versions, x[1], x[2]) <=>
                    Imported[<<x[1], v>>] # None /\ Imported[<<x[1], v>>].channel = x[2]
    <3>1. <<x[1], v>> \in Objects
      BY <2>1 DEF Objects
    <3>2. ImportedRow(<<x[1], v>>) # None <=> Imported[<<x[1], v>>] # None
      <4>1. Imported[<<x[1], v>>] # None => ImportedRow(<<x[1], v>>) \in VersionRow
        BY <3>1, PromotionAssumption DEF ImportedRow, VersionRow, Candidate
      <4> QED
        BY <4>1, PromotionAssumption DEF ImportedRow
    <3>3. Imported[<<x[1], v>>] # None =>
            ImportedRow(<<x[1], v>>).channel = Imported[<<x[1], v>>].channel
      BY DEF ImportedRow
    <3> QED
      BY <3>1, <3>2, <3>3 DEF Published, Init
  <2>3. Published(versions, x[1], x[2]) # {} <=>
          \E o \in Objects : o[1] = x[1] /\ Imported[o] # None /\ Imported[o].channel = x[2]
    <3>1. \A o \in Objects : o = <<o[1], o[2]>> /\ o[2] \in Versions
      BY DEF Objects
    <3>2. Published(versions, x[1], x[2]) \subseteq Versions
      BY DEF Published
    <3> QED
      BY <2>2, <3>1, <3>2
  <2>4. Selected(versions, x[1], x[2]) = 0 <=> Published(versions, x[1], x[2]) = {}
    <3>1. Published(versions, x[1], x[2]) \subseteq Versions
      BY DEF Published
    <3>2. 0 \notin Versions
      BY PromotionAssumption
    <3> QED
      BY <3>1, <3>2, SelectedIsGreatest
  <2> QED
    BY <2>3, <2>4 DEF Init
<1>7. AuditMatchesData
  <2>1. \A o \in Objects : {k \in Keys : events[k] # None /\ events[k].intent.obj = o} = {}
    BY DEF Init
  <2>2. \A x \in Pointers :
          Cardinality({k \in Keys : events[k] # None /\ Pointer(events[k].intent) = x}) = 0
    <3>1. \A x \in Pointers : {k \in Keys : events[k] # None /\ Pointer(events[k].intent) = x} = {}
      BY DEF Init
    <3> QED
      BY <3>1, FS_EmptySet
  <2> QED
    BY <1>3, <1>6, <2>1, <2>2 DEF AuditMatchesData
<1> QED
  BY <1>1, <1>2, <1>4, <1>5, <1>7 DEF Inv

-----------------------------------------------------------------------------
(* Types. *)

LEMMA UnlockType ==
    ASSUME TypeOK, NEW p, Unlock(p)
    PROVE  /\ keyLock' \in [Keys -> Promoters \cup {None}]
           /\ moduleLock' \in [Registered -> Promoters \cup {None}]
           /\ shared' \in [Registered -> SUBSET Promoters]
BY DEF TypeOK, Unlock

LEMMA ApplyType ==
    ASSUME TypeOK, NEW p \in Promoters, ModuleOf(p) \in Registered, Apply(p)
    PROVE  /\ versions' \in [Objects -> VersionRow \cup {None}]
           /\ pointers' \in [Pointers -> [version : Versions \cup {0}, rev : Nat]]
           /\ events' \in [Keys -> Event \cup {None}]
<1> DEFINE x == Pointer(intent[p])
<1>1. x \in Pointers /\ pointers[x] \in [version : Versions \cup {0}, rev : Nat]
  BY IntentOf DEF TypeOK
<1>2. versions' \in [Objects -> VersionRow \cup {None}]
  BY IntentOf DEF TypeOK, Apply, WithOwnVersion
<1>3. [version |-> intent[p].obj[2], rev |-> pointers[x].rev + 1]
        \in [version : Versions \cup {0}, rev : Nat]
  BY <1>1, IntentOf
<1>4. pointers' \in [Pointers -> [version : Versions \cup {0}, rev : Nat]]
  BY <1>1, <1>3 DEF TypeOK, Apply, WithOwnPointer
<1>5. [intent |-> intent[p], previous |-> pointers[x].version, rev |-> pointers[x].rev + 1] \in Event
  BY <1>1, IntentOf DEF Event
<1>6. events' \in [Keys -> Event \cup {None}]
  BY <1>5, IntentOf DEF TypeOK, Apply
<1> QED
  BY <1>2, <1>4, <1>6

LEMMA NextTypeOK == TypeOK /\ LocksHeld /\ [Next]_vars => TypeOK'
<1> SUFFICES ASSUME TypeOK, LocksHeld, [Next]_vars PROVE TypeOK'
  OBVIOUS
<1> USE DEF storeVars, dbVars, lockVars, counters
<1>1. ASSUME NEW p \in Promoters, NEW i \in Intents, Promote(p, i) PROVE TypeOK'
  <2>1. i \in IntentType
    BY PromotionAssumption
  <2>2. intent' \in [Promoters -> IntentType] /\ attempts' \in [Promoters -> Nat]
    BY <1>1, <2>1 DEF Promote, TypeOK
  <2>3. /\ pc' \in [Promoters -> Labels]
        /\ response' \in [Promoters -> {"none", "published", "already-published",
                                        "conflict", "error"}]
    BY <1>1 DEF Promote, Goto, Respond, TypeOK, Labels
  <2> QED
    BY <1>1, <2>2, <2>3 DEF Promote, TypeOK
<1>2. ASSUME NEW p \in Promoters, Step(p) PROVE TypeOK'
  <2>1. CASE PublishBytes(p)
    <3>1. bound' \in [Objects -> Digests \cup {None}] /\ promised' \subseteq Objects \X Digests
      BY <2>1, IntentOf DEF PublishBytes, Store!Bind, TypeOK
    <3>2. /\ pc' = [pc EXCEPT ![p] = "verify"] \/ pc' = [pc EXCEPT ![p] = "idle"]
          /\ response' = response \/ response' = [response EXCEPT ![p] = "conflict"]
          /\ UNCHANGED <<onMain, dbVars, lockVars, intent, seen, acks, counters>>
      BY <2>1 DEF PublishBytes, Goto, Respond
    <3> QED
      BY <3>1, <3>2 DEF Labels, TypeOK
  <2>2. CASE VerifyBytes(p)
    BY <2>2, IntentOf DEF VerifyBytes, Store!Promise, Goto, Labels, TypeOK
  <2>3. CASE LockKey(p)
    BY <2>3 DEF LockKey, Goto, Labels, TypeOK
  <2>4. CASE LockModule(p)
    <3>1. /\ keyLock' \in [Keys -> Promoters \cup {None}]
          /\ moduleLock' \in [Registered -> Promoters \cup {None}]
          /\ shared' \in [Registered -> SUBSET Promoters]
      BY <2>4, UnlockType DEF LockModule, Rollback, TypeOK
    <3>2. /\ pc' \in [Promoters -> Labels]
          /\ response' \in [Promoters -> {"none", "published", "already-published",
                                          "conflict", "error"}]
      <4>1. /\ pc' = [pc EXCEPT ![p] = "decide"] \/ pc' = [pc EXCEPT ![p] = "idle"]
            /\ response' = response \/ response' = [response EXCEPT ![p] = "conflict"]
        BY <2>4 DEF LockModule, Rollback, Respond, Goto
      <4>2. pc' \in [Promoters -> Labels]
        BY <4>1 DEF Labels, TypeOK
      <4>3. response' \in [Promoters -> {"none", "published", "already-published",
                                          "conflict", "error"}]
        BY <4>1 DEF TypeOK
      <4> QED
        BY <4>2, <4>3
    <3>3. UNCHANGED <<onMain, storeVars, dbVars, intent, seen, acks, counters>>
      BY <2>4 DEF LockModule, Rollback
    <3> QED
      BY <3>1, <3>2, <3>3 DEF TypeOK
  <2>5. CASE Decide(p)
    <3>1. acks' \subseteq [intent : IntentType, rev : Nat]
      <4>1. events[intent[p].key] # None =>
              [intent |-> intent[p], rev |-> events[intent[p].key].rev]
                 \in [intent : IntentType, rev : Nat]
        BY IntentOf DEF TypeOK, Event
      <4> QED
        BY <2>5, <4>1 DEF Decide, Rollback, TypeOK
    <3>2. /\ keyLock' \in [Keys -> Promoters \cup {None}]
          /\ moduleLock' \in [Registered -> Promoters \cup {None}]
          /\ shared' \in [Registered -> SUBSET Promoters]
      BY <2>5, UnlockType DEF Decide, Rollback, TypeOK
    <3>3. /\ pc' \in [Promoters -> Labels]
          /\ response' \in [Promoters -> {"none", "published", "already-published",
                                          "conflict", "error"}]
      <4>1. /\ pc' = [pc EXCEPT ![p] = "depend"] \/ pc' = [pc EXCEPT ![p] = "idle"]
            /\ \/ response' = response
               \/ response' = [response EXCEPT ![p] = "conflict"]
               \/ response' = [response EXCEPT ![p] = "already-published"]
        BY <2>5 DEF Decide, Rollback, Respond, Goto
      <4>2. pc' \in [Promoters -> Labels]
        BY <4>1 DEF Labels, TypeOK
      <4>3. response' \in [Promoters -> {"none", "published", "already-published",
                                          "conflict", "error"}]
        BY <4>1 DEF TypeOK
      <4> QED
        BY <4>2, <4>3
    <3>4. UNCHANGED <<onMain, storeVars, dbVars, intent, seen, counters>>
      BY <2>5 DEF Decide, Rollback
    <3> QED
      BY <3>1, <3>2, <3>3, <3>4 DEF TypeOK
  <2>6. CASE Project(p)
    <3>1. WithOwnVersion(p, versions) \in [Objects -> VersionRow \cup {None}]
      BY IntentOf DEF WithOwnVersion, TypeOK
    <3> QED
      BY <2>6, <3>1 DEF Project, Goto, Labels, TypeOK
  <2>7. CASE Guard(p)
    BY <2>7, UnlockType DEF Guard, Rollback, Respond, Goto, Labels, TypeOK
  <2>8. CASE Depend(p)
    <3>1. shared' \in [Registered -> SUBSET Promoters]
      BY <2>8 DEF Depend, TypeOK
    <3> QED
      BY <2>8, <3>1 DEF Depend, Goto, Labels, TypeOK
  <2>9. CASE Deadlock(p)
    <3>1. Unlock(p) /\ Respond(p, "error")
          /\ UNCHANGED <<onMain, storeVars, dbVars, intent, seen, acks, counters>>
      BY <2>9 DEF Deadlock
    <3> QED
      BY <3>1, UnlockType DEF Respond, Goto, Labels, TypeOK
  <2>10. CASE Commit(p)
    <3>1. ModuleOf(p) \in Registered
      BY <2>10 DEF Commit, LocksHeld, InTransaction
    <3>2. [intent |-> intent[p], rev |-> pointers[Pointer(intent[p])].rev + 1]
            \in [intent : IntentType, rev : Nat]
      BY <3>1, IntentOf DEF TypeOK
    <3>3. acks' \subseteq [intent : IntentType, rev : Nat]
      BY <2>10, <3>2 DEF Commit, TypeOK
    <3> QED
      BY <2>10, <3>1, <3>3, ApplyType, UnlockType DEF Commit, Respond, Goto, Labels, TypeOK
  <2> QED
    BY <1>2, <2>1, <2>2, <2>3, <2>4, <2>5, <2>6, <2>7, <2>8, <2>9, <2>10 DEF Step
<1>3. ASSUME NEW p \in Promoters, CommitLost(p) PROVE TypeOK'
  <2>1. ModuleOf(p) \in Registered
    BY <1>3 DEF CommitLost, LocksHeld, InTransaction
  <2> QED
    BY <1>3, <2>1, ApplyType, UnlockType DEF CommitLost, Mishap, Respond, Goto, Labels, TypeOK
<1>4. ASSUME NEW p \in Promoters, Crash(p) PROVE TypeOK'
  BY <1>4, UnlockType DEF Crash, Mishap, Respond, Goto, Labels, TypeOK
<1>5. CASE HostCrash
  BY <1>5 DEF HostCrash, Mishap, Store!Forget, Labels, TypeOK
<1>6. ASSUME NEW o \in Objects, NEW c \in Candidates[o], ReviseCandidate(o, c) PROVE TypeOK'
  <2>1. c \in Candidate
    BY PromotionAssumption
  <2> QED
    BY <1>6, <2>1 DEF ReviseCandidate, TypeOK
<1>7. CASE UNCHANGED vars
  BY <1>7 DEF vars, TypeOK
<1> QED
  BY <1>1, <1>2, <1>3, <1>4, <1>5, <1>6, <1>7 DEF Next

-----------------------------------------------------------------------------
(* The steps, by what they do to the database. *)

\* A transaction of p commits.
Commits(p) ==
    /\ pc[p] = "commit"
    /\ Apply(p)
    /\ Unlock(p)
    /\ pc' = [pc EXCEPT ![p] = "idle"]
    /\ UNCHANGED <<onMain, bound, promised, intent, seen>>
    /\ acks' \subseteq
         acks \cup {[intent |-> intent[p], rev |-> pointers[Pointer(intent[p])].rev + 1]}

\* A transaction commits, or the three tables stay as they are.
LEMMA CommitOrQuiet ==
    ASSUME [Next]_vars
    PROVE  UNCHANGED dbVars \/ \E p \in Promoters : Commits(p)
<1> USE DEF storeVars, dbVars, lockVars, counters
<1>1. ASSUME NEW p \in Promoters, NEW i \in Intents, Promote(p, i) PROVE UNCHANGED dbVars
  BY <1>1 DEF Promote
<1>2. ASSUME NEW p \in Promoters, Step(p) PROVE UNCHANGED dbVars \/ Commits(p)
  <2>1. CASE PublishBytes(p) \/ VerifyBytes(p) \/ LockKey(p) \/ LockModule(p) \/ Decide(p)
             \/ Depend(p) \/ Project(p) \/ Guard(p) \/ Deadlock(p)
    BY <2>1 DEF PublishBytes, VerifyBytes, LockKey, LockModule, Decide, Depend, Project, Guard,
                Deadlock, Rollback
  <2>2. CASE Commit(p)
    BY <2>2 DEF Commit, Commits, Respond, Goto
  <2> QED
    BY <1>2, <2>1, <2>2 DEF Step
<1>3. ASSUME NEW p \in Promoters, CommitLost(p) PROVE Commits(p)
  BY <1>3 DEF CommitLost, Commits, Respond, Goto
<1>4. ASSUME NEW p \in Promoters, Crash(p) PROVE UNCHANGED dbVars
  BY <1>4 DEF Crash
<1>5. HostCrash => UNCHANGED dbVars
  BY DEF HostCrash
<1>6. ASSUME NEW o \in Objects, NEW c \in Candidates[o], ReviseCandidate(o, c)
      PROVE  UNCHANGED dbVars
  BY <1>6 DEF ReviseCandidate
<1>7. UNCHANGED vars => UNCHANGED dbVars
  BY DEF vars
<1> QED
  BY <1>1, <1>2, <1>3, <1>4, <1>5, <1>6, <1>7 DEF Next

-----------------------------------------------------------------------------
(* Bytes and locks. *)

LEMMA NextBytesReady ==
    ASSUME TypeOK, BytesReady, [Next]_vars
    PROVE  BytesReady'
<1> USE DEF storeVars, dbVars, lockVars, counters, InTransaction
<1>1. ASSUME NEW p \in Promoters, NEW i \in Intents, Promote(p, i) PROVE BytesReady'
  BY <1>1 DEF Promote, Goto, Respond, BytesReady, TypeOK
<1>2. ASSUME NEW p \in Promoters, Step(p) PROVE BytesReady'
  <2>1. CASE PublishBytes(p)
    <3>1. \A o \in Objects, d \in Digests : bound[o] = d => bound'[o] = d
      BY <2>1, IntentOf, PromotionAssumption DEF PublishBytes, Store!Bind, TypeOK
    <3>2. bound'[intent[p].obj] = intent[p].digest \/ pc'[p] = "idle"
      BY <2>1, IntentOf DEF PublishBytes, Store!Bind, Respond, Goto, TypeOK
    <3>3. pc'[p] \in {"idle", "verify"} /\ \A q \in Promoters \ {p} : pc'[q] = pc[q]
      BY <2>1 DEF PublishBytes, Respond, Goto, TypeOK
    <3>4. promised' = promised /\ intent' = intent
      BY <2>1 DEF PublishBytes, Store!Bind
    <3> QED
      BY <3>1, <3>2, <3>3, <3>4, IntentOf DEF BytesReady
  <2>2. CASE VerifyBytes(p)
    BY <2>2, IntentOf DEF VerifyBytes, Store!Promise, Goto, BytesReady, TypeOK
  <2>3. CASE LockKey(p)
    BY <2>3 DEF LockKey, Goto, BytesReady, TypeOK
  <2>4. CASE LockModule(p)
    BY <2>4 DEF LockModule, Rollback, Respond, Goto, BytesReady, TypeOK
  <2>5. CASE Decide(p)
    BY <2>5 DEF Decide, Rollback, Respond, Goto, BytesReady, TypeOK
  <2>6. CASE Project(p)
    BY <2>6 DEF Project, Goto, BytesReady, TypeOK
  <2>7. CASE Guard(p)
    BY <2>7 DEF Guard, Rollback, Respond, Goto, BytesReady, TypeOK
  <2>8. CASE Commit(p)
    BY <2>8 DEF Commit, Respond, Goto, BytesReady, TypeOK
  <2>9. CASE Depend(p)
    BY <2>9 DEF Depend, Goto, BytesReady, TypeOK
  <2>10. CASE Deadlock(p)
    <3>1. Respond(p, "error") /\ UNCHANGED <<storeVars, intent>>
      BY <2>10 DEF Deadlock
    <3> QED
      BY <3>1 DEF Respond, Goto, BytesReady, TypeOK
  <2> QED
    BY <1>2, <2>1, <2>2, <2>3, <2>4, <2>5, <2>6, <2>7, <2>8, <2>9, <2>10 DEF Step
<1>3. ASSUME NEW p \in Promoters, CommitLost(p) PROVE BytesReady'
  BY <1>3 DEF CommitLost, Respond, Goto, BytesReady, TypeOK
<1>4. ASSUME NEW p \in Promoters, Crash(p) PROVE BytesReady'
  BY <1>4 DEF Crash, Respond, Goto, BytesReady, TypeOK
<1>5. CASE HostCrash
  BY <1>5 DEF HostCrash, Store!Forget, BytesReady, TypeOK
<1>6. ASSUME NEW o \in Objects, NEW c \in Candidates[o], ReviseCandidate(o, c) PROVE BytesReady'
  BY <1>6 DEF ReviseCandidate, BytesReady
<1>7. CASE UNCHANGED vars
  BY <1>7 DEF vars, BytesReady
<1> QED
  BY <1>1, <1>2, <1>3, <1>4, <1>5, <1>6, <1>7 DEF Next

LEMMA NextLocksHeld ==
    ASSUME TypeOK, LocksHeld, [Next]_vars
    PROVE  LocksHeld'
<1> USE PromotionAssumption DEF storeVars, dbVars, lockVars, counters, InTransaction, ModuleOf
<1>1. ASSUME NEW p \in Promoters, NEW i \in Intents, Promote(p, i) PROVE LocksHeld'
  BY <1>1 DEF Promote, Goto, Respond, LocksHeld, TypeOK
\* A transaction that ends takes its own locks with it and no others.
<1>2. ASSUME NEW p \in Promoters, Unlock(p), pc' = [pc EXCEPT ![p] = "idle"], intent' = intent
      PROVE  LocksHeld'
  <2> SUFFICES ASSUME NEW q \in Promoters, q # p PROVE LocksHeld!(q)'
    BY <1>2 DEF LocksHeld, TypeOK
  <2> QED
    BY <1>2, IntentOf DEF Unlock, LocksHeld, TypeOK
<1>3. ASSUME NEW p \in Promoters, Step(p) PROVE LocksHeld'
  <2>1. CASE PublishBytes(p)
    BY <2>1 DEF PublishBytes, Respond, Goto, LocksHeld, TypeOK
  <2>2. CASE VerifyBytes(p)
    BY <2>2 DEF VerifyBytes, Goto, LocksHeld, TypeOK
  <2>3. CASE LockKey(p)
    BY <2>3, IntentOf DEF LockKey, Goto, LocksHeld, TypeOK
  <2>4. CASE LockModule(p)
    <3>1. CASE Rollback(p)
      BY <1>2, <2>4, <3>1 DEF LockModule, Rollback, Respond, Goto
    <3>2. CASE ~Rollback(p)
      BY <2>4, <3>2, IntentOf DEF LockModule, Goto, LocksHeld, TypeOK
    <3> QED
      BY <3>1, <3>2
  <2>5. CASE Decide(p)
    <3>1. CASE Unlock(p) /\ pc' = [pc EXCEPT ![p] = "idle"]
      BY <1>2, <2>5, <3>1 DEF Decide
    <3>2. CASE pc' = [pc EXCEPT ![p] = "depend"] /\ UNCHANGED lockVars
      BY <2>5, <3>2 DEF Decide, LocksHeld, TypeOK
    <3> QED
      BY <2>5, <3>1, <3>2 DEF Decide, Rollback, Respond, Goto
  <2>6. CASE Project(p)
    BY <2>6 DEF Project, Goto, LocksHeld, TypeOK
  <2>7. CASE Guard(p)
    <3>1. CASE Rollback(p)
      BY <1>2, <2>7, <3>1 DEF Guard, Rollback, Respond, Goto
    <3>2. CASE ~Rollback(p)
      BY <2>7, <3>2 DEF Guard, Goto, LocksHeld, TypeOK
    <3> QED
      BY <3>1, <3>2
  <2>8. CASE Commit(p)
    BY <1>2, <2>8 DEF Commit, Respond, Goto
  <2>9. CASE Depend(p)
    BY <2>9 DEF Depend, Goto, LocksHeld, TypeOK
  <2>10. CASE Deadlock(p)
    BY <1>2, <2>10 DEF Deadlock, Respond, Goto
  <2> QED
    BY <1>3, <2>1, <2>2, <2>3, <2>4, <2>5, <2>6, <2>7, <2>8, <2>9, <2>10 DEF Step
<1>4. ASSUME NEW p \in Promoters, CommitLost(p) PROVE LocksHeld'
  BY <1>2, <1>4 DEF CommitLost, Respond, Goto
<1>5. ASSUME NEW p \in Promoters, Crash(p) PROVE LocksHeld'
  BY <1>2, <1>5 DEF Crash, Respond, Goto
<1>6. CASE HostCrash
  BY <1>6 DEF HostCrash, LocksHeld
<1>7. ASSUME NEW o \in Objects, NEW c \in Candidates[o], ReviseCandidate(o, c) PROVE LocksHeld'
  BY <1>7 DEF ReviseCandidate, LocksHeld
<1>8. CASE UNCHANGED vars
  BY <1>8 DEF vars, LocksHeld
<1> QED
  BY <1>1, <1>3, <1>4, <1>5, <1>6, <1>7, <1>8 DEF Next

-----------------------------------------------------------------------------
(* Isolation: what one transaction commits, and what the others rely on. *)

\* Two transactions past their locks work on different keys and modules.
LEMMA Isolation ==
    ASSUME TypeOK, LocksHeld, NEW p \in Promoters, NEW q \in Promoters, p # q,
           pc[p] \in InTransaction \ {"lockModule"}, pc[q] \in InTransaction \ {"lockModule"}
    PROVE  intent[p].key # intent[q].key /\ ModuleOf(p) # ModuleOf(q)
BY DEF LocksHeld

LEMMA CommitEffect ==
    ASSUME TypeOK, LocksHeld, NEW p \in Promoters, Commits(p)
    PROVE  /\ ModuleOf(p) \in Registered
           /\ versions'[intent[p].obj] = NewRow(intent[p])
           /\ \A o \in Objects \ {intent[p].obj} : versions'[o] = versions[o]
           /\ pointers'[Pointer(intent[p])].version = intent[p].obj[2]
           /\ pointers'[Pointer(intent[p])].rev = pointers[Pointer(intent[p])].rev + 1
           /\ \A x \in Pointers \ {Pointer(intent[p])} : pointers'[x] = pointers[x]
           /\ events'[intent[p].key] # None
           /\ events'[intent[p].key].intent = intent[p]
           /\ events'[intent[p].key].rev = pointers[Pointer(intent[p])].rev + 1
           /\ \A k \in Keys \ {intent[p].key} : events'[k] = events[k]
<1> DEFINE x == Pointer(intent[p])
           e == [intent |-> intent[p], previous |-> pointers[x].version, rev |-> pointers[x].rev + 1]
<1>1. ModuleOf(p) \in Registered
  BY DEF Commits, LocksHeld, InTransaction
<1>2. /\ versions' = [versions EXCEPT ![intent[p].obj] = NewRow(intent[p])]
      /\ pointers' = [pointers EXCEPT ![x] =
                        [version |-> intent[p].obj[2], rev |-> pointers[x].rev + 1]]
      /\ events' = [events EXCEPT ![intent[p].key] = e]
  BY <1>1, IntentOf DEF Commits, Apply, WithOwnVersion, WithOwnPointer, TypeOK
<1>3. pointers[x] \in [version : Versions \cup {0}, rev : Nat]
  BY <1>1, IntentOf DEF TypeOK
<1>4. e \in Event
  BY <1>3, IntentOf DEF Event
<1>5. e # None
  BY <1>4, PromotionAssumption
<1> QED
  BY <1>1, <1>2, <1>5, IntentOf DEF TypeOK

\* How a promoter gets to the statements after Decide.
LEMMA Progress ==
    ASSUME TypeOK, [Next]_vars, NEW q \in Promoters,
           pc'[q] \in {"depend", "project", "guard", "commit"}
    PROVE  /\ intent'[q] = intent[q]
           /\ \/ pc'[q] = pc[q] /\ seen'[q] = seen[q]
              \/ pc'[q] = "depend" /\ Decide(q)
              \/ pc'[q] = "project" /\ Depend(q)
              \/ pc'[q] = "guard" /\ Project(q)
              \/ pc'[q] = "commit" /\ Guard(q)
<1> DEFINE Stays == pc'[q] = pc[q] /\ seen'[q] = seen[q]
           Goal == /\ intent'[q] = intent[q]
                   /\ \/ Stays
                      \/ pc'[q] = "depend" /\ Decide(q)
                      \/ pc'[q] = "project" /\ Depend(q)
                      \/ pc'[q] = "guard" /\ Project(q)
                      \/ pc'[q] = "commit" /\ Guard(q)
<1> SUFFICES Goal
  OBVIOUS
<1> USE DEF storeVars, dbVars, lockVars, counters, Goto, Respond
<1>1. ASSUME NEW p \in Promoters, NEW i \in Intents, Promote(p, i)
      PROVE  Goal
  BY <1>1 DEF Promote, TypeOK
<1>2. ASSUME NEW p \in Promoters, Step(p) PROVE Goal
  <2>1. CASE PublishBytes(p) \/ VerifyBytes(p) \/ LockKey(p) \/ LockModule(p) \/ Commit(p)
    BY <2>1 DEF PublishBytes, VerifyBytes, LockKey, LockModule, Commit, Rollback, TypeOK
  <2>2. CASE Decide(p)
    BY <2>2 DEF Decide, Rollback, TypeOK
  <2>3. CASE Project(p)
    BY <2>3 DEF Project, TypeOK
  <2>4. CASE Guard(p)
    BY <2>4 DEF Guard, Rollback, TypeOK
  <2>5. CASE Depend(p)
    BY <2>5 DEF Depend, TypeOK
  <2>6. CASE Deadlock(p)
    <3>1. pc' = [pc EXCEPT ![p] = "idle"] /\ UNCHANGED <<intent, seen>>
      BY <2>6 DEF Deadlock
    <3> QED
      BY <3>1 DEF TypeOK
  <2> QED
    BY <1>2, <2>1, <2>2, <2>3, <2>4, <2>5, <2>6 DEF Step
<1>3. ASSUME NEW p \in Promoters, CommitLost(p) \/ Crash(p)
      PROVE  Goal
  BY <1>3 DEF CommitLost, Crash, TypeOK
<1>4. CASE HostCrash
  BY <1>4 DEF HostCrash
<1>5. ASSUME NEW o \in Objects, NEW c \in Candidates[o], ReviseCandidate(o, c)
      PROVE  Goal
  BY <1>5 DEF ReviseCandidate
<1>6. CASE UNCHANGED vars
  BY <1>6 DEF vars
<1> HIDE DEF Goal
<1> QED
  BY <1>1, <1>2, <1>3, <1>4, <1>5, <1>6 DEF Next

LEMMA NextDecided ==
    ASSUME TypeOK, LocksHeld, Decided, [Next]_vars
    PROVE  Decided'
<1> SUFFICES ASSUME NEW q \in Promoters, pc'[q] \in {"depend", "project", "guard", "commit"}
             PROVE  /\ events'[intent[q].key] = None
                    /\ \A k \in Keys : events'[k] # None => events'[k].intent.obj # intent[q].obj
                    /\ versions'[intent[q].obj] = None
  BY Progress DEF Decided
<1>1. /\ pc[q] \in InTransaction \ {"lockModule"}
      /\ events[intent[q].key] = None
      /\ \A k \in Keys : events[k] # None => events[k].intent.obj # intent[q].obj
      /\ versions[intent[q].obj] = None
  <2>1. CASE pc'[q] = "depend" /\ Decide(q)
    BY <2>1 DEF Decide, Rollback, Respond, Goto, InTransaction, TypeOK
  <2>2. CASE pc[q] \in {"depend", "project", "guard", "commit"}
    BY <2>2 DEF Decided, InTransaction
  <2> QED
    BY <2>1, <2>2, Progress DEF Depend, Project, Guard
<1>2. CASE UNCHANGED dbVars
  BY <1>1, <1>2 DEF dbVars
<1>3. ASSUME NEW p \in Promoters, Commits(p)
      PROVE  /\ events'[intent[q].key] = None
             /\ \A k \in Keys : events'[k] # None => events'[k].intent.obj # intent[q].obj
             /\ versions'[intent[q].obj] = None
  <2>1. p # q /\ pc[p] \in InTransaction \ {"lockModule"}
    BY <1>3 DEF Commits, InTransaction, TypeOK
  <2>2. intent[p].key # intent[q].key /\ intent[p].obj # intent[q].obj
    BY <1>1, <2>1, Isolation DEF ModuleOf
  <2>3. /\ events'[intent[p].key].intent = intent[p]
        /\ \A k \in Keys \ {intent[p].key} : events'[k] = events[k]
        /\ \A o \in Objects \ {intent[p].obj} : versions'[o] = versions[o]
    BY <1>3, CommitEffect
  <2>4. intent[q].key \in Keys /\ intent[q].obj \in Objects
    BY IntentOf
  <2> QED
    BY <1>1, <2>2, <2>3, <2>4
<1> QED
  BY <1>2, <1>3, CommitOrQuiet

\* Nothing the guard of q depends on is changed by another commit.
LEMMA OtherModule ==
    ASSUME TypeOK, LocksHeld, NEW p \in Promoters, NEW q \in Promoters, p # q, Commits(p),
           pc[q] \in InTransaction \ {"lockModule"}
    PROVE  /\ \A v \in Versions : versions'[<<ModuleOf(q), v>>] = versions[<<ModuleOf(q), v>>]
           /\ \A c \in Channels : pointers'[<<ModuleOf(q), c>>] = pointers[<<ModuleOf(q), c>>]
<1>1. ModuleOf(p) # ModuleOf(q) /\ ModuleOf(q) \in Registered
  BY Isolation DEF Commits, InTransaction, LocksHeld
<1>2. \A v \in Versions : <<ModuleOf(q), v>> \in Objects \ {intent[p].obj}
  BY <1>1, IntentOf DEF Objects, ModuleOf
<1>3. \A c \in Channels : <<ModuleOf(q), c>> \in Pointers \ {Pointer(intent[p])}
  BY <1>1 DEF Pointers, Pointer, ModuleOf
<1>4. /\ \A o \in Objects \ {intent[p].obj} : versions'[o] = versions[o]
      /\ \A x \in Pointers \ {Pointer(intent[p])} : pointers'[x] = pointers[x]
  BY CommitEffect
<1> QED
  BY <1>2, <1>3, <1>4

LEMMA NextGuarded ==
    ASSUME TypeOK, TypeOK', LocksHeld, Guarded, [Next]_vars
    PROVE  Guarded'
<1> SUFFICES ASSUME NEW q \in Promoters, pc'[q] \in {"guard", "commit"}
             PROVE  /\ \A v \in Versions :
                         seen'[q][<<ModuleOf(q)', v>>] =
                           WithOwnVersion(q, versions)'[<<ModuleOf(q)', v>>]
                    /\ pc'[q] = "commit" =>
                         \A c \in Channels :
                           WithOwnPointer(q, pointers)'[<<ModuleOf(q)', c>>].version
                             = Selected(seen'[q], ModuleOf(q)', c)
  BY DEF Guarded
<1> DEFINE m == ModuleOf(q)
<1>1. intent'[q] = intent[q] /\ m' = m
  BY Progress DEF ModuleOf
<1>2. pc[q] \in InTransaction \ {"lockModule"} /\ m \in Registered
  <2>1. pc[q] \in InTransaction \ {"lockModule"}
    BY Progress DEF Decide, Depend, Project, Guard, InTransaction
  <2> QED
    BY <2>1 DEF LocksHeld
\* Rows and pointers of the module are as they were.
<1>3. /\ \A v \in Versions : versions'[<<m, v>>] = versions[<<m, v>>]
      /\ \A c \in Channels : pointers'[<<m, c>>] = pointers[<<m, c>>]
  <2>1. CASE UNCHANGED dbVars
    BY <2>1 DEF dbVars
  <2>2. ASSUME NEW p \in Promoters, Commits(p) PROVE <1>3
    <3>1. p # q
      BY <2>2 DEF Commits, TypeOK
    <3> QED
      BY <1>2, <2>2, <3>1, OtherModule
  <2> QED
    BY <2>1, <2>2, CommitOrQuiet
<1>4. \A v \in Versions :
        WithOwnVersion(q, versions)'[<<m, v>>] = WithOwnVersion(q, versions)[<<m, v>>]
  <2> SUFFICES ASSUME NEW v \in Versions
               PROVE  WithOwnVersion(q, versions)'[<<m, v>>] = WithOwnVersion(q, versions)[<<m, v>>]
    OBVIOUS
  <2>1. <<m, v>> \in Objects
    BY IntentOf DEF Objects
  <2> QED
    BY <1>1, <1>3, <2>1, IntentOf DEF WithOwnVersion, TypeOK
<1>5. \A c \in Channels :
        WithOwnPointer(q, pointers)'[<<m, c>>].version = WithOwnPointer(q, pointers)[<<m, c>>].version
  <2> SUFFICES ASSUME NEW c \in Channels
               PROVE  WithOwnPointer(q, pointers)'[<<m, c>>].version
                        = WithOwnPointer(q, pointers)[<<m, c>>].version
    OBVIOUS
  <2>1. <<m, c>> \in Pointers /\ Pointer(intent[q]) \in Pointers
    BY <1>2, IntentOf DEF Pointers
  <2> QED
    BY <1>1, <1>3, <2>1 DEF WithOwnPointer, TypeOK
<1>6. CASE pc'[q] = pc[q] /\ seen'[q] = seen[q]
  BY <1>1, <1>4, <1>5, <1>6 DEF Guarded
<1>7. CASE pc'[q] = "guard" /\ Project(q)
  <2>1. seen'[q] = WithOwnVersion(q, versions)
    BY <1>7 DEF Project, TypeOK
  <2> QED
    BY <1>1, <1>4, <1>7, <2>1
<1>8. CASE pc'[q] = "commit" /\ Guard(q)
  <2>1. /\ pc[q] = "guard" /\ seen' = seen
        /\ Representable(seen[q], WithOwnPointer(q, pointers))
    BY <1>8 DEF Guard, Rollback, Respond, Goto, TypeOK
  <2>2. \A c \in Channels : <<m, c>> \in Pointers
    BY <1>2 DEF Pointers
  <2>3. \A c \in Channels :
          WithOwnPointer(q, pointers)[<<m, c>>].version = Selected(seen[q], m, c)
    BY <2>1, <2>2 DEF Representable
  <2> QED
    BY <1>1, <1>4, <1>5, <2>1, <2>3 DEF Guarded
<1> QED
  BY <1>6, <1>7, <1>8, Progress

-----------------------------------------------------------------------------
(* The promises. *)

LEMMA NextBytesBeforeMetadata ==
    ASSUME TypeOK, BytesReady, LocksHeld, BytesBeforeMetadata, [Next]_vars, BytesReady'
    PROVE  BytesBeforeMetadata'
<1>1. promised \subseteq promised'
  <2> USE DEF storeVars, dbVars, lockVars, counters
  <2>1. ASSUME NEW p \in Promoters, Step(p) PROVE promised \subseteq promised'
    BY <2>1 DEF Step, PublishBytes, VerifyBytes, LockKey, LockModule, Decide, Depend, Project,
                Guard, Commit, Deadlock, Store!Bind, Store!Promise
  <2>2. ASSUME NEW p \in Promoters, CommitLost(p) \/ Crash(p) \/ (\E i \in Intents : Promote(p, i))
        PROVE  promised \subseteq promised'
    BY <2>2 DEF CommitLost, Crash, Promote
  <2>3. HostCrash => promised \subseteq promised'
    BY DEF HostCrash, Store!Forget
  <2>4. ASSUME NEW o \in Objects, NEW c \in Candidates[o], ReviseCandidate(o, c)
        PROVE  promised \subseteq promised'
    BY <2>4 DEF ReviseCandidate
  <2>5. UNCHANGED vars => promised \subseteq promised'
    BY DEF vars
  <2> QED
    BY <2>1, <2>2, <2>3, <2>4, <2>5 DEF Next
<1> SUFFICES ASSUME NEW o \in Objects, versions'[o] # None, versions'[o].promoted
             PROVE  versions'[o].digest \in Digests /\ <<o, versions'[o].digest>> \in promised
  BY <1>1 DEF BytesReady, BytesBeforeMetadata
<1>2. CASE UNCHANGED dbVars
  BY <1>2 DEF dbVars, BytesBeforeMetadata, TypeOK, VersionRow
<1>3. ASSUME NEW p \in Promoters, Commits(p)
      PROVE  versions'[o].digest \in Digests /\ <<o, versions'[o].digest>> \in promised
  <2>1. CASE o = intent[p].obj
    <3>1. versions'[o] = NewRow(intent[p])
      BY <1>3, <2>1, CommitEffect
    <3> QED
      BY <1>3, <2>1, <3>1, IntentOf DEF NewRow, BytesReady, Commits, InTransaction
  <2>2. CASE o # intent[p].obj
    <3>1. \A x \in Objects \ {intent[p].obj} : versions'[x] = versions[x]
      BY <1>3, CommitEffect
    <3>2. versions'[o] = versions[o]
      BY <2>2, <3>1
    <3> QED
      BY <3>2 DEF BytesBeforeMetadata, TypeOK, VersionRow
  <2> QED
    BY <2>1, <2>2
<1> QED
  BY <1>2, <1>3, CommitOrQuiet

LEMMA NextChannelsFollowV1 ==
    ASSUME TypeOK, LocksHeld, Guarded, ChannelsFollowV1, [Next]_vars
    PROVE  ChannelsFollowV1'
<1>1. CASE UNCHANGED dbVars
  BY <1>1 DEF dbVars, ChannelsFollowV1, Representable
<1>2. ASSUME NEW p \in Promoters, Commits(p) PROVE ChannelsFollowV1'
  <2> DEFINE m == ModuleOf(p)
  <2>1. /\ pc[p] = "commit" /\ m \in Registered
        /\ versions' = WithOwnVersion(p, versions)
        /\ pointers' = WithOwnPointer(p, pointers)
    BY <1>2, CommitEffect DEF Commits, Apply
  <2>2. ASSUME NEW c \in Channels PROVE pointers'[<<m, c>>].version = Selected(versions', m, c)
    <3>1. pointers'[<<m, c>>].version = Selected(seen[p], m, c)
      BY <2>1 DEF Guarded
    <3>2. \A v \in Versions : seen[p][<<m, v>>] = versions'[<<m, v>>]
      BY <2>1 DEF Guarded
    <3> QED
      BY <3>1, <3>2, SelectedLocal
  <2>3. ASSUME NEW x \in Pointers, x[1] # m
        PROVE  pointers'[x].version = Selected(versions', x[1], x[2])
    <3>1. x[1] \in Modules
      BY PromotionAssumption DEF Pointers
    <3>2. pointers'[x] = pointers[x]
      <4>1. \A y \in Pointers \ {Pointer(intent[p])} : pointers'[y] = pointers[y]
        BY <1>2, CommitEffect
      <4>2. x # Pointer(intent[p])
        BY <2>3 DEF Pointer, ModuleOf
      <4> QED
        BY <4>1, <4>2
    <3>3. \A v \in Versions : versions'[<<x[1], v>>] = versions[<<x[1], v>>]
      <4>1. \A v \in Versions : <<x[1], v>> \in Objects \ {intent[p].obj}
        BY <2>3, <3>1 DEF Objects, ModuleOf
      <4>2. \A o \in Objects \ {intent[p].obj} : versions'[o] = versions[o]
        BY <1>2, CommitEffect
      <4> QED
        BY <4>1, <4>2
    <3>4. Selected(versions', x[1], x[2]) = Selected(versions, x[1], x[2])
      BY <3>3, SelectedLocal
    <3> QED
      BY <3>2, <3>4 DEF ChannelsFollowV1, Representable
  <2>4. \A x \in Pointers : x = <<x[1], x[2]>> /\ x[2] \in Channels
    BY DEF Pointers
  <2>5. \A x \in Pointers : pointers'[x].version = Selected(versions', x[1], x[2])
    BY <2>2, <2>3, <2>4
  <2> QED
    BY <2>5 DEF ChannelsFollowV1, Representable
<1> QED
  BY <1>1, <1>2, CommitOrQuiet

\* A committed promotion moves its channel to a greater version.
LEMMA CommitMovesForward ==
    ASSUME TypeOK, LocksHeld, Decided, Guarded, ChannelsFollowV1, ChannelsFollowV1',
           NEW p \in Promoters, Commits(p)
    PROVE  intent[p].obj[2] > pointers[Pointer(intent[p])].version
<1> DEFINE m == ModuleOf(p)
           c == intent[p].channel
           v == intent[p].obj[2]
           x == Pointer(intent[p])
<1>1. m \in Registered /\ x = <<m, c>> /\ x \in Pointers /\ v \in Versions /\ v \in Nat
  BY CommitEffect, IntentOf, PromotionAssumption DEF Pointer, ModuleOf
<1>2. v = Selected(versions', m, c) /\ pointers[x].version = Selected(versions, m, c)
  <2>1. pointers'[x].version = v
    BY CommitEffect
  <2> QED
    BY <1>1, <2>1 DEF ChannelsFollowV1, Representable
<1>3. versions[<<m, v>>] = None
  BY IntentOf DEF Decided, Commits
<1>4. \A w \in Versions \ {v} : versions'[<<m, w>>] = versions[<<m, w>>]
  <2>1. \A w \in Versions \ {v} : <<m, w>> \in Objects \ {intent[p].obj}
    BY IntentOf DEF Objects
  <2> QED
    BY <2>1, CommitEffect
<1>5. Published(versions, m, c) \subseteq Published(versions', m, c) \ {v}
  BY <1>3, <1>4 DEF Published
<1>6. CASE Published(versions, m, c) = {}
  <2>1. pointers[x].version = 0
    BY <1>2, <1>6, SelectedIsGreatest
  <2> QED
    BY <1>1, <2>1, PromotionAssumption
<1>7. CASE Published(versions, m, c) # {}
  <2>1. pointers[x].version \in Published(versions, m, c)
    BY <1>2, <1>7, SelectedIsGreatest
  <2>2. pointers[x].version \in Published(versions', m, c) /\ pointers[x].version # v
    BY <1>5, <2>1
  <2>3. pointers[x].version <= v
    BY <1>2, <2>2, SelectedIsGreatest
  <2>4. pointers[x].version \in Nat
    BY <2>1, PromotionAssumption DEF Published
  <2> QED
    BY <1>1, <2>2, <2>3, <2>4
<1> QED
  BY <1>6, <1>7

\* The keys whose event is about object o; whose event moved pointer x.
Owners(ev, o) == {k \in Keys : ev[k] # None /\ ev[k].intent.obj = o}
Movers(ev, x) == {k \in Keys : ev[k] # None /\ Pointer(ev[k].intent) = x}

LEMMA NextAuditMatchesData ==
    ASSUME TypeOK, LocksHeld, Decided, AuditMatchesData, [Next]_vars
    PROVE  AuditMatchesData'
<1>1. CASE UNCHANGED dbVars
  BY <1>1 DEF dbVars, AuditMatchesData
<1>2. ASSUME NEW p \in Promoters, Commits(p) PROVE AuditMatchesData'
  <2> DEFINE i == intent[p]
  <2>1. /\ i.obj \in Objects /\ i.key \in Keys /\ NewRow(i) # None /\ NewRow(i).promoted
        /\ Pointer(i) \in Pointers
    BY <1>2, IntentOf, CommitEffect DEF NewRow
  <2>2. /\ events[i.key] = None
        /\ Owners(events, i.obj) = {}
        /\ versions[i.obj] = None
    BY <1>2 DEF Commits, Decided, Owners
  <2>3. /\ events'[i.key] # None /\ events'[i.key].intent = i
        /\ \A k \in Keys \ {i.key} : events'[k] = events[k]
    BY <1>2, CommitEffect
  <2>4. /\ versions'[i.obj] = NewRow(i)
        /\ \A o \in Objects \ {i.obj} : versions'[o] = versions[o]
    BY <1>2, CommitEffect
  <2>5. ASSUME NEW o \in Objects
        PROVE  IF versions'[o] # None /\ versions'[o].promoted
               THEN \E k \in Owners(events', o) :
                      Owners(events', o) = {k} /\ NewRow(events'[k].intent) = versions'[o]
               ELSE Owners(events', o) = {}
    <3>1. CASE o = i.obj
      <4>1. Owners(events', o) = {i.key}
        BY <2>1, <2>2, <2>3, <3>1 DEF Owners
      <4> QED
        BY <2>1, <2>3, <2>4, <3>1, <4>1
    <3>2. CASE o # i.obj
      <4>1. Owners(events', o) = Owners(events, o)
        BY <2>2, <2>3, <3>2 DEF Owners
      <4>2. versions'[o] = versions[o]
        BY <2>4, <3>2
      <4>3. \A k \in Owners(events, o) : events'[k] = events[k]
        BY <2>2, <2>3 DEF Owners
      <4>4. IF versions[o] # None /\ versions[o].promoted
            THEN \E k \in Owners(events, o) :
                   Owners(events, o) = {k} /\ NewRow(events[k].intent) = versions[o]
            ELSE Owners(events, o) = {}
        BY DEF AuditMatchesData, Owners
      <4> QED
        BY <4>1, <4>2, <4>3, <4>4
    <3> QED
      BY <3>1, <3>2
  <2>6. ASSUME NEW x \in Pointers
        PROVE  pointers'[x].rev - pointers[x].rev =
                 Cardinality(Movers(events', x)) - Cardinality(Movers(events, x))
    <3>1. IsFiniteSet(Movers(events, x)) /\ IsFiniteSet(Movers(events', x))
      <4>1. Movers(events, x) \subseteq Keys /\ Movers(events', x) \subseteq Keys
        BY DEF Movers
      <4> QED
        BY <4>1, FS_Subset, PromotionAssumption
    <3>2. Cardinality(Movers(events, x)) \in Nat /\ Cardinality(Movers(events', x)) \in Nat
      BY <3>1, FS_CardinalityType
    <3>3. pointers[x].rev \in Nat
      BY DEF TypeOK
    <3>4. CASE x = Pointer(i)
      <4>1. Movers(events', x) = Movers(events, x) \cup {i.key} /\ i.key \notin Movers(events, x)
        BY <2>1, <2>2, <2>3, <3>4 DEF Movers
      <4>2. Cardinality(Movers(events', x)) = Cardinality(Movers(events, x)) + 1
        BY <3>1, <4>1, FS_AddElement
      <4>3. pointers'[x].rev = pointers[x].rev + 1
        BY <1>2, <3>4, CommitEffect
      <4> QED
        BY <3>2, <3>3, <4>2, <4>3
    <3>5. CASE x # Pointer(i)
      <4>1. Movers(events', x) = Movers(events, x)
        BY <2>2, <2>3, <3>5 DEF Movers
      <4>2. \A y \in Pointers \ {Pointer(i)} : pointers'[y] = pointers[y]
        BY <1>2, CommitEffect
      <4> QED
        BY <3>2, <3>3, <3>5, <4>1, <4>2
    <3> QED
      BY <3>4, <3>5
  <2>7. ASSUME NEW x \in Pointers
        PROVE  pointers'[x].rev = Cardinality(Movers(events', x))
                 + (IF \E o \in Objects : o[1] = x[1] /\ Imported[o] # None /\ Imported[o].channel = x[2]
                    THEN 1 ELSE 0)
    <3>1. pointers[x].rev = Cardinality(Movers(events, x))
            + (IF \E o \in Objects : o[1] = x[1] /\ Imported[o] # None /\ Imported[o].channel = x[2]
               THEN 1 ELSE 0)
      BY DEF AuditMatchesData, Movers
    <3>2. /\ Cardinality(Movers(events, x)) \in Nat /\ Cardinality(Movers(events', x)) \in Nat
          /\ pointers'[x].rev \in Nat
      <4>1. Movers(events, x) \subseteq Keys /\ Movers(events', x) \subseteq Keys
        BY DEF Movers
      <4>2. pointers'[x] \in [version : Versions \cup {0}, rev : Nat]
        BY <1>2, CommitEffect, ApplyType DEF Commits
      <4> QED
        BY <4>1, <4>2, FS_Subset, FS_CardinalityType, PromotionAssumption
    <3> QED
      BY <2>6, <3>1, <3>2
  <2> QED
    BY <2>5, <2>7 DEF AuditMatchesData, Owners, Movers
<1> QED
  BY <1>1, <1>2, CommitOrQuiet

LEMMA NextEventsRegistered ==
    ASSUME TypeOK, LocksHeld, EventsRegistered, [Next]_vars
    PROVE  EventsRegistered'
<1>1. CASE UNCHANGED dbVars
  BY <1>1 DEF dbVars, EventsRegistered
<1>2. ASSUME NEW p \in Promoters, Commits(p) PROVE EventsRegistered'
  <2>1. /\ events'[intent[p].key].intent = intent[p] /\ ModuleOf(p) \in Registered
        /\ \A k \in Keys \ {intent[p].key} : events'[k] = events[k]
    BY <1>2, CommitEffect
  <2> QED
    BY <2>1 DEF EventsRegistered, ModuleOf
<1> QED
  BY <1>1, <1>2, CommitOrQuiet

\* Without a commit an operator is only told of an event that is there.
LEMMA QuietAcks ==
    ASSUME [Next]_vars, UNCHANGED dbVars
    PROVE  \/ acks' \subseteq acks
           \/ \E p \in Promoters :
                /\ events[intent[p].key] # None /\ events[intent[p].key].intent = intent[p]
                /\ acks' = acks \cup {[intent |-> intent[p], rev |-> events[intent[p].key].rev]}
           \/ \E p \in Promoters : Commits(p)
<1> DEFINE Goal == \/ acks' \subseteq acks
                   \/ \E p \in Promoters :
                        /\ events[intent[p].key] # None /\ events[intent[p].key].intent = intent[p]
                        /\ acks' = acks \cup {[intent |-> intent[p], rev |-> events[intent[p].key].rev]}
                   \/ \E p \in Promoters : Commits(p)
<1> SUFFICES Goal
  OBVIOUS
<1> USE DEF storeVars, dbVars, lockVars, counters
<1>1. ASSUME NEW p \in Promoters, Step(p) PROVE Goal
  <2>1. CASE PublishBytes(p) \/ VerifyBytes(p) \/ LockKey(p) \/ LockModule(p) \/ Depend(p)
             \/ Project(p) \/ Guard(p) \/ Deadlock(p)
    BY <2>1 DEF PublishBytes, VerifyBytes, LockKey, LockModule, Depend, Project, Guard, Deadlock,
                Rollback
  <2>2. CASE Decide(p)
    BY <2>2 DEF Decide, Rollback
  <2>3. CASE Commit(p)
    BY <2>3 DEF Commit, Commits, Respond, Goto
  <2> QED
    BY <1>1, <2>1, <2>2, <2>3 DEF Step
<1>2. ASSUME NEW p \in Promoters, CommitLost(p) \/ Crash(p) \/ (\E i \in Intents : Promote(p, i))
      PROVE  Goal
  BY <1>2 DEF CommitLost, Crash, Promote
<1>3. CASE HostCrash
  BY <1>3 DEF HostCrash
<1>4. ASSUME NEW o \in Objects, NEW c \in Candidates[o], ReviseCandidate(o, c) PROVE Goal
  BY <1>4 DEF ReviseCandidate
<1>5. CASE UNCHANGED vars
  BY <1>5 DEF vars
<1> HIDE DEF Goal
<1> QED
  BY <1>1, <1>2, <1>3, <1>4, <1>5 DEF Next

LEMMA NextRetriesAgree ==
    ASSUME TypeOK, LocksHeld, Decided, RetriesAgree, [Next]_vars
    PROVE  RetriesAgree'
<1>1. ASSUME NEW p \in Promoters, Commits(p) PROVE RetriesAgree'
  <2>1. /\ events'[intent[p].key] # None
        /\ events'[intent[p].key].intent = intent[p]
        /\ events'[intent[p].key].rev = pointers[Pointer(intent[p])].rev + 1
        /\ \A k \in Keys \ {intent[p].key} : events'[k] = events[k]
    BY <1>1, CommitEffect
  <2>2. events[intent[p].key] = None
    BY <1>1 DEF Commits, Decided
  <2>3. \A a \in acks : a.intent.key \in Keys \ {intent[p].key}
    BY <2>2 DEF RetriesAgree, TypeOK, IntentType
  <2>4. acks' \subseteq
          acks \cup {[intent |-> intent[p], rev |-> pointers[Pointer(intent[p])].rev + 1]}
    BY <1>1 DEF Commits
  <2> QED
    BY <2>1, <2>3, <2>4 DEF RetriesAgree
<1>2. CASE UNCHANGED dbVars
  BY <1>1, <1>2, QuietAcks DEF dbVars, RetriesAgree
<1> QED
  BY <1>1, <1>2, CommitOrQuiet

-----------------------------------------------------------------------------
LEMMA NextInv == Inv /\ [Next]_vars => Inv'
<1> SUFFICES ASSUME Inv, [Next]_vars PROVE Inv'
  OBVIOUS
<1>1. TypeOK' /\ BytesReady' /\ LocksHeld' /\ Decided'
  BY NextTypeOK, NextBytesReady, NextLocksHeld, NextDecided DEF Inv
<1>2. Guarded' /\ BytesBeforeMetadata'
  BY <1>1, NextGuarded, NextBytesBeforeMetadata DEF Inv
<1>3. EventsRegistered' /\ ChannelsFollowV1' /\ AuditMatchesData' /\ RetriesAgree'
  BY NextEventsRegistered, NextChannelsFollowV1, NextAuditMatchesData, NextRetriesAgree DEF Inv
<1> QED
  BY <1>1, <1>2, <1>3 DEF Inv

LEMMA InvAlways == Spec => []Inv
BY InitInv, NextInv, PTL DEF Spec

\* Store, tables, locks and promoters keep their types, however many
\* promotions run and crash.
THEOREM TypeCorrect == Spec => []TypeOK
BY InvAlways, PTL DEF Inv

\* promote() commits a version only after its bytes are durably stored under
\* its name, and no crash takes them away again.
THEOREM BytesBeforeMetadataAlways == Spec => []BytesBeforeMetadata
BY InvAlways, PTL DEF Inv

\* Every committed state of the channel pointers is the selection of a v1
\* client, although validate_v1_representability reads versions and pointers
\* in two statements and other modules commit in between.
THEOREM ChannelsFollowV1Always == Spec => []ChannelsFollowV1
BY InvAlways, PTL DEF Inv

\* promotion_events, module_versions and the channel revisions agree in every
\* committed state: no promotion is lost or recorded twice.
THEOREM AuditMatchesDataAlways == Spec => []AuditMatchesData
BY InvAlways, PTL DEF Inv

\* All successes reported for one idempotency key describe one event.
THEOREM RetriesAgreeAlways == Spec => []RetriesAgree
BY InvAlways, PTL DEF Inv

\* promote() never edits a published version or an event, and moves a channel
\* only to a greater version, one revision at a time.
THEOREM HistoryOnlyGrowsAlways == Spec => HistoryOnlyGrows
<1> DEFINE Grows ==
             /\ \A o \in Objects : versions[o] # None => versions'[o] = versions[o]
             /\ \A k \in Keys : events[k] # None => events'[k] = events[k]
             /\ \A x \in Pointers :
                  pointers'[x] # pointers[x] =>
                    /\ pointers'[x].rev = pointers[x].rev + 1
                    /\ pointers'[x].version > pointers[x].version
<1>1. Inv /\ [Next]_vars => [Grows]_vars
  <2> SUFFICES ASSUME Inv, [Next]_vars PROVE Grows
    OBVIOUS
  <2>1. CASE UNCHANGED dbVars
    BY <2>1 DEF dbVars
  <2>2. ASSUME NEW p \in Promoters, Commits(p) PROVE Grows
    <3>1. versions[intent[p].obj] = None /\ events[intent[p].key] = None
      BY <2>2 DEF Inv, Commits, Decided
    <3>2. intent[p].obj[2] > pointers[Pointer(intent[p])].version
      BY <2>2, NextInv, CommitMovesForward DEF Inv
    <3>3. /\ \A o \in Objects \ {intent[p].obj} : versions'[o] = versions[o]
          /\ \A k \in Keys \ {intent[p].key} : events'[k] = events[k]
          /\ \A x \in Pointers \ {Pointer(intent[p])} : pointers'[x] = pointers[x]
      BY <2>2, CommitEffect DEF Inv
    <3>4. /\ pointers'[Pointer(intent[p])].version = intent[p].obj[2]
          /\ pointers'[Pointer(intent[p])].rev = pointers[Pointer(intent[p])].rev + 1
      BY <2>2, CommitEffect DEF Inv
    <3> QED
      BY <3>1, <3>2, <3>3, <3>4
  <2> QED
    BY <2>1, <2>2, CommitOrQuiet
<1> QED
  BY <1>1, InvAlways, PTL DEF Spec, HistoryOnlyGrows

\* What a committed event says about the rest of the system.
LEMMA CommittedEvent ==
    ASSUME Inv, NEW k \in Keys, events[k] # None
    PROVE  LET i == events[k].intent IN
           /\ versions[i.obj] = NewRow(i)
           /\ bound[i.obj] = i.digest
           /\ i.obj[1] \in Registered
<1> DEFINE i == events[k].intent
<1>1. i.obj \in Objects /\ i.obj[1] \in Registered
  BY DEF Inv, TypeOK, Event, IntentType, EventsRegistered
<1>2. k \in Owners(events, i.obj)
  BY DEF Owners
<1>3. /\ versions[i.obj] # None /\ versions[i.obj].promoted
      /\ \E j \in Owners(events, i.obj) :
           Owners(events, i.obj) = {j} /\ NewRow(events[j].intent) = versions[i.obj]
  BY <1>1, <1>2 DEF Inv, AuditMatchesData, Owners
<1>4. versions[i.obj] = NewRow(i)
  BY <1>2, <1>3
<1>5. bound[i.obj] = i.digest
  <2>1. bound[i.obj] = versions[i.obj].digest
    BY <1>1, <1>3 DEF Inv, BytesBeforeMetadata
  <2> QED
    BY <1>4, <2>1 DEF NewRow
<1> QED
  BY <1>1, <1>4, <1>5

\* An operator who repeats a committed intent, with its candidate still on
\* main, is never told of a conflict, whatever was promoted in between.
THEOREM CommittedRetryAcceptedAlways == Spec => CommittedRetryAccepted
<1> DEFINE Accepts ==
             \A p \in Promoters :
               LET i == intent'[p] IN
               /\ response'[p] = "conflict" /\ (response[p] # "conflict" \/ attempts'[p] # attempts[p])
               /\ onMain[i.obj] = [channel |-> i.channel, digest |-> i.digest]
               => events[i.key] = None \/ events[i.key].intent # i
<1>1. Inv /\ [Next]_vars => [Accepts]_vars
  <2> SUFFICES ASSUME Inv, Next, NEW q \in Promoters,
                      response'[q] = "conflict",
                      response[q] # "conflict" \/ attempts'[q] # attempts[q],
                      onMain[intent'[q].obj] = [channel |-> intent'[q].channel,
                                                digest |-> intent'[q].digest],
                      events[intent'[q].key] # None, events[intent'[q].key].intent = intent'[q]
               PROVE  FALSE
    OBVIOUS
  <2> USE DEF storeVars, dbVars, lockVars, counters
  <2>1. TypeOK
    BY DEF Inv
  <2>2. ASSUME NEW p \in Promoters, NEW i \in Intents, Promote(p, i) PROVE FALSE
    BY <2>1, <2>2 DEF Promote, Goto, Respond, TypeOK
  \* Every other answer is about the intent the promoter already had.
  <2>3. ASSUME intent' = intent
        PROVE  /\ events[intent[q].key] # None /\ events[intent[q].key].intent = intent[q]
               /\ versions[intent[q].obj] = NewRow(intent[q])
               /\ bound[intent[q].obj] = intent[q].digest
               /\ ModuleOf(q) \in Registered
    BY <2>1, <2>3, IntentOf, CommittedEvent DEF ModuleOf
  <2>4. ASSUME NEW p \in Promoters, Step(p) PROVE FALSE
    <3>1. intent' = intent /\ attempts' = attempts
      BY <2>4 DEF Step, PublishBytes, VerifyBytes, LockKey, LockModule, Decide, Depend, Project,
                  Guard, Commit, Deadlock
    <3>2. CASE PublishBytes(p)
      BY <2>1, <2>3, <3>1, <3>2 DEF PublishBytes, Goto, Respond, TypeOK
    <3>3. CASE VerifyBytes(p) \/ LockKey(p) \/ Depend(p) \/ Project(p)
      BY <3>1, <3>3 DEF VerifyBytes, LockKey, Depend, Project
    <3>4. CASE LockModule(p)
      BY <2>1, <2>3, <3>1, <3>4 DEF LockModule, Rollback, Respond, Goto, ModuleOf, TypeOK
    <3>5. CASE Decide(p)
      BY <2>1, <2>3, <3>1, <3>5 DEF Decide, Rollback, Respond, Goto, TypeOK
    <3>6. CASE Guard(p)
      <4>1. p = q /\ pc[q] = "guard"
        BY <2>1, <3>1, <3>6 DEF Guard, Rollback, Respond, Goto, TypeOK
      <4> QED
        BY <2>3, <3>1, <4>1 DEF Inv, Decided
    <3>7. CASE Commit(p)
      BY <2>1, <3>1, <3>7 DEF Commit, Respond, Goto, TypeOK
    <3>8. CASE Deadlock(p)
      <4>1. response' = [response EXCEPT ![p] = "error"]
        BY <3>8 DEF Deadlock, Respond
      <4> QED
        BY <2>1, <3>1, <4>1 DEF TypeOK
    <3> QED
      BY <2>4, <3>2, <3>3, <3>4, <3>5, <3>6, <3>7, <3>8 DEF Step
  <2>5. ASSUME NEW p \in Promoters, CommitLost(p) \/ Crash(p) PROVE FALSE
    BY <2>1, <2>5 DEF CommitLost, Crash, Respond, Goto, TypeOK
  <2>6. CASE HostCrash
    BY <2>1, <2>6 DEF HostCrash, TypeOK
  <2>7. ASSUME NEW o \in Objects, NEW c \in Candidates[o], ReviseCandidate(o, c) PROVE FALSE
    BY <2>7 DEF ReviseCandidate
  <2> QED
    BY <2>2, <2>4, <2>5, <2>6, <2>7 DEF Next
<1> QED
  BY <1>1, InvAlways, PTL DEF Spec, CommittedRetryAccepted
=============================================================================
