------------------------- MODULE MfaChallengeProofs -------------------------
(***************************************************************************)
(* Machine-checked facts about MfaChallenge, for any number of request     *)
(* handlers, attempts, codes, challenges, requests, time steps and faults. *)
(***************************************************************************)
EXTENDS MfaChallenge, SequenceTheorems, TLAPS

Answering == {"verify", "options", "passkey"}
Consuming == {"verify", "confirm", "regenerate", "disable"}

\* What a request can be at each of its statements.
KindAt(q) ==
    /\ pc[q] = "readMethods" => op[q].kind = "login"
    /\ pc[q] = "lockUser" => op[q].kind \in {"login", "setup"}
    /\ pc[q] = "readEnabled" => op[q].kind = "setup"
    /\ pc[q] = "lockChallenge" => op[q].kind \in Answering
    /\ pc[q] = "lockCeremony" => op[q].kind = "passkey"
    /\ pc[q] = "lockMethod" => op[q].kind \in Consuming \cup {"setup"}
    /\ pc[q] \in {"snapshot", "sweep"} => op[q].kind \in {"login", "disable"}
    /\ pc[q] \in {"idle", "readMethods", "lockUser", "readEnabled", "lockChallenge", "lockMethod",
                  "lockCeremony", "issue", "revokeOthers"} => verdict[q] = "none"
    /\ op[q].kind = "login" => verdict[q] = "none"
    /\ op[q].kind = "setup" /\ pc[q] = "commit" => verdict[q] = "accept"
KindAtLabel == \A q \in Requests : KindAt(q)

\* An answer holds its challenge, which stays open and keeps its count; an
\* UPDATE holds the challenges it marked.
HoldsChallenge(q) ==
    /\ op[q].kind \in Answering => op[q].row \in DOMAIN challenges
    /\ op[q].kind = "passkey" => op[q].ceremony \in DOMAIN ceremonies
    /\ op[q].kind \in Answering /\ pc[q] \in {"lockMethod", "lockCeremony", "commit"} =>
         /\ challengeLock[op[q].row] = q
         /\ challenges[op[q].row].status = "open" /\ seen[q] = challenges[op[q].row].attempts
    /\ op[q].kind = "verify" /\ pc[q] \in {"lockMethod", "commit"} /\ verdict[q] # "invalidate" =>
         seen[q] < MaxAttempts
    /\ todo[q] \subseteq DOMAIN challenges
    /\ \A c \in marked[q] : /\ c \in DOMAIN challenges /\ challengeLock[c] = q
                           /\ challenges[c].status # "used"
ChallengeHeld == \A q \in Requests : HoldsChallenge(q)

\* A factor that was found good is still unused when its transaction commits.
HoldsFactor(q) ==
    verdict[q] = "accept" /\ op[q].kind \in Consuming =>
      /\ methodLock = q
      /\ op[q].kind = "confirm" =>
           /\ method.state = "pending"
           /\ op[q].factor.type = "totp" /\ op[q].factor.of = method.secret
      /\ op[q].kind # "confirm" =>
           /\ method.state = "enabled"
           /\ \/ /\ op[q].factor.type = "totp" /\ op[q].factor.of = method.secret
                 /\ op[q].factor.n > method.last
              \/ op[q].factor.type = "recovery" /\ <<op[q].factor.of, op[q].factor.n>> \in codes
FactorHeld == \A q \in Requests : HoldsFactor(q)

\* Who has the users row FOR UPDATE, and what nobody can change meanwhile.
HoldsUser(q) ==
    /\ op[q].kind = "setup" /\ pc[q] \in {"readEnabled", "lockMethod", "commit"} => userLock = q
    /\ op[q].kind = "login" /\ pc[q] \in {"snapshot", "sweep", "commit"} => userLock = q
    /\ op[q].kind = "setup" /\ pc[q] \in {"lockMethod", "commit"} => method.state # "enabled"
    /\ op[q].kind = "setup" /\ pc[q] = "commit" => method.state = "absent" \/ methodLock = q
UserHeld == \A q \in Requests : HoldsUser(q)

\* A new login has marked, or is still to visit, every open challenge.
Covers(q) ==
    op[q].kind = "login" =>
      /\ pc[q] = "sweep" => \A c \in DOMAIN challenges : Open(c) => c \in todo[q] \cup marked[q]
      /\ pc[q] = "commit" => \A c \in DOMAIN challenges : Open(c) => c \in marked[q]
SweepCovers == \A q \in Requests : Covers(q)

\* f cannot be accepted again: its counter is not after the last one, or
\* its code is gone.
Used(f) ==
    /\ f.type = "totp" =>
         /\ f.of <= secrets
         /\ method.state # "absent" /\ f.of = method.secret =>
              method.state = "enabled" /\ f.n <= method.last
    /\ f.type = "recovery" => f.of <= codeSets /\ <<f.of, f.n>> \notin codes

\* Where the method, the codes and the accepted factors stand.
Spent ==
    /\ method.state # "absent" => method.secret <= secrets
    /\ \A x \in codes : x[1] <= codeSets
    /\ \A i \in DOMAIN accepted : Used(accepted[i])

\* What was answered is what the challenge says.
Counted ==
    \A c \in Ids :
      /\ c \notin DOMAIN challenges => answers[c].right = 0 /\ answers[c].wrong = 0
      /\ c \in DOMAIN challenges =>
           /\ answers[c].right <= 1
           /\ challenges[c].status # "used" => answers[c].right = 0
           /\ answers[c].wrong <= challenges[c].attempts
           /\ challenges[c].attempts <= MaxAttempts

\* The inductive invariant behind the safety properties.
Inv ==
    /\ TypeOK
    /\ KindAtLabel
    /\ ChallengeHeld
    /\ FactorHeld
    /\ UserHeld
    /\ SweepCovers
    /\ Spent
    /\ Counted
    /\ FactorUsedOnce
    /\ OneOpenChallenge
    /\ EnabledIsConfirmed

-----------------------------------------------------------------------------
OpType == [kind : Kinds, row : Ids, ceremony : Ids, factor : Factor, family : Numbers]
ChallengeRow == [status : {"open", "used", "invalid"}, attempts : Nat]
CeremonyRow == [challenge : Ids, status : {"open", "used", "invalid"}]
CodeSpace == Numbers \X (1..CodesPerSet)

\* The steps of one request: it starts, executes a statement, commits, or
\* ends a transaction that leaves the factors alone.
Starting(q) ==
    \/ Login(q)
    \/ \E c \in Ids : MfaOptions(q, c) \/ \E f \in Inputs : Verify(q, c, f)
    \/ \E c \in Ids, e \in Ids : VerifyMfa(q, c, e)
    \/ \E f \in 1..families :
         \/ StartTotpSetup(q, f)
         \/ \E code \in Inputs : \/ ConfirmTotpSetup(q, f, code)
                                 \/ RegenerateRecoveryCodes(q, f, code)
                                 \/ DisableMfa(q, f, code)
Statement(q) ==
    \/ ReadMethods(q) \/ LockUser(q) \/ Snapshot(q) \/ (\E c \in Ids : SweepRow(q, c)) \/ SweepDone(q)
    \/ LockChallenge(q) \/ LockCeremony(q) \/ ReadEnabled(q) \/ LockMethod(q)
Leaving(q) ==
    CommitAssertionRejected(q) \/ IssueSession(q) \/ RevokeOtherSessions(q) \/ Abort(q) \/ Cancel(q)
Committed(q) ==
    \/ CommitChallenge(q) \/ CommitRejected(q) \/ CommitInvalid(q) \/ CommitVerified(q)
    \/ CommitCeremony(q) \/ CommitAssertion(q) \/ CommitSetup(q) \/ CommitConfirm(q)
    \/ CommitRegenerate(q) \/ CommitDisable(q)
RequestStep(q) == Starting(q) \/ Statement(q) \/ Leaving(q) \/ Committed(q)
WorldStep == Deactivate \/ NextTimeStep \/ DeadlinePasses

LEMMA StepOf ==
    ASSUME Next
    PROVE  WorldStep \/ \E q \in Requests : RequestStep(q)
  BY DEF Next, WorldStep, RequestStep, Starting, Statement, Leaving, Committed

\* A request's transaction is its own: other requests keep their place,
\* their work and their locks.
Isolated(q) ==
    \A p \in Requests \ {q} :
      /\ pc'[p] = pc[p] /\ op'[p] = op[p] /\ verdict'[p] = verdict[p] /\ seen'[p] = seen[p]
      /\ todo'[p] = todo[p] /\ marked'[p] = marked[p]
      /\ \A c \in Ids : challengeLock[c] = p => challengeLock'[c] = p
      /\ methodLock = p => methodLock' = p
      /\ userLock = p => userLock' = p

\* The types of what a request keeps while it runs.
LocalType ==
    /\ challengeLock \in [Ids -> Requests \cup {None}]
    /\ ceremonyLock \in [Ids -> Requests \cup {None}]
    /\ methodLock \in Requests \cup {None} /\ userLock \in Requests \cup {None}
    /\ pc \in [Requests -> Labels]
    /\ op \in [Requests -> OpType]
    /\ verdict \in [Requests -> Verdicts] /\ seen \in [Requests -> Nat]
    /\ todo \in [Requests -> SUBSET Ids] /\ marked \in [Requests -> SUBSET Ids]

LEMMA NoOpType == NoOp \in OpType /\ NoOp.kind = "login"
<1>1. 1 \in Ids
  BY MfaAssumption DEF Ids
<1>2. Wrong \in Factor
  BY DEF Wrong, Factor, Numbers
<1> QED
  BY <1>1, <1>2 DEF NoOp, OpType, Kinds, Numbers

LEMMA EndEffect ==
    ASSUME LocalType, NEW q \in Requests, NEW label \in Labels, EndTransaction(q, label)
    PROVE  /\ LocalType' /\ Isolated(q)
           /\ pc'[q] = label /\ verdict'[q] = "none" /\ todo'[q] = {} /\ marked'[q] = {}
           /\ label = "idle" => op'[q] = NoOp
           /\ label # "idle" => op'[q] = op[q]
<1> DEFINE o == IF label = "idle" THEN NoOp ELSE op[q]
<1>1. o \in OpType
  BY NoOpType DEF LocalType
<1>2. op' = [op EXCEPT ![q] = o]
  BY DEF EndTransaction
<1>3. op' \in [Requests -> OpType] /\ op'[q] = o /\ \A p \in Requests \ {q} : op'[p] = op[p]
  <2> HIDE DEF o
  <2> QED
    BY <1>1, <1>2 DEF LocalType
<1>4. /\ challengeLock' \in [Ids -> Requests \cup {None}] /\ ceremonyLock' \in [Ids -> Requests \cup {None}]
      /\ \A p \in Requests \ {q}, c \in Ids : challengeLock[c] = p => challengeLock'[c] = p
  BY DEF EndTransaction, LocalType
<1>5. /\ methodLock' \in Requests \cup {None} /\ userLock' \in Requests \cup {None}
      /\ \A p \in Requests \ {q} : (methodLock = p => methodLock' = p) /\ (userLock = p => userLock' = p)
  BY DEF EndTransaction, LocalType
<1>6. /\ pc' \in [Requests -> Labels] /\ verdict' \in [Requests -> Verdicts] /\ seen' \in [Requests -> Nat]
      /\ pc'[q] = label /\ verdict'[q] = "none"
      /\ \A p \in Requests \ {q} : pc'[p] = pc[p] /\ verdict'[p] = verdict[p] /\ seen'[p] = seen[p]
  BY DEF EndTransaction, LocalType, Goto, Verdicts
<1>7. /\ todo' \in [Requests -> SUBSET Ids] /\ marked' \in [Requests -> SUBSET Ids]
      /\ todo'[q] = {} /\ marked'[q] = {}
      /\ \A p \in Requests \ {q} : todo'[p] = todo[p] /\ marked'[p] = marked[p]
  BY DEF EndTransaction, LocalType
<1> QED
  BY <1>3, <1>4, <1>5, <1>6, <1>7 DEF LocalType, Isolated

LEMMA RowTypes ==
    ASSUME TypeOK
    PROVE  /\ challenges \in Seq(ChallengeRow) /\ ceremonies \in Seq(CeremonyRow)
           /\ Len(challenges) \in Nat /\ Len(challenges) <= MaxRows
           /\ DOMAIN challenges = 1..Len(challenges) /\ DOMAIN challenges \subseteq Ids
           /\ DOMAIN ceremonies = 1..Len(ceremonies) /\ DOMAIN ceremonies \subseteq Ids
           /\ \A c \in DOMAIN challenges : challenges[c] \in ChallengeRow
           /\ \A e \in DOMAIN ceremonies : ceremonies[e] \in CeremonyRow
<1>1. /\ challenges \in Seq(ChallengeRow) /\ ceremonies \in Seq(CeremonyRow)
      /\ Len(challenges) <= MaxRows /\ Len(ceremonies) <= MaxRows
  BY DEF TypeOK, ChallengeRow, CeremonyRow
<1>2. /\ Len(challenges) \in Nat /\ DOMAIN challenges = 1..Len(challenges)
      /\ Len(ceremonies) \in Nat /\ DOMAIN ceremonies = 1..Len(ceremonies)
  BY <1>1, LenProperties
<1>3. DOMAIN challenges \subseteq Ids /\ DOMAIN ceremonies \subseteq Ids
  BY <1>1, <1>2, MfaAssumption DEF Ids
<1>4. /\ \A c \in DOMAIN challenges : challenges[c] \in ChallengeRow
      /\ \A e \in DOMAIN ceremonies : ceremonies[e] \in CeremonyRow
  BY <1>1, <1>2, ElementOfSeq
<1> QED
  BY <1>1, <1>2, <1>3, <1>4

LEMMA TypesLocal == TypeOK => LocalType
  BY DEF TypeOK, LocalType, OpType

\* Where a request starts, and with what.
StartOf(q, request, label) ==
    /\ Begin(q, request, label)
    /\ \/ label = "readMethods" /\ request.kind = "login"
       \/ label = "lockUser" /\ request.kind = "setup"
       \/ label = "lockMethod" /\ request.kind \in {"confirm", "regenerate", "disable"}
       \/ /\ label = "lockChallenge" /\ request.kind \in Answering
          /\ request.row \in DOMAIN challenges
          /\ request.kind = "passkey" => request.ceremony \in DOMAIN ceremonies

LEMMA StartingEffect ==
    ASSUME TypeOK, NEW q \in Requests, Starting(q)
    PROVE  \E request \in OpType, label \in Labels : StartOf(q, request, label)
<1> DEFINE Goal == \E request \in OpType, label \in Labels : StartOf(q, request, label)
<1> SUFFICES Goal
  OBVIOUS
<1> USE NoOpType
<1> HIDE DEF NoOp
<1>0. \A f \in Inputs : f \in Factor
  <2>1. secrets \in Nat /\ codeSets \in Nat /\ MaxTime \in Nat /\ CodesPerSet \in Nat
    BY MfaAssumption DEF TypeOK, Numbers
  <2>2. /\ 1..secrets \subseteq Nat /\ 1..codeSets \subseteq Nat
        /\ 1..MaxTime \subseteq Nat /\ 1..CodesPerSet \subseteq Nat
    BY <2>1
  <2> QED
    BY <2>2 DEF Inputs, Factor, Wrong, Numbers
<1>01. 1..families \subseteq Nat
  <2>1. families \in Nat
    BY DEF TypeOK, Numbers
  <2> QED
    BY <2>1
<1>1. CASE Login(q)
  <2>1. StartOf(q, NoOp, "readMethods")
    BY <1>1 DEF Login, StartOf
  <2> QED
    BY <2>1 DEF Labels
<1>2. ASSUME NEW c \in Ids, MfaOptions(q, c) PROVE Goal
  <2> DEFINE r == [NoOp EXCEPT !.kind = "options", !.row = c]
  <2>1. r \in OpType /\ r.kind = "options" /\ r.row = c
    BY DEF OpType, Kinds
  <2>2. Begin(q, r, "lockChallenge") /\ c \in DOMAIN challenges
    BY <1>2 DEF MfaOptions, Exists
  <2> HIDE DEF r
  <2>3. StartOf(q, r, "lockChallenge")
    BY <2>1, <2>2 DEF StartOf, Answering
  <2> QED
    BY <2>1, <2>3 DEF Labels
<1>3. ASSUME NEW c \in Ids, NEW f \in Inputs, Verify(q, c, f) PROVE Goal
  <2> DEFINE r == [NoOp EXCEPT !.kind = "verify", !.row = c, !.factor = f]
  <2>1. r \in OpType /\ r.kind = "verify" /\ r.row = c
    BY <1>0 DEF OpType, Kinds
  <2>2. Begin(q, r, "lockChallenge") /\ c \in DOMAIN challenges
    BY <1>3 DEF Verify, Exists
  <2> HIDE DEF r
  <2>3. StartOf(q, r, "lockChallenge")
    BY <2>1, <2>2 DEF StartOf, Answering
  <2> QED
    BY <2>1, <2>3 DEF Labels
<1>4. ASSUME NEW c \in Ids, NEW e \in Ids, VerifyMfa(q, c, e) PROVE Goal
  <2> DEFINE r == [NoOp EXCEPT !.kind = "passkey", !.row = c, !.ceremony = e]
  <2>1. r \in OpType /\ r.kind = "passkey" /\ r.row = c /\ r.ceremony = e
    BY DEF OpType, Kinds
  <2>2. Begin(q, r, "lockChallenge") /\ c \in DOMAIN challenges /\ e \in DOMAIN ceremonies
    BY <1>4 DEF VerifyMfa, Exists
  <2> HIDE DEF r
  <2>3. StartOf(q, r, "lockChallenge")
    BY <2>1, <2>2 DEF StartOf, Answering
  <2> QED
    BY <2>1, <2>3 DEF Labels
<1>5. ASSUME NEW f \in 1..families, StartTotpSetup(q, f) PROVE Goal
  <2> DEFINE r == [NoOp EXCEPT !.kind = "setup", !.family = f]
  <2>1. r \in OpType /\ r.kind = "setup"
    BY <1>01 DEF OpType, Kinds, Numbers
  <2>2. Begin(q, r, "lockUser")
    BY <1>5 DEF StartTotpSetup
  <2> HIDE DEF r
  <2>3. StartOf(q, r, "lockUser")
    BY <2>1, <2>2 DEF StartOf
  <2> QED
    BY <2>1, <2>3 DEF Labels
<1>6. ASSUME NEW f \in 1..families, NEW code \in Inputs,
             ConfirmTotpSetup(q, f, code) \/ RegenerateRecoveryCodes(q, f, code) \/ DisableMfa(q, f, code)
      PROVE  Goal
  <2> DEFINE r(kind) == [NoOp EXCEPT !.kind = kind, !.family = f, !.factor = code]
  <2>1. \A kind \in {"confirm", "regenerate", "disable"} : r(kind) \in OpType /\ r(kind).kind = kind
    BY <1>0, <1>01 DEF OpType, Kinds, Numbers
  <2>2. \E kind \in {"confirm", "regenerate", "disable"} : Begin(q, r(kind), "lockMethod")
    BY <1>6 DEF ConfirmTotpSetup, RegenerateRecoveryCodes, DisableMfa
  <2> HIDE DEF r
  <2>3. \E kind \in {"confirm", "regenerate", "disable"} : StartOf(q, r(kind), "lockMethod")
    BY <2>1, <2>2 DEF StartOf
  <2> QED
    BY <2>1, <2>3 DEF Labels
<1> HIDE DEF Goal
<1> QED
  BY <1>1, <1>2, <1>3, <1>4, <1>5, <1>6 DEF Starting

\* Every commit and every early end closes the transaction.
LEMMA CommitEnds ==
    ASSUME NEW q \in Requests, Committed(q) \/ Leaving(q)
    PROVE  \E label \in {"idle", "issue", "revokeOthers"} :
             /\ EndTransaction(q, label)
             /\ label = "issue" => CommitVerified(q) \/ CommitAssertion(q)
             /\ label = "revokeOthers" => CommitConfirm(q) \/ CommitRegenerate(q)
  BY DEF Committed, Leaving, CommitChallenge, CommitRejected, CommitInvalid, CommitVerified,
         CommitCeremony, CommitAssertion, CommitSetup, CommitConfirm, CommitRegenerate, CommitDisable,
         CommitAssertionRejected, IssueSession, RevokeOtherSessions, Abort, Cancel, Release

LEMMA LocalStep ==
    ASSUME Inv, NEW q \in Requests, RequestStep(q)
    PROVE  LocalType' /\ Isolated(q)
<1> DEFINE Goal == LocalType' /\ Isolated(q)
<1> SUFFICES Goal
  OBVIOUS
<1>0. TypeOK /\ LocalType
  BY TypesLocal DEF Inv
<1>1. CASE \E label \in Labels : EndTransaction(q, label)
  BY <1>0, <1>1, EndEffect
<1>2. CASE Starting(q)
  <2>1. PICK request \in OpType, label \in Labels : StartOf(q, request, label)
    BY <1>0, <1>2, StartingEffect
  <2>2. /\ op' = [op EXCEPT ![q] = request] /\ pc' = [pc EXCEPT ![q] = label]
        /\ UNCHANGED <<challengeLock, ceremonyLock, methodLock, userLock, verdict, seen, todo, marked>>
    BY <2>1 DEF StartOf, Begin, Goto, lockVars, workVars
  <2> QED
    BY <1>0, <2>2 DEF LocalType, Isolated
<1>3. CASE Committed(q) \/ Leaving(q)
  <2>1. \E label \in Labels : EndTransaction(q, label)
    BY <1>3, CommitEnds DEF Labels
  <2> QED
    BY <1>1, <2>1
<1>4. CASE Statement(q) /\ ~Release(q)
  <2>1. CASE ReadMethods(q) \/ SweepDone(q) \/ ReadEnabled(q)
    <3>1. /\ \E label \in Labels : pc' = [pc EXCEPT ![q] = label]
          /\ UNCHANGED <<challengeLock, ceremonyLock, methodLock, userLock, op, verdict, seen, todo,
                         marked>>
      BY <2>1, <1>4 DEF ReadMethods, SweepDone, ReadEnabled, Goto, Labels, lockVars, workVars
    <3> QED
      BY <1>0, <3>1 DEF LocalType, Isolated
  <2>2. CASE LockUser(q)
    <3>1. /\ \E label \in Labels : pc' = [pc EXCEPT ![q] = label]
          /\ userLock' = q /\ userLock \in {None, q}
          /\ UNCHANGED <<challengeLock, ceremonyLock, methodLock, op, verdict, seen, todo, marked>>
      BY <2>2 DEF LockUser, Free, Goto, Labels, workVars
    <3> QED
      BY <1>0, <3>1, MfaAssumption DEF LocalType, Isolated
  <2>3. CASE Snapshot(q)
    <3>1. /\ pc' = [pc EXCEPT ![q] = "sweep"]
          /\ \E S \in SUBSET (DOMAIN challenges) : todo' = [todo EXCEPT ![q] = S]
          /\ UNCHANGED <<challengeLock, ceremonyLock, methodLock, userLock, op, verdict, seen, marked>>
      BY <2>3 DEF Snapshot, Goto, lockVars
    <3>2. DOMAIN challenges \subseteq Ids
      BY <1>0, RowTypes
    <3> QED
      BY <1>0, <3>1, <3>2 DEF LocalType, Isolated, Labels
  <2>4. CASE \E c \in Ids : SweepRow(q, c)
    <3>1. PICK c \in Ids : SweepRow(q, c)
      BY <2>4
    <3>2. /\ challengeLock' = [challengeLock EXCEPT ![c] = q] /\ challengeLock[c] \in {None, q}
          /\ \E S \in SUBSET Ids : todo' = [todo EXCEPT ![q] = S]
          /\ \E S \in SUBSET Ids : marked' = [marked EXCEPT ![q] = S]
          /\ UNCHANGED <<ceremonyLock, methodLock, userLock, pc, op, verdict, seen>>
      <4>1. todo[q] \ {c} \in SUBSET Ids /\ marked[q] \in SUBSET Ids /\ marked[q] \cup {c} \in SUBSET Ids
        BY <1>0 DEF LocalType
      <4> QED
        BY <3>1, <4>1 DEF SweepRow, Free
    <3> QED
      BY <1>0, <3>2, MfaAssumption DEF LocalType, Isolated
  <2>5. CASE LockChallenge(q)
    <3>1. /\ challengeLock' = [challengeLock EXCEPT ![op[q].row] = q]
          /\ challengeLock[op[q].row] \in {None, q}
          /\ seen' = [seen EXCEPT ![q] = challenges[op[q].row].attempts]
          /\ UNCHANGED <<ceremonyLock, methodLock, userLock, op, todo, marked>>
      BY <2>5, <1>4 DEF LockChallenge, Free
    <3>2. \E v \in Verdicts : verdict' = [verdict EXCEPT ![q] = v]
      BY <2>5, <1>4 DEF LockChallenge, Verdicts
    <3>3. \E label \in Labels : pc' = [pc EXCEPT ![q] = label]
      <4>1. \E label \in {"commit", "lockMethod", "lockCeremony"} : Goto(q, label)
        BY <2>5, <1>4 DEF LockChallenge
      <4> QED
        BY <4>1 DEF Goto, Labels
    <3>4. op[q].row \in DOMAIN challenges
      BY <2>5 DEF LockChallenge, Inv, KindAtLabel, KindAt, ChallengeHeld, HoldsChallenge
    <3>5. challenges[op[q].row].attempts \in Nat
      BY <3>4, RowTypes DEF Inv, ChallengeRow
    <3>6. op[q].row \in Ids
      BY <1>0, <3>4, RowTypes
    <3>7. /\ challengeLock' \in [Ids -> Requests \cup {None}]
          /\ \A p \in Requests \ {q}, c \in Ids : challengeLock[c] = p => challengeLock'[c] = p
      <4> DEFINE r == op[q].row
      <4>1. /\ challengeLock' = [challengeLock EXCEPT ![r] = q] /\ challengeLock[r] \in {None, q} /\ r \in Ids
            /\ challengeLock \in [Ids -> Requests \cup {None}]
        BY <1>0, <3>1, <3>6 DEF LocalType
      <4> HIDE DEF r
      <4> QED
        BY <4>1, MfaAssumption
    <3>8. /\ pc' \in [Requests -> Labels] /\ verdict' \in [Requests -> Verdicts] /\ seen' \in [Requests -> Nat]
          /\ \A p \in Requests \ {q} : pc'[p] = pc[p] /\ verdict'[p] = verdict[p] /\ seen'[p] = seen[p]
      BY <1>0, <3>1, <3>2, <3>3, <3>5 DEF LocalType
    <3> QED
      BY <1>0, <3>1, <3>7, <3>8 DEF LocalType, Isolated
  <2>6. CASE LockCeremony(q)
    <3>1. /\ ceremonyLock' = [ceremonyLock EXCEPT ![op[q].ceremony] = q]
          /\ \E v \in Verdicts : verdict' = [verdict EXCEPT ![q] = v]
          /\ pc' = [pc EXCEPT ![q] = "commit"]
          /\ UNCHANGED <<challengeLock, methodLock, userLock, op, seen, todo, marked>>
      BY <2>6, <1>4 DEF LockCeremony, Goto, Verdicts
    <3> QED
      BY <1>0, <3>1 DEF LocalType, Isolated, Labels
  <2>7. CASE LockMethod(q)
    <3>1. Decision(q) \in Verdicts
      BY DEF Decision, Verdicts
    <3>2. /\ methodLock \in {None, q} /\ methodLock' \in {methodLock, q}
          /\ verdict' = [verdict EXCEPT ![q] = Decision(q)]
          /\ \E label \in Labels : pc' = [pc EXCEPT ![q] = label]
          /\ UNCHANGED <<challengeLock, ceremonyLock, userLock, op, seen, todo, marked>>
      BY <2>7, <1>4 DEF LockMethod, Free, Goto, Labels
    <3> HIDE DEF Decision
    <3> QED
      BY <1>0, <3>1, <3>2, MfaAssumption DEF LocalType, Isolated
  <2> HIDE DEF Goal
  <2> QED
    BY <1>4, <2>1, <2>2, <2>3, <2>4, <2>5, <2>6, <2>7 DEF Statement
<1>5. Release(q) => \E label \in Labels : EndTransaction(q, label)
  BY DEF Release, Labels
<1> HIDE DEF Goal
<1> QED
  BY <1>1, <1>2, <1>3, <1>4, <1>5 DEF RequestStep

LEMMA StatementReads ==
    ASSUME NEW q \in Requests, Statement(q) \/ Starting(q)
    PROVE  UNCHANGED <<dbVars, accountVars, timeVars, historyVars, faults>>
<1>1. CASE Starting(q)
  BY <1>1 DEF Starting, Login, MfaOptions, Verify, VerifyMfa, StartTotpSetup, ConfirmTotpSetup,
              RegenerateRecoveryCodes, DisableMfa, Begin
<1>2. CASE Statement(q)
  <2>1. UNCHANGED worldVars
    BY <1>2 DEF Statement, ReadMethods, LockUser, Snapshot, SweepRow, SweepDone, LockChallenge,
                LockCeremony, ReadEnabled, LockMethod
  <2> QED
    BY <2>1 DEF worldVars, boundVars
<1> QED
  BY <1>1, <1>2

\* A request changes only challenges it has locked, closes them for good,
\* and only a new login adds one.
ChallengeEffect(q) ==
    /\ challenges' \in Seq(ChallengeRow) /\ Len(challenges') <= MaxRows
    /\ DOMAIN challenges \subseteq DOMAIN challenges'
    /\ DOMAIN challenges' = DOMAIN challenges \/ CommitChallenge(q)
    /\ \A c \in DOMAIN challenges :
         /\ challengeLock[c] # q => challenges'[c] = challenges[c]
         /\ challenges[c].status # "open" => challenges'[c].status = challenges[c].status

\* An update of the rows of a table keeps its type.
LEMMA RowsUpdated ==
    ASSUME NEW R, NEW s \in Seq(R), NEW t,
           DOMAIN t = DOMAIN s, \A i \in DOMAIN s : t[i] \in R, t = [i \in DOMAIN s |-> t[i]]
    PROVE  t \in Seq(R) /\ Len(t) = Len(s)
<1>1. Len(s) \in Nat /\ DOMAIN s = 1..Len(s)
  BY LenProperties
<1>2. t \in [1..Len(s) -> R]
  BY <1>1
<1>3. t \in Seq(R)
  BY <1>1, <1>2
<1> QED
  BY <1>1, <1>3, LenProperties

LEMMA ChallengesKept ==
    ASSUME Inv, NEW q \in Requests, RequestStep(q)
    PROVE  ChallengeEffect(q)
<1> DEFINE Goal == ChallengeEffect(q)
<1> SUFFICES Goal
  OBVIOUS
<1>0. TypeOK /\ LocalType
  BY TypesLocal DEF Inv
<1>a. /\ challenges \in Seq(ChallengeRow) /\ Len(challenges) <= MaxRows
      /\ DOMAIN challenges \subseteq Ids
      /\ \A c \in DOMAIN challenges : challenges[c] \in ChallengeRow
  BY <1>0, RowTypes
<1>1. CASE UNCHANGED challenges
  BY <1>a, <1>1 DEF ChallengeEffect
\* One row, locked and open, is rewritten.
<1>2. ASSUME NEW c \in DOMAIN challenges, NEW row \in ChallengeRow,
             challenges' = [challenges EXCEPT ![c] = row], challengeLock[c] = q,
             challenges[c].status = "open"
      PROVE  Goal
  <2>1. /\ DOMAIN challenges' = DOMAIN challenges /\ challenges' = [d \in DOMAIN challenges |-> challenges'[d]]
        /\ \A d \in DOMAIN challenges : challenges'[d] \in ChallengeRow
        /\ \A d \in DOMAIN challenges : d # c => challenges'[d] = challenges[d]
    BY <1>a, <1>2
  <2>2. challenges' \in Seq(ChallengeRow) /\ Len(challenges') = Len(challenges)
    BY <1>a, <2>1, RowsUpdated
  <2> QED
    BY <1>a, <1>2, <2>1, <2>2 DEF ChallengeEffect
<1>3. CASE CommitRejected(q) \/ CommitVerified(q) \/ CommitAssertion(q)
           \/ (CommitInvalid(q) /\ op[q].kind = "verify")
  <2> DEFINE c == op[q].row
  <2>1. c \in DOMAIN challenges /\ challengeLock[c] = q /\ challenges[c].status = "open"
    BY <1>3 DEF Inv, ChallengeHeld, HoldsChallenge, Answering, CommitRejected, CommitVerified, CommitAssertion,
                CommitInvalid, Committing
  <2>2. seen[q] + 1 \in Nat
    BY <1>0 DEF LocalType
  <2>3. \E row \in ChallengeRow : challenges' = [challenges EXCEPT ![c] = row]
    <3>1. challenges[c] \in ChallengeRow
      BY <1>a, <2>1
    <3>2. CASE CommitRejected(q)
      <4> DEFINE row == [challenges[c] EXCEPT !.attempts = seen[q] + 1,
                           !.status = IF seen[q] + 1 >= MaxAttempts THEN "invalid" ELSE @]
      <4>1. row \in ChallengeRow
        BY <2>2, <3>1 DEF ChallengeRow
      <4>2. challenges' = [challenges EXCEPT ![c] = row]
        BY <2>1, <3>1, <3>2 DEF CommitRejected, ChallengeRow
      <4> QED
        BY <4>1, <4>2
    <3>3. ASSUME NEW s \in {"used", "invalid"}, challenges' = [challenges EXCEPT ![c].status = s]
          PROVE  \E row \in ChallengeRow : challenges' = [challenges EXCEPT ![c] = row]
      <4>1. [challenges[c] EXCEPT !.status = s] \in ChallengeRow
        BY <3>1 DEF ChallengeRow
      <4> QED
        BY <3>3, <4>1
    <3>4. CASE CommitVerified(q) \/ CommitAssertion(q)
      BY <3>3, <3>4 DEF CommitVerified, CommitAssertion
    <3>5. CASE CommitInvalid(q) /\ op[q].kind = "verify"
      BY <3>3, <3>5 DEF CommitInvalid, Invalidated
    <3> QED
      BY <1>3, <3>2, <3>4, <3>5
  <2> HIDE DEF c, Goal
  <2> QED
    BY <1>2, <2>1, <2>3
\* The rows an UPDATE marked are invalidated.
<1> DEFINE swept == [c \in DOMAIN challenges |->
                       IF c \in marked[q] THEN [challenges[c] EXCEPT !.status = "invalid"]
                       ELSE challenges[c]]
<1>4. /\ swept \in Seq(ChallengeRow) /\ Len(swept) = Len(challenges)
      /\ \A c \in DOMAIN challenges :
           /\ challengeLock[c] # q => swept[c] = challenges[c]
           /\ challenges[c].status # "open" => swept[c].status = challenges[c].status
  <2>1. \A c \in marked[q] : challengeLock[c] = q /\ challenges[c].status # "used"
    BY DEF Inv, ChallengeHeld, HoldsChallenge
  <2>2. \A c \in DOMAIN challenges : swept[c] \in ChallengeRow
    BY <1>a DEF ChallengeRow
  <2>3. DOMAIN swept = DOMAIN challenges /\ swept = [c \in DOMAIN challenges |-> swept[c]]
    OBVIOUS
  <2>4. swept \in Seq(ChallengeRow) /\ Len(swept) = Len(challenges)
    <3> HIDE DEF swept
    <3> QED
      BY <1>a, <2>2, <2>3, RowsUpdated
  <2>5. ASSUME NEW c \in DOMAIN challenges
        PROVE  /\ challengeLock[c] # q => swept[c] = challenges[c]
               /\ challenges[c].status # "open" => swept[c].status = challenges[c].status
    BY <2>1, <1>a DEF ChallengeRow
  <2> QED
    BY <2>4, <2>5
<1> HIDE DEF swept
<1>5. CASE CommitDisable(q)
  <2>1. challenges' = swept
    BY <1>5 DEF CommitDisable, swept
  <2>2. DOMAIN swept = DOMAIN challenges
    BY DEF swept
  <2> QED
    BY <1>a, <1>4, <2>1, <2>2 DEF ChallengeEffect
<1>6. CASE CommitChallenge(q)
  <2> DEFINE new == [status |-> "open", attempts |-> 0]
  <2>1. challenges' = Append(swept, new) /\ Len(challenges) < MaxRows
    BY <1>6 DEF CommitChallenge, swept
  <2>2. new \in ChallengeRow
    BY DEF ChallengeRow
  <2> HIDE DEF new
  <2>3. /\ challenges' \in Seq(ChallengeRow) /\ Len(challenges') = Len(challenges) + 1
        /\ \A c \in 1..Len(challenges) : challenges'[c] = swept[c]
    BY <1>4, <2>1, <2>2, AppendProperties
  <2>4. /\ DOMAIN challenges = 1..Len(challenges) /\ Len(challenges) \in Nat
        /\ DOMAIN challenges' = 1..(Len(challenges) + 1)
    BY <1>a, <2>3, LenProperties
  <2>5. Len(challenges') <= MaxRows
    BY <2>1, <2>3, <2>4, MfaAssumption
  <2>6. DOMAIN challenges \subseteq DOMAIN challenges'
    BY <2>4
  <2> QED
    BY <1>4, <1>6, <2>3, <2>4, <2>5, <2>6 DEF ChallengeEffect
<1>7. UNCHANGED challenges \/ Committed(q)
  BY StatementReads DEF RequestStep, dbVars, Leaving, CommitAssertionRejected, IssueSession,
     RevokeOtherSessions, Abort, Cancel, worldVars
<1>8. ASSUME Committed(q) PROVE
         \/ UNCHANGED challenges \/ CommitDisable(q) \/ CommitChallenge(q)
         \/ CommitRejected(q) \/ CommitVerified(q) \/ CommitAssertion(q)
         \/ (CommitInvalid(q) /\ op[q].kind = "verify")
  BY <1>8 DEF Committed, CommitInvalid, CommitCeremony, CommitSetup, CommitConfirm, CommitRegenerate
<1> HIDE DEF Goal
<1> QED
  BY <1>1, <1>3, <1>5, <1>6, <1>7, <1>8

MethodRow == [state : {"absent", "pending", "enabled"}, secret : Numbers, last : Nat, confirmed : Numbers]
FactorType ==
    /\ method \in MethodRow /\ codes \subseteq CodeSpace
    /\ codeSets \in Nat /\ secrets \in Nat /\ accepted \in Seq(Factor)

LEMMA FactorsKept ==
    ASSUME NEW q \in Requests, RequestStep(q)
    PROVE  \/ UNCHANGED <<method, codes, codeSets, secrets, accepted>>
           \/ CommitVerified(q) \/ CommitSetup(q) \/ CommitConfirm(q) \/ CommitRegenerate(q)
           \/ CommitDisable(q)
  BY StatementReads DEF RequestStep, dbVars, historyVars, worldVars, Leaving, Committed,
     CommitAssertionRejected, IssueSession, RevokeOtherSessions, Abort, Cancel, CommitChallenge,
     CommitRejected, CommitInvalid, CommitCeremony, CommitAssertion

\* A factor found good has not been accepted yet.
LEMMA GoodIsFresh ==
    ASSUME Inv, NEW q \in Requests, verdict[q] = "accept", op[q].kind \in Consuming
    PROVE  /\ op[q].factor \in Factor
           /\ \A i \in DOMAIN accepted : accepted[i] # op[q].factor
           /\ op[q].factor.type = "totp" => op[q].factor.of <= secrets
           /\ op[q].factor.type = "recovery" => op[q].factor.of <= codeSets
<1> DEFINE f == op[q].factor
<1>1. f \in Factor /\ FactorType
  BY DEF Inv, TypeOK, FactorType, MethodRow, CodeSpace, Numbers
<1>2. /\ \/ /\ f.type = "totp" /\ f.of = method.secret /\ method.state # "absent"
            /\ method.state = "pending" \/ f.n > method.last
         \/ f.type = "recovery" /\ <<f.of, f.n>> \in codes
  BY DEF Inv, FactorHeld, HoldsFactor
<1>3. /\ f.type = "totp" => f.of <= secrets
      /\ f.type = "recovery" => f.of <= codeSets
  <2>1. \A x \in codes : x[1] <= codeSets
    BY DEF Inv, Spent
  <2> QED
    BY <1>2, <2>1 DEF Inv, Spent
<1>4. ~Used(f)
  BY <1>1, <1>2 DEF Used, FactorType, Factor, MethodRow
<1>5. \A i \in DOMAIN accepted : Used(accepted[i])
  BY DEF Inv, Spent
<1> QED
  BY <1>1, <1>3, <1>4, <1>5

LEMMA FactorAppended ==
    ASSUME accepted \in Seq(Factor), FactorUsedOnce, NEW f \in Factor,
           \A i \in DOMAIN accepted : accepted[i] # f, accepted' = Append(accepted, f)
    PROVE  /\ accepted' \in Seq(Factor) /\ FactorUsedOnce'
           /\ \A i \in DOMAIN accepted' : accepted'[i] = f \/ \E j \in DOMAIN accepted : accepted'[i] = accepted[j]
<1>1. /\ accepted' \in Seq(Factor) /\ Len(accepted') = Len(accepted) + 1
      /\ \A i \in 1..Len(accepted) : accepted'[i] = accepted[i]
      /\ accepted'[Len(accepted) + 1] = f
  BY AppendProperties
<1>2. /\ Len(accepted) \in Nat /\ DOMAIN accepted = 1..Len(accepted)
      /\ DOMAIN accepted' = 1..(Len(accepted) + 1)
  BY <1>1, LenProperties
<1>3. \A i \in DOMAIN accepted' : i \in DOMAIN accepted \/ i = Len(accepted) + 1
  BY <1>2
<1> QED
  BY <1>1, <1>2, <1>3 DEF FactorUsedOnce

\* The factors' part of the invariant.
LEMMA FactorStep ==
    ASSUME Inv, NEW q \in Requests, RequestStep(q)
    PROVE  FactorType' /\ Spent' /\ FactorUsedOnce' /\ EnabledIsConfirmed'
<1> DEFINE Goal == FactorType' /\ Spent' /\ FactorUsedOnce' /\ EnabledIsConfirmed'
<1> SUFFICES Goal
  OBVIOUS
<1>0. FactorType
  BY DEF Inv, TypeOK, FactorType, MethodRow, CodeSpace, Numbers
<1>1. /\ method \in MethodRow /\ method.secret \in Nat /\ method.last \in Nat
      /\ codeSets \in Nat /\ secrets \in Nat /\ \A x \in codes : x \in CodeSpace
      /\ \A i \in DOMAIN accepted : accepted[i] \in Factor
  <2>1. \A i \in DOMAIN accepted : accepted[i] \in Factor
    BY <1>0, LenProperties, ElementOfSeq DEF FactorType
  <2> QED
    BY <1>0, <2>1 DEF FactorType, MethodRow, Numbers
<1>2. /\ method.state # "absent" => method.secret <= secrets
      /\ \A x \in codes : x[1] <= codeSets
      /\ \A i \in DOMAIN accepted : Used(accepted[i])
      /\ FactorUsedOnce /\ EnabledIsConfirmed
  BY DEF Inv, Spent
<1>3. CASE UNCHANGED <<method, codes, codeSets, secrets, accepted>>
  BY <1>0, <1>2, <1>3 DEF FactorType, Spent, Used, FactorUsedOnce, EnabledIsConfirmed, Enabled
<1> DEFINE fresh == {codeSets + 1} \X (1..CodesPerSet)
<1>4. /\ fresh \subseteq CodeSpace /\ \A x \in fresh : x[1] = codeSets + 1
      /\ codeSets + 1 \in Nat /\ secrets + 1 \in Nat
  BY <1>1 DEF CodeSpace, Numbers
<1>5. PICK f \in Factor : f = op[q].factor
  BY DEF Inv, TypeOK
<1>6. ASSUME verdict[q] = "accept", op[q].kind \in Consuming
      PROVE  /\ methodLock = q /\ method.state # "absent"
             /\ \/ /\ f.type = "totp" /\ f.of = method.secret
                   /\ method.state = "pending" \/ f.n > method.last
                \/ f.type = "recovery" /\ <<f.of, f.n>> \in codes
             /\ op[q].kind = "confirm" => method.state = "pending" /\ f.type = "totp" /\ f.of = method.secret
             /\ op[q].kind # "confirm" => method.state = "enabled"
             /\ \A i \in DOMAIN accepted : accepted[i] # f
             /\ f.type = "totp" => f.of <= secrets
             /\ f.type = "recovery" => f.of <= codeSets
  <2>1. /\ \A i \in DOMAIN accepted : accepted[i] # f
        /\ f.type = "totp" => f.of <= secrets
        /\ f.type = "recovery" => f.of <= codeSets
    BY <1>5, <1>6, GoodIsFresh
  <2> QED
    BY <1>5, <1>6, <2>1 DEF Inv, FactorHeld, HoldsFactor
\* What is left to show when a factor is consumed.
<1>7. ASSUME verdict[q] = "accept", op[q].kind \in Consuming, accepted' = Append(accepted, f),
             method' \in MethodRow, codes' \subseteq CodeSpace, codeSets' \in Nat, secrets' = secrets,
             method'.state # "absent" => method'.secret <= secrets,
             \A x \in codes' : x[1] <= codeSets',
             Used(f)', \A g \in Factor : Used(g) => Used(g)', EnabledIsConfirmed'
      PROVE  Goal
  <2>1. /\ accepted' \in Seq(Factor) /\ FactorUsedOnce'
        /\ \A i \in DOMAIN accepted' : accepted'[i] = f \/ \E j \in DOMAIN accepted : accepted'[i] = accepted[j]
    BY <1>0, <1>2, <1>6, <1>7, FactorAppended DEF FactorType
  <2>2. ASSUME NEW i \in DOMAIN accepted' PROVE Used(accepted[i])'
    <3>1. PICK g \in Factor : g = accepted'[i] /\ (g = f \/ Used(g))
      BY <1>1, <1>2, <2>1
    <3>2. Used(g)'
      BY <1>7, <3>1
    <3> QED
      BY <3>1, <3>2 DEF Used
  <2> QED
    BY <1>1, <1>7, <2>1, <2>2 DEF FactorType, Spent
<1>8. CASE CommitVerified(q) \/ CommitRegenerate(q)
  <2>1. /\ verdict[q] = "accept" /\ op[q].kind \in Consuming /\ op[q].kind # "confirm"
        /\ accepted' = Append(accepted, f) /\ secrets' = secrets
        /\ method' = IF f.type = "totp" THEN [method EXCEPT !.last = f.n] ELSE method
        /\ \/ codeSets' = codeSets /\ codes' = IF f.type = "recovery" THEN codes \ {<<f.of, f.n>>} ELSE codes
           \/ codeSets' = codeSets + 1 /\ codes' = fresh
    BY <1>5, <1>8 DEF CommitVerified, CommitRegenerate, Committing, Consuming, Consumed, Unspent, NewCodes
  <2>2. /\ method' \in MethodRow /\ method'.secret = method.secret /\ method'.state = "enabled"
        /\ method'.confirmed = method.confirmed
        /\ f.type = "totp" => method'.last = f.n /\ f.n > method.last
        /\ f.type # "totp" => method'.last = method.last
    BY <1>1, <1>6, <2>1 DEF MethodRow, Factor
  <2>3. /\ codes' \subseteq CodeSpace /\ codeSets' \in Nat /\ codeSets <= codeSets'
        /\ \A x \in codes' : x[1] <= codeSets'
        /\ \A x \in codes' : x \in codes \/ x[1] > codeSets
        /\ f.type = "recovery" => <<f.of, f.n>> \notin codes'
    BY <1>0, <1>1, <1>2, <1>4, <1>6, <2>1 DEF FactorType, Factor, Numbers
  <2>4. ASSUME NEW g \in Factor, Used(g) PROVE Used(g)'
    <3>1. g.type = "totp" => g.of <= secrets' /\ (g.of = method'.secret => g.n <= method'.last)
      BY <1>1, <1>6, <2>1, <2>2, <2>4 DEF Used, Factor
    <3>2. g.type = "recovery" => g.of <= codeSets' /\ <<g.of, g.n>> \notin codes'
      BY <1>1, <2>3, <2>4 DEF Used, Factor, Numbers
    <3> QED
      BY <2>2, <3>1, <3>2 DEF Used
  <2>5. Used(f)'
    <3>1. f.type = "totp" => f.of <= secrets' /\ f.n <= method'.last
      BY <1>6, <2>1, <2>2 DEF Factor
    <3>2. f.type = "recovery" => f.of <= codeSets' /\ <<f.of, f.n>> \notin codes'
      BY <1>1, <1>6, <2>1, <2>3 DEF Factor, Numbers
    <3> QED
      BY <2>2, <3>1, <3>2 DEF Used
  <2>6. EnabledIsConfirmed'
    BY <1>2, <1>6, <2>1, <2>2 DEF EnabledIsConfirmed, Enabled
  <2> HIDE DEF Goal
  <2> QED
    BY <1>2, <1>6, <1>7, <2>1, <2>2, <2>3, <2>4, <2>5, <2>6
<1>9. CASE CommitConfirm(q)
  <2>1. /\ verdict[q] = "accept" /\ op[q].kind = "confirm" /\ op[q].kind \in Consuming
        /\ accepted' = Append(accepted, f) /\ secrets' = secrets
        /\ method' = [method EXCEPT !.state = "enabled", !.last = f.n, !.confirmed = f.of]
        /\ codeSets' = codeSets + 1 /\ codes' = fresh
    BY <1>5, <1>9 DEF CommitConfirm, Committing, Consuming, NewCodes
  <2>2. /\ method.state = "pending" /\ f.type = "totp" /\ f.of = method.secret
    BY <1>6, <2>1
  <2>3. /\ method' \in MethodRow /\ method'.secret = method.secret /\ method'.state = "enabled"
        /\ method'.confirmed = f.of /\ method'.last = f.n
    BY <1>1, <2>1 DEF MethodRow, Factor
  <2>4. ASSUME NEW g \in Factor, Used(g) PROVE Used(g)'
    <3>1. g.type = "totp" => g.of <= secrets' /\ g.of # method'.secret
      BY <2>1, <2>2, <2>3, <2>4 DEF Used
    <3>2. g.type = "recovery" => g.of <= codeSets' /\ <<g.of, g.n>> \notin codes'
      BY <1>1, <1>4, <2>1, <2>4 DEF Used, Factor, Numbers
    <3> QED
      BY <3>1, <3>2 DEF Used
  <2>5. Used(f)'
    BY <1>6, <2>1, <2>2, <2>3 DEF Used, Factor
  <2>6. EnabledIsConfirmed'
    BY <2>2, <2>3 DEF EnabledIsConfirmed
  <2>7. /\ codes' \subseteq CodeSpace /\ codeSets' \in Nat /\ \A x \in codes' : x[1] <= codeSets'
    BY <1>1, <1>4, <2>1
  <2> HIDE DEF Goal
  <2> QED
    BY <1>2, <1>7, <2>1, <2>2, <2>3, <2>4, <2>5, <2>6, <2>7
<1>10. CASE CommitDisable(q)
  <2>1. /\ verdict[q] = "accept" /\ op[q].kind \in Consuming
        /\ accepted' = Append(accepted, f) /\ secrets' = secrets
        /\ method' = NoMethod /\ codes' = {} /\ codeSets' = codeSets
    BY <1>5, <1>10 DEF CommitDisable, Committing, Consuming
  <2>2. method' \in MethodRow /\ method'.state = "absent" /\ ~Enabled'
    BY <2>1 DEF NoMethod, MethodRow, Numbers, Enabled
  <2>3. \A g \in Factor : (Used(g) => Used(g)')
    BY <2>1, <2>2 DEF Used
  <2>4. Used(f)'
    BY <1>6, <2>1, <2>2 DEF Used
  <2>5. EnabledIsConfirmed'
    BY <2>2 DEF EnabledIsConfirmed
  <2> HIDE DEF Goal
  <2> QED
    BY <1>1, <1>7, <2>1, <2>2, <2>3, <2>4, <2>5
<1>11. CASE CommitSetup(q)
  <2>1. /\ op[q].kind = "setup" /\ pc[q] = "commit" /\ secrets' = secrets + 1
        /\ method' = [method EXCEPT !.secret = secrets + 1, !.last = 0,
                                    !.state = IF @ = "absent" THEN "pending" ELSE @]
        /\ UNCHANGED <<codes, codeSets, accepted>>
    BY <1>11 DEF CommitSetup, Committing, historyVars
  <2>2. method.state # "enabled"
    BY <2>1 DEF Inv, UserHeld, HoldsUser
  <2>3. method' \in MethodRow /\ method'.secret = secrets + 1 /\ method'.state = "pending"
    BY <1>1, <1>4, <2>1, <2>2 DEF MethodRow, Numbers
  <2>4. ASSUME NEW g \in Factor, Used(g) PROVE Used(g)'
    BY <1>1, <2>1, <2>3, <2>4 DEF Used, Factor, Numbers
  <2>5. ASSUME NEW i \in DOMAIN accepted' PROVE Used(accepted[i])'
    <3>1. PICK g \in Factor : g = accepted[i] /\ Used(g)
      BY <1>1, <1>2, <2>1, <2>5
    <3>2. Used(g)' /\ g = accepted'[i]
      BY <2>1, <2>4, <3>1
    <3> QED
      BY <3>2 DEF Used
  <2>6. FactorType' /\ FactorUsedOnce' /\ EnabledIsConfirmed'
    BY <1>0, <1>2, <1>4, <2>1, <2>3 DEF FactorType, FactorUsedOnce, EnabledIsConfirmed, Enabled
  <2>7. /\ method'.secret <= secrets' /\ \A x \in codes' : x[1] <= codeSets'
    BY <1>2, <1>4, <2>1, <2>3
  <2> QED
    BY <2>5, <2>6, <2>7 DEF Spent
<1> HIDE DEF Goal
<1> QED
  BY <1>3, <1>8, <1>9, <1>10, <1>11, FactorsKept

\* The types of the tables a request's own state does not show.
CeremonyType == ceremonies \in Seq(CeremonyRow) /\ Len(ceremonies) <= MaxRows
SessionType ==
    /\ passkey \in BOOLEAN /\ active \in BOOLEAN
    /\ families \in Nat /\ sessions \subseteq 1..families /\ second \subseteq 1..families
    /\ enrolled \in Nat
TimeType ==
    /\ clock \in 1..MaxTime /\ ticks \in Nat
    /\ overdue \subseteq ({"challenge", "ceremony"} \X Ids) \cup {<<"setup", 0>>}
AnswerType == answers \in [Ids -> [wrong : Nat, right : Nat]]

LEMMA TypeParts ==
    TypeOK <=> /\ challenges \in Seq(ChallengeRow) /\ Len(challenges) <= MaxRows
               /\ LocalType /\ FactorType /\ CeremonyType /\ SessionType /\ TimeType /\ AnswerType
               /\ started \in Nat /\ faults \in Nat
  BY DEF TypeOK, LocalType, FactorType, CeremonyType, SessionType, TimeType, AnswerType,
         ChallengeRow, CeremonyRow, OpType, MethodRow, CodeSpace, Numbers

LEMMA CeremoniesKept ==
    ASSUME Inv, NEW q \in Requests, RequestStep(q)
    PROVE  CeremonyType' /\ DOMAIN ceremonies \subseteq DOMAIN ceremonies'
<1> DEFINE Goal == CeremonyType' /\ DOMAIN ceremonies \subseteq DOMAIN ceremonies'
<1> SUFFICES Goal
  OBVIOUS
<1>0. /\ ceremonies \in Seq(CeremonyRow) /\ Len(ceremonies) <= MaxRows /\ Len(ceremonies) \in Nat
      /\ DOMAIN ceremonies = 1..Len(ceremonies)
      /\ \A e \in DOMAIN ceremonies : ceremonies[e] \in CeremonyRow
  <2>1. TypeOK
    BY DEF Inv
  <2>2. CeremonyType
    BY <2>1, TypeParts
  <2> QED
    BY <2>1, <2>2, RowTypes, LenProperties DEF CeremonyType
<1>1. CASE UNCHANGED ceremonies
  BY <1>0, <1>1 DEF CeremonyType
<1>2. ASSUME NEW e \in DOMAIN ceremonies, NEW s \in {"used", "invalid"},
             ceremonies' = [ceremonies EXCEPT ![e].status = s]
      PROVE  Goal
  <2>1. /\ DOMAIN ceremonies' = DOMAIN ceremonies
        /\ ceremonies' = [d \in DOMAIN ceremonies |-> ceremonies'[d]]
        /\ \A d \in DOMAIN ceremonies : ceremonies'[d] \in CeremonyRow
    BY <1>0, <1>2 DEF CeremonyRow
  <2>2. ceremonies' \in Seq(CeremonyRow) /\ Len(ceremonies') = Len(ceremonies)
    BY <1>0, <2>1, RowsUpdated
  <2> QED
    BY <1>0, <2>1, <2>2 DEF CeremonyType
<1>3. CASE CommitAssertion(q) \/ CommitInvalid(q)
  <2>1. op[q].kind = "passkey" => op[q].ceremony \in DOMAIN ceremonies
    BY DEF Inv, ChallengeHeld, HoldsChallenge
  <2>2. \/ UNCHANGED ceremonies
        \/ /\ op[q].kind = "passkey"
           /\ \E s \in {"used", "invalid"} : ceremonies' = [ceremonies EXCEPT ![op[q].ceremony].status = s]
    BY <1>3 DEF CommitAssertion, CommitInvalid, Committing
  <2> HIDE DEF Goal
  <2> QED
    BY <1>1, <1>2, <2>1, <2>2
<1>4. CASE CommitCeremony(q)
  <2> DEFINE row == [challenge |-> op[q].row, status |-> "open"]
  <2>1. ceremonies' = Append(ceremonies, row) /\ Len(ceremonies) < MaxRows
    BY <1>4 DEF CommitCeremony
  <2>2. row \in CeremonyRow
    BY DEF CeremonyRow, Inv, TypeOK
  <2> HIDE DEF row
  <2>3. ceremonies' \in Seq(CeremonyRow) /\ Len(ceremonies') = Len(ceremonies) + 1
    BY <1>0, <2>1, <2>2, AppendProperties
  <2>4. DOMAIN ceremonies' = 1..(Len(ceremonies) + 1)
    BY <2>3, LenProperties
  <2>5. Len(ceremonies') <= MaxRows
    BY <1>0, <2>1, <2>3, MfaAssumption
  <2>6. DOMAIN ceremonies \subseteq DOMAIN ceremonies'
    BY <1>0, <2>4
  <2> QED
    BY <2>3, <2>5, <2>6 DEF CeremonyType
<1>5. UNCHANGED ceremonies \/ CommitAssertion(q) \/ CommitInvalid(q) \/ CommitCeremony(q)
  BY StatementReads DEF RequestStep, dbVars, historyVars, worldVars, Leaving, Committed,
     CommitAssertionRejected, IssueSession, RevokeOtherSessions, Abort, Cancel, CommitChallenge,
     CommitRejected, CommitVerified, CommitSetup, CommitConfirm, CommitRegenerate, CommitDisable
<1> HIDE DEF Goal
<1> QED
  BY <1>1, <1>3, <1>4, <1>5

LEMMA OtherTypes ==
    ASSUME Inv, NEW q \in Requests, RequestStep(q)
    PROVE  SessionType' /\ TimeType' /\ AnswerType' /\ started' \in Nat /\ faults' \in Nat
<1>0. /\ TypeOK /\ SessionType /\ TimeType /\ AnswerType /\ started \in Nat /\ faults \in Nat
      /\ op[q].family \in Nat
  BY TypeParts DEF Inv, LocalType, OpType, Numbers
<1>1. started' \in Nat /\ faults' \in Nat
  <2>1. started' \in {started, started + 1} /\ faults' \in {faults, faults + 1}
    <3>1. CASE Starting(q)
      <4>1. PICK request \in OpType, label \in Labels : Begin(q, request, label)
        BY <1>0, <3>1, StartingEffect DEF StartOf
      <4> QED
        BY <4>1 DEF Begin
    <3>2. CASE Statement(q)
      BY <3>2 DEF Statement, ReadMethods, LockUser, Snapshot, SweepRow, SweepDone, LockChallenge,
                  LockCeremony, ReadEnabled, LockMethod, worldVars, boundVars
    <3>3. CASE Leaving(q) \/ Committed(q)
      BY <3>3 DEF Leaving, Committed, CommitChallenge, CommitRejected, CommitInvalid, CommitVerified,
                  CommitCeremony, CommitAssertion, CommitSetup, CommitConfirm, CommitRegenerate,
                  CommitDisable, CommitAssertionRejected, IssueSession, RevokeOtherSessions, Abort,
                  Cancel, worldVars, boundVars
    <3> QED
      BY <3>1, <3>2, <3>3 DEF RequestStep
  <2> QED
    BY <1>0, <2>1
<1>2. SessionType'
  <2>1. CASE UNCHANGED <<accountVars, enrolled>>
    BY <1>0, <2>1 DEF SessionType, accountVars
  <2>2. CASE IssueSession(q)
    <3>1. /\ families' = families + 1 /\ sessions' = sessions \cup {families + 1}
          /\ second' \in {second, second \cup {families + 1}} /\ UNCHANGED <<passkey, active, enrolled>>
      BY <2>2 DEF IssueSession, historyVars
    <3> QED
      BY <1>0, <3>1 DEF SessionType
  <2>3. CASE RevokeOtherSessions(q) \/ CommitDisable(q)
    <3>1. /\ sessions' \subseteq sessions /\ enrolled' \in {enrolled, op[q].family, 0}
          /\ UNCHANGED <<passkey, active, second, families>>
      BY <2>3 DEF RevokeOtherSessions, CommitDisable
    <3> QED
      BY <1>0, <3>1 DEF SessionType
  <2>4. UNCHANGED <<accountVars, enrolled>> \/ IssueSession(q) \/ RevokeOtherSessions(q) \/ CommitDisable(q)
    BY StatementReads DEF RequestStep, historyVars, worldVars, Leaving, Committed,
       CommitAssertionRejected, Abort, Cancel, CommitChallenge, CommitRejected, CommitInvalid,
       CommitVerified, CommitCeremony, CommitAssertion, CommitSetup, CommitConfirm, CommitRegenerate
  <2> QED
    BY <2>1, <2>2, <2>3, <2>4
<1>3. TimeType'
  <2>1. /\ UNCHANGED <<clock, ticks>> /\ overdue' \subseteq overdue
    BY StatementReads DEF RequestStep, timeVars, worldVars, Leaving, Committed,
       CommitAssertionRejected, Abort, Cancel, CommitChallenge, CommitRejected, CommitInvalid,
       CommitVerified, CommitCeremony, CommitAssertion, CommitSetup, CommitConfirm, CommitRegenerate,
       CommitDisable, IssueSession, RevokeOtherSessions
  <2> QED
    BY <1>0, <2>1 DEF TimeType
<1>4. AnswerType'
  <2>1. \/ UNCHANGED answers
        \/ answers' = [answers EXCEPT ![op[q].row].wrong = @ + 1]
        \/ answers' = [answers EXCEPT ![op[q].row].right = @ + 1]
    BY StatementReads DEF RequestStep, historyVars, worldVars, Leaving, Committed,
       CommitAssertionRejected, Abort, Cancel, CommitChallenge, CommitRejected, CommitInvalid,
       CommitVerified, CommitCeremony, CommitAssertion, CommitSetup, CommitConfirm, CommitRegenerate,
       CommitDisable, IssueSession, RevokeOtherSessions
  <2>2. \A c \in Ids : answers[c] \in [wrong : Nat, right : Nat]
    BY <1>0 DEF AnswerType
  <2> QED
    BY <1>0, <2>1, <2>2 DEF AnswerType
<1> QED
  BY <1>1, <1>2, <1>3, <1>4

LEMMA TypeStep ==
    ASSUME Inv, NEW q \in Requests, RequestStep(q)
    PROVE  TypeOK'
<1>1. challenges' \in Seq(ChallengeRow) /\ Len(challenges') <= MaxRows
  BY ChallengesKept DEF ChallengeEffect
<1>2. LocalType' /\ FactorType' /\ CeremonyType'
  BY LocalStep, FactorStep, CeremoniesKept
<1>3. SessionType' /\ TimeType' /\ AnswerType' /\ started' \in Nat /\ faults' \in Nat
  BY OtherTypes
<1> QED
  BY <1>1, <1>2, <1>3 DEF TypeOK, LocalType, FactorType, CeremonyType, SessionType, TimeType, AnswerType,
         ChallengeRow, CeremonyRow, OpType, MethodRow, CodeSpace, Numbers

\* A request keeps what it relies on while another one moves: the rows it has
\* locked stay as they are.
LEMMA OthersKept ==
    ASSUME Inv, NEW q \in Requests, RequestStep(q), NEW p \in Requests \ {q}
    PROVE  KindAt(p)' /\ HoldsChallenge(p)' /\ HoldsFactor(p)' /\ HoldsUser(p)' /\ Covers(p)'
<1>1. /\ pc'[p] = pc[p] /\ op'[p] = op[p] /\ verdict'[p] = verdict[p] /\ seen'[p] = seen[p]
      /\ todo'[p] = todo[p] /\ marked'[p] = marked[p]
      /\ \A c \in Ids : challengeLock[c] = p => challengeLock'[c] = p
      /\ methodLock = p => methodLock' = p
      /\ userLock = p => userLock' = p
  BY LocalStep DEF Isolated
<1>2. KindAt(p) /\ HoldsChallenge(p) /\ HoldsFactor(p) /\ HoldsUser(p) /\ Covers(p)
  BY DEF Inv, KindAtLabel, ChallengeHeld, FactorHeld, UserHeld, SweepCovers
<1>3. /\ DOMAIN challenges \subseteq DOMAIN challenges' /\ DOMAIN challenges \subseteq Ids
      /\ DOMAIN ceremonies \subseteq DOMAIN ceremonies'
      /\ DOMAIN challenges' = DOMAIN challenges \/ CommitChallenge(q)
      /\ \A c \in DOMAIN challenges :
           /\ challengeLock[c] # q => challenges'[c] = challenges[c]
           /\ challenges[c].status # "open" => challenges'[c].status = challenges[c].status
  <2>1. TypeOK
    BY DEF Inv
  <2> QED
    BY <2>1, ChallengesKept, CeremoniesKept, RowTypes DEF ChallengeEffect
<1>4. userLock = p => ~CommitChallenge(q) /\ UNCHANGED <<method, codes>>
  <2>1. userLock = p => \A kinds, outcomes : ~Committing(q, kinds, outcomes)
    BY MfaAssumption DEF Committing, Free
  <2> QED
    BY <2>1, FactorsKept DEF CommitChallenge, CommitVerified, CommitSetup, CommitConfirm, CommitRegenerate,
       CommitDisable
<1>5. methodLock = p /\ method.state # "absent" => UNCHANGED <<method, codes>>
  <2>1. ASSUME methodLock = p, method.state # "absent",
               CommitVerified(q) \/ CommitSetup(q) \/ CommitConfirm(q) \/ CommitRegenerate(q) \/ CommitDisable(q)
        PROVE  FALSE
    <3>1. HoldsFactor(q) /\ HoldsUser(q)
      BY DEF Inv, FactorHeld, UserHeld
    <3>2. methodLock # q
      BY <2>1
    <3>3. CASE CommitSetup(q)
      BY <2>1, <3>1, <3>2, <3>3 DEF HoldsUser, CommitSetup, Committing
    <3>4. CASE CommitVerified(q) \/ CommitConfirm(q) \/ CommitRegenerate(q) \/ CommitDisable(q)
      BY <3>1, <3>2, <3>4 DEF HoldsFactor, Consuming, CommitVerified, CommitConfirm, CommitRegenerate,
                              CommitDisable, Committing
    <3> QED
      BY <2>1, <3>3, <3>4
  <2> QED
    BY <2>1, FactorsKept
<1>6. KindAt(p)'
  BY <1>1, <1>2 DEF KindAt
<1>7. HoldsChallenge(p)'
  <2>1. \A c \in DOMAIN challenges : challengeLock[c] = p => challenges'[c] = challenges[c] /\ challengeLock'[c] = p
    BY <1>1, <1>3
  <2> QED
    BY <1>1, <1>2, <1>3, <2>1 DEF HoldsChallenge
<1>8. HoldsFactor(p)'
  BY <1>1, <1>2, <1>5 DEF HoldsFactor
<1>9. HoldsUser(p)'
  BY <1>1, <1>2, <1>4 DEF HoldsUser
<1>10. Covers(p)'
  <2>1. op[p].kind = "login" /\ pc[p] \in {"sweep", "commit"} => userLock = p
    BY <1>2 DEF HoldsUser
  <2>2. userLock = p => /\ DOMAIN challenges' = DOMAIN challenges
                        /\ \A c \in DOMAIN challenges : challenges'[c].status = "open" => challenges[c].status = "open"
    BY <1>3, <1>4
  <2> QED
    BY <1>1, <1>2, <2>1, <2>2 DEF Covers, Open
<1> QED
  BY <1>6, <1>7, <1>8, <1>9, <1>10

\* What a request relies on, established by its own statements.
Secure(q) == KindAt(q) /\ HoldsChallenge(q) /\ HoldsFactor(q) /\ HoldsUser(q) /\ Covers(q)

LEMMA EndKept ==
    ASSUME Inv, NEW q \in Requests, RequestStep(q), NEW label \in {"idle", "issue", "revokeOthers"},
           EndTransaction(q, label)
    PROVE  Secure(q)'
<1>1. /\ pc'[q] = label /\ verdict'[q] = "none" /\ todo'[q] = {} /\ marked'[q] = {}
      /\ label = "idle" => op'[q] = NoOp
      /\ label # "idle" => op'[q] = op[q]
  BY TypesLocal, EndEffect DEF Inv, Labels
<1>2. /\ op[q].kind \in Answering => op[q].row \in DOMAIN challenges
      /\ op[q].kind = "passkey" => op[q].ceremony \in DOMAIN ceremonies
  BY DEF Inv, ChallengeHeld, HoldsChallenge
<1>3. DOMAIN challenges \subseteq DOMAIN challenges' /\ DOMAIN ceremonies \subseteq DOMAIN ceremonies'
  BY ChallengesKept, CeremoniesKept DEF ChallengeEffect
<1>4. NoOp.kind = "login"
  BY NoOpType
<1>5. KindAt(q)'
  BY <1>1, <1>4 DEF KindAt
<1>6. HoldsChallenge(q)'
  BY <1>1, <1>2, <1>3, <1>4 DEF HoldsChallenge, Answering
<1>7. HoldsFactor(q)' /\ HoldsUser(q)' /\ Covers(q)'
  BY <1>1, <1>4 DEF HoldsFactor, HoldsUser, Covers
<1> QED
  BY <1>5, <1>6, <1>7 DEF Secure

LEMMA StartKept ==
    ASSUME Inv, NEW q \in Requests, Starting(q)
    PROVE  Secure(q)'
<1>1. PICK request \in OpType, label \in Labels : StartOf(q, request, label)
  BY StartingEffect DEF Inv
<1>2. /\ pc'[q] = label /\ op'[q] = request /\ pc[q] = "idle"
      /\ UNCHANGED <<challenges, ceremonies, method, codes, challengeLock, methodLock, userLock, verdict,
                     seen, todo, marked>>
  BY <1>1 DEF StartOf, Begin, Goto, dbVars, lockVars, workVars, Inv, TypeOK
<1>3. /\ verdict[q] = "none" /\ todo[q] \subseteq DOMAIN challenges
      /\ \A c \in marked[q] : /\ c \in DOMAIN challenges /\ challengeLock[c] = q
                             /\ challenges[c].status # "used"
  BY <1>2 DEF Inv, KindAtLabel, KindAt, ChallengeHeld, HoldsChallenge
<1>4. KindAt(q)' /\ HoldsFactor(q)' /\ HoldsUser(q)' /\ Covers(q)'
  BY <1>1, <1>2, <1>3 DEF StartOf, KindAt, HoldsFactor, HoldsUser, Covers, Answering, Consuming
<1>5. HoldsChallenge(q)'
  BY <1>1, <1>2, <1>3 DEF StartOf, HoldsChallenge, Answering
<1> QED
  BY <1>4, <1>5 DEF Secure

LEMMA StatementKept ==
    ASSUME Inv, NEW q \in Requests, Statement(q), ~Release(q)
    PROVE  Secure(q)'
<1> DEFINE Goal == Secure(q)'
<1> SUFFICES Goal
  OBVIOUS
<1>0. LocalType /\ LocalType' /\ Secure(q)
  BY TypesLocal, LocalStep DEF RequestStep, Inv, Secure, KindAtLabel, ChallengeHeld, FactorHeld, UserHeld,
     SweepCovers
<1>1. UNCHANGED <<challenges, ceremonies, method, codes, op>>
  <2>1. UNCHANGED <<challenges, ceremonies, method, codes>>
    BY StatementReads DEF dbVars
  <2>2. UNCHANGED op
    BY DEF Statement, ReadMethods, LockUser, Snapshot, SweepRow, SweepDone, LockChallenge,
           LockCeremony, ReadEnabled, LockMethod
  <2> QED
    BY <2>1, <2>2
<1>2. CASE ReadMethods(q) \/ SweepDone(q) \/ ReadEnabled(q)
  <2>1. /\ UNCHANGED <<challengeLock, methodLock, userLock, verdict, seen, todo, marked>>
        /\ \/ pc[q] = "readMethods" /\ pc'[q] \in {"lockUser", "issue"}
           \/ pc[q] = "sweep" /\ pc'[q] = "commit" /\ todo[q] = {}
           \/ pc[q] = "readEnabled" /\ pc'[q] = "lockMethod" /\ method.state # "enabled"
    BY <1>0, <1>2 DEF ReadMethods, SweepDone, ReadEnabled, Goto, Enabled, lockVars, workVars, LocalType
  <2>2. pc[q] = "readMethods" => op[q].kind = "login"
    BY <1>0 DEF Secure, KindAt
  <2>3. KindAt(q)' /\ HoldsFactor(q)' /\ HoldsUser(q)'
    BY <1>0, <1>1, <2>1, <2>2 DEF Secure, KindAt, HoldsFactor, HoldsUser, Consuming
  <2>4. HoldsChallenge(q)' /\ Covers(q)'
    BY <1>0, <1>1, <2>1, <2>2 DEF Secure, KindAt, HoldsChallenge, Covers, Open, Answering
  <2> QED
    BY <2>3, <2>4 DEF Secure
<1>3. CASE LockUser(q)
  <2>1. /\ UNCHANGED <<challengeLock, methodLock, verdict, seen, todo, marked>> /\ userLock' = q
        /\ pc[q] = "lockUser" /\ pc'[q] = IF op[q].kind = "login" THEN "snapshot" ELSE "readEnabled"
    BY <1>0, <1>3 DEF LockUser, Goto, workVars, LocalType
  <2> QED
    BY <1>0, <1>1, <2>1 DEF Secure, KindAt, HoldsChallenge, HoldsFactor, HoldsUser, Covers, Open,
                            Answering, Consuming
<1>4. CASE Snapshot(q)
  <2>1. /\ UNCHANGED <<challengeLock, methodLock, userLock, verdict, seen, marked>>
        /\ todo'[q] = {c \in DOMAIN challenges : Matches(op[q].kind, c)}
        /\ pc[q] = "snapshot" /\ pc'[q] = "sweep"
    BY <1>0, <1>4 DEF Snapshot, Goto, lockVars, LocalType
  <2> QED
    BY <1>0, <1>1, <2>1 DEF Secure, KindAt, HoldsChallenge, HoldsFactor, HoldsUser, Covers, Open, Matches,
                            Answering, Consuming
<1>5. CASE \E c \in Ids : SweepRow(q, c)
  <2>1. PICK c \in Ids : SweepRow(q, c)
    BY <1>5
  <2>2. /\ UNCHANGED <<methodLock, userLock, verdict, seen, pc>> /\ pc[q] = "sweep"
        /\ challengeLock'[c] = q /\ \A d \in Ids : challengeLock[d] = q => challengeLock'[d] = q
        /\ c \in todo[q] /\ todo'[q] = todo[q] \ {c}
        /\ marked'[q] = IF Matches(op[q].kind, c) THEN marked[q] \cup {c} ELSE marked[q]
    BY <1>0, <2>1 DEF SweepRow, LocalType
  <2>3. KindAt(q)' /\ HoldsFactor(q)' /\ HoldsUser(q)'
    BY <1>0, <1>1, <2>2 DEF Secure, KindAt, HoldsFactor, HoldsUser
  <2>4. HoldsChallenge(q)'
    <3>1. op[q].kind \notin Answering
      BY <1>0, <2>2 DEF Secure, KindAt, Answering
    <3>2. Matches(op[q].kind, c) => challenges[c].status # "used"
      BY DEF Matches, Open
    <3>3. marked[q] \subseteq Ids
      BY <1>0 DEF LocalType
    <3> QED
      BY <1>0, <1>1, <2>2, <3>1, <3>2, <3>3 DEF Secure, HoldsChallenge, Answering
  <2>5. Covers(q)'
    BY <1>0, <1>1, <2>2 DEF Secure, Covers, Matches, Open
  <2> QED
    BY <2>3, <2>4, <2>5 DEF Secure
<1>6. CASE LockChallenge(q)
  <2>1. /\ UNCHANGED <<methodLock, userLock, todo, marked>> /\ pc[q] = "lockChallenge"
        /\ op[q].kind \in Answering /\ op[q].row \in Ids /\ op[q].row \in DOMAIN challenges
        /\ challenges[op[q].row].status = "open"
        /\ challengeLock'[op[q].row] = q /\ \A d \in Ids : challengeLock[d] = q => challengeLock'[d] = q
        /\ seen'[q] = challenges[op[q].row].attempts
    <3>1. pc[q] = "lockChallenge"
      BY <1>6 DEF LockChallenge
    <3>2. op[q].kind \in Answering /\ op[q].row \in DOMAIN challenges /\ op[q].row \in Ids
      BY <1>0, <3>1 DEF Secure, KindAt, HoldsChallenge, LocalType, OpType
    <3>3. /\ challengeLock' = [challengeLock EXCEPT ![op[q].row] = q]
          /\ seen' = [seen EXCEPT ![q] = challenges[op[q].row].attempts]
          /\ UNCHANGED <<methodLock, userLock, todo, marked>>
          /\ challenges[op[q].row].status = "open"
      BY <1>6 DEF LockChallenge, Open
    <3>4. challengeLock'[op[q].row] = q /\ \A d \in Ids : challengeLock[d] = q => challengeLock'[d] = q
      BY <1>0, <3>2, <3>3 DEF LocalType
    <3>5. seen'[q] = challenges[op[q].row].attempts
      BY <1>0, <3>3 DEF LocalType
    <3> QED
      BY <3>1, <3>2, <3>3, <3>4, <3>5
  <2>2. \/ /\ pc'[q] = "commit" /\ verdict'[q] = "none" /\ op[q].kind = "options"
        \/ /\ pc'[q] = "commit" /\ verdict'[q] = "invalidate"
        \/ /\ pc'[q] = "lockMethod" /\ verdict'[q] = "none" /\ op[q].kind = "verify"
           /\ challenges[op[q].row].attempts < MaxAttempts
        \/ /\ pc'[q] = "lockCeremony" /\ verdict'[q] = "none" /\ op[q].kind = "passkey"
    <3> DEFINE c == op[q].row
               kind == op[q].kind
               fresh == IF kind = "verify" THEN Answerable(c)
                        ELSE Open(c) /\ <<"challenge", c>> \notin overdue
    <3>1. /\ fresh \/ kind = "verify"
          /\ verdict' = [verdict EXCEPT ![q] = IF fresh THEN "none" ELSE "invalidate"]
          /\ Goto(q, CASE ~fresh \/ kind = "options" -> "commit"
                       [] fresh /\ kind = "verify" -> "lockMethod"
                       [] OTHER -> "lockCeremony")
      BY <1>6 DEF LockChallenge
    <3>2. fresh /\ kind = "verify" => challenges[c].attempts < MaxAttempts
      BY DEF Answerable
    <3>3. kind \in {"verify", "options", "passkey"}
      BY <2>1 DEF Answering
    <3>4. \/ pc' = [pc EXCEPT ![q] = "commit"] /\ ~fresh
          \/ pc' = [pc EXCEPT ![q] = "commit"] /\ fresh /\ kind = "options"
          \/ pc' = [pc EXCEPT ![q] = "lockMethod"] /\ fresh /\ kind = "verify"
          \/ pc' = [pc EXCEPT ![q] = "lockCeremony"] /\ fresh /\ kind = "passkey"
      <4> HIDE DEF fresh, kind
      <4>1. CASE ~fresh
        BY <3>1, <4>1 DEF Goto
      <4>2. CASE fresh
        BY <3>1, <3>3, <4>2 DEF Goto
      <4> QED
        BY <4>1, <4>2
    <3>5. verdict'[q] = IF fresh THEN "none" ELSE "invalidate"
      <4> HIDE DEF fresh
      <4> QED
        BY <1>0, <3>1 DEF LocalType
    <3> HIDE DEF fresh
    <3> QED
      BY <1>0, <3>2, <3>4, <3>5 DEF LocalType
  <2>3. KindAt(q)' /\ HoldsFactor(q)' /\ HoldsUser(q)' /\ Covers(q)'
    BY <1>0, <1>1, <2>1, <2>2 DEF Secure, KindAt, HoldsFactor, HoldsUser, Covers, Answering, Consuming
  <2>4. HoldsChallenge(q)'
    <3>1. marked[q] \subseteq Ids
      BY <1>0 DEF LocalType
    <3> QED
      BY <1>0, <1>1, <2>1, <2>2, <3>1 DEF Secure, HoldsChallenge, Answering
  <2> QED
    BY <2>3, <2>4 DEF Secure
<1>7. CASE LockCeremony(q)
  <2>1. /\ UNCHANGED <<challengeLock, methodLock, userLock, seen, todo, marked>>
        /\ pc[q] = "lockCeremony" /\ pc'[q] = "commit"
    BY <1>0, <1>7 DEF LockCeremony, Goto, LocalType
  <2> QED
    BY <1>0, <1>1, <2>1 DEF Secure, KindAt, HoldsChallenge, HoldsFactor, HoldsUser, Covers, Answering, Consuming
<1>8. CASE LockMethod(q)
  <2>1. /\ UNCHANGED <<challengeLock, userLock, seen, todo, marked>>
        /\ pc[q] = "lockMethod" /\ pc'[q] = IF op[q].kind = "disable" THEN "snapshot" ELSE "commit"
        /\ verdict'[q] = Decision(q) /\ Decision(q) # "none"
        /\ method.state = "absent" \/ methodLock' = q
    <3>1. /\ UNCHANGED <<challengeLock, userLock, seen, todo, marked>>
          /\ pc[q] = "lockMethod" /\ Decision(q) # "none"
          /\ pc' = [pc EXCEPT ![q] = IF op[q].kind = "disable" THEN "snapshot" ELSE "commit"]
          /\ verdict' = [verdict EXCEPT ![q] = Decision(q)]
          /\ method.state = "absent" \/ methodLock' = q
      BY <1>8 DEF LockMethod, Goto
    <3> QED
      BY <1>0, <3>1 DEF LocalType
  <2>2. op[q].kind \in {"verify", "confirm", "regenerate", "disable", "setup"}
    BY <1>0, <2>1 DEF Secure, KindAt, Consuming
  <2>3. /\ op[q].kind = "setup" => Decision(q) = "accept"
        /\ op[q].kind = "confirm" /\ Decision(q) = "accept" =>
             method.state = "pending" /\ op[q].factor.type = "totp" /\ op[q].factor.of = method.secret
        /\ op[q].kind \in {"verify", "regenerate", "disable"} /\ Decision(q) = "accept" =>
             /\ method.state = "enabled"
             /\ \/ /\ op[q].factor.type = "totp" /\ op[q].factor.of = method.secret
                   /\ op[q].factor.n > method.last
                \/ op[q].factor.type = "recovery" /\ <<op[q].factor.of, op[q].factor.n>> \in codes
    BY DEF Decision, Matching, Consumable, Enabled
  <2> HIDE DEF Decision
  <2>4. KindAt(q)'
    BY <1>1, <2>1, <2>2, <2>3 DEF KindAt
  <2>5. HoldsFactor(q)'
    BY <1>1, <2>1, <2>2, <2>3 DEF HoldsFactor, Consuming
  <2>6. HoldsChallenge(q)' /\ HoldsUser(q)' /\ Covers(q)'
    BY <1>0, <1>1, <2>1, <2>2 DEF Secure, KindAt, HoldsChallenge, HoldsUser, Covers, Answering
  <2> QED
    BY <2>4, <2>5, <2>6 DEF Secure
<1> HIDE DEF Goal
<1> QED
  BY <1>2, <1>3, <1>4, <1>5, <1>6, <1>7, <1>8 DEF Statement

\* A new login's challenge takes the place of the ones it marked.
LEMMA ChallengeReplaced ==
    ASSUME Inv, NEW q \in Requests, CommitChallenge(q)
    PROVE  /\ op[q].kind = "login" /\ pc[q] = "commit" /\ Len(challenges) \in Nat
           /\ DOMAIN challenges = 1..Len(challenges) /\ DOMAIN challenges' = 1..(Len(challenges) + 1)
           /\ \A c \in DOMAIN challenges :
                /\ challenges'[c].attempts = challenges[c].attempts
                /\ c \in marked[q] => challenges'[c].status = "invalid"
                /\ c \notin marked[q] => challenges'[c] = challenges[c]
           /\ challenges'[Len(challenges) + 1].attempts = 0
<1> DEFINE swept == [c \in DOMAIN challenges |->
                       IF c \in marked[q] THEN [challenges[c] EXCEPT !.status = "invalid"]
                       ELSE challenges[c]]
           new == [status |-> "open", attempts |-> 0]
<1>1. challenges' = Append(swept, new) /\ op[q].kind = "login" /\ pc[q] = "commit"
  BY DEF CommitChallenge, Committing
<1>2. /\ challenges \in Seq(ChallengeRow) /\ DOMAIN challenges = 1..Len(challenges) /\ Len(challenges) \in Nat
      /\ \A c \in DOMAIN challenges : challenges[c] \in ChallengeRow
  BY RowTypes DEF Inv
<1>3. \A c \in DOMAIN challenges :
        /\ swept[c] \in ChallengeRow /\ swept[c].attempts = challenges[c].attempts
        /\ c \in marked[q] => swept[c].status = "invalid"
        /\ c \notin marked[q] => swept[c] = challenges[c]
  BY <1>2 DEF ChallengeRow
<1>4. DOMAIN swept = DOMAIN challenges /\ swept = [c \in DOMAIN challenges |-> swept[c]]
  OBVIOUS
<1>5. new \in ChallengeRow /\ new.attempts = 0
  BY DEF ChallengeRow
<1> HIDE DEF swept, new
<1>6. swept \in Seq(ChallengeRow) /\ Len(swept) = Len(challenges)
  BY <1>2, <1>3, <1>4, RowsUpdated
<1>7. /\ challenges' \in Seq(ChallengeRow) /\ Len(challenges') = Len(challenges) + 1
      /\ \A c \in 1..Len(challenges) : challenges'[c] = swept[c]
      /\ challenges'[Len(challenges) + 1] = new
  BY <1>1, <1>5, <1>6, AppendProperties
<1>8. DOMAIN challenges' = 1..(Len(challenges) + 1)
  BY <1>7, LenProperties
<1> QED
  BY <1>1, <1>2, <1>3, <1>5, <1>7, <1>8

LEMMA OneOpenKept ==
    ASSUME Inv, NEW q \in Requests, RequestStep(q)
    PROVE  OneOpenChallenge'
<1>1. ChallengeEffect(q) /\ OneOpenChallenge
  BY ChallengesKept DEF Inv
<1>2. \A c \in DOMAIN challenges : challenges'[c].status = "open" => challenges[c].status = "open"
  BY <1>1 DEF ChallengeEffect
<1>3. CASE DOMAIN challenges' = DOMAIN challenges
  BY <1>1, <1>2, <1>3 DEF OneOpenChallenge, Open
<1>4. CASE CommitChallenge(q)
  <2>1. \A c \in DOMAIN challenges : challenges[c].status = "open" => c \in marked[q]
    BY <1>4, ChallengeReplaced DEF Inv, SweepCovers, Covers, Open
  <2>2. \A c \in DOMAIN challenges : challenges'[c].status # "open"
    BY <1>4, <2>1, ChallengeReplaced
  <2>3. \A c \in DOMAIN challenges' : challenges'[c].status = "open" => c = Len(challenges) + 1
    BY <1>4, <2>2, ChallengeReplaced
  <2> QED
    BY <2>3 DEF OneOpenChallenge, Open
<1> QED
  BY <1>1, <1>3, <1>4 DEF ChallengeEffect

LEMMA CountedKept ==
    ASSUME Inv, NEW q \in Requests, RequestStep(q)
    PROVE  Counted'
<1> DEFINE Goal == Counted'
<1> SUFFICES Goal
  OBVIOUS
<1>0. /\ AnswerType /\ Counted /\ DOMAIN challenges \subseteq Ids
      /\ \A c \in DOMAIN challenges : challenges[c] \in ChallengeRow
      /\ \A c \in Ids : answers[c].right \in Nat /\ answers[c].wrong \in Nat
  <2>1. TypeOK
    BY DEF Inv
  <2> QED
    BY <2>1, TypeParts, RowTypes DEF Inv, AnswerType
<1>1. UNCHANGED answers \/ CommitRejected(q) \/ CommitVerified(q) \/ CommitAssertion(q)
  BY StatementReads DEF RequestStep, historyVars, worldVars, Leaving, Committed,
     CommitAssertionRejected, Abort, Cancel, CommitChallenge, CommitInvalid,
     CommitCeremony, CommitSetup, CommitConfirm, CommitRegenerate,
     CommitDisable, IssueSession, RevokeOtherSessions
<1>2. CASE UNCHANGED challenges /\ UNCHANGED answers
  BY <1>0, <1>2 DEF Counted
\* Rows are closed but not used, or a new one is added.
<1>3. CASE /\ UNCHANGED answers
           /\ CommitChallenge(q) \/ CommitDisable(q) \/ (CommitInvalid(q) /\ op[q].kind = "verify")
  <2>1. /\ DOMAIN challenges \subseteq DOMAIN challenges'
        /\ \A c \in DOMAIN challenges : challenges'[c].attempts = challenges[c].attempts
        /\ \A c \in DOMAIN challenges : challenges[c].status = "used" => challenges'[c].status = "used"
        /\ \A c \in DOMAIN challenges' \ DOMAIN challenges : challenges'[c].attempts = 0
    <3>1. ChallengeEffect(q)
      BY ChallengesKept
    <3>2. CASE CommitDisable(q)
      <4>1. \A c \in DOMAIN challenges : challenges'[c].attempts = challenges[c].attempts
        BY <1>0, <3>2 DEF CommitDisable, ChallengeRow
      <4>2. DOMAIN challenges' = DOMAIN challenges
        BY <3>2 DEF CommitDisable
      <4> QED
        BY <3>1, <4>1, <4>2 DEF ChallengeEffect
    <3>3. CASE CommitInvalid(q) /\ op[q].kind = "verify"
      <4>1. \A c \in DOMAIN challenges : challenges'[c].attempts = challenges[c].attempts
        BY <1>0, <3>3 DEF CommitInvalid, Invalidated, ChallengeRow
      <4>2. DOMAIN challenges' = DOMAIN challenges
        BY <3>3 DEF CommitInvalid, Invalidated
      <4> QED
        BY <3>1, <4>1, <4>2 DEF ChallengeEffect
    <3>4. CASE CommitChallenge(q)
      <4>1. \A c \in DOMAIN challenges : challenges'[c].attempts = challenges[c].attempts
        BY <3>4, ChallengeReplaced
      <4>2. \A c \in DOMAIN challenges' \ DOMAIN challenges : challenges'[c].attempts = 0
        BY <3>4, ChallengeReplaced
      <4> QED
        BY <3>1, <4>1, <4>2 DEF ChallengeEffect
    <3> QED
      BY <1>3, <3>2, <3>3, <3>4
  <2>2. ASSUME NEW c \in Ids
        PROVE  /\ c \notin DOMAIN challenges' => answers'[c].right = 0 /\ answers'[c].wrong = 0
               /\ c \in DOMAIN challenges' =>
                    /\ answers'[c].right <= 1
                    /\ challenges'[c].status # "used" => answers'[c].right = 0
                    /\ answers'[c].wrong <= challenges'[c].attempts
                    /\ challenges'[c].attempts <= MaxAttempts
    BY <1>0, <1>3, <2>1, MfaAssumption DEF Counted
  <2> QED
    BY <2>2 DEF Counted
\* An answer is counted on the open challenge it holds.
<1>4. CASE CommitRejected(q) \/ CommitVerified(q) \/ CommitAssertion(q)
  <2> DEFINE c == op[q].row
  <2>1. /\ c \in DOMAIN challenges /\ challenges[c].status = "open" /\ seen[q] = challenges[c].attempts
        /\ CommitRejected(q) => seen[q] < MaxAttempts
    BY <1>4 DEF Inv, ChallengeHeld, HoldsChallenge, Answering, CommitRejected, CommitVerified,
                CommitAssertion, Committing
  <2>2. /\ DOMAIN challenges' = DOMAIN challenges
        /\ \A d \in DOMAIN challenges : d # c => challenges'[d] = challenges[d]
        /\ \A d \in Ids : d # c => answers'[d] = answers[d]
    BY <1>0, <1>4 DEF CommitRejected, CommitVerified, CommitAssertion, AnswerType
  <2>3. /\ answers[c].right = 0 /\ answers[c].wrong <= challenges[c].attempts /\ challenges[c].attempts <= MaxAttempts
        /\ challenges[c] \in ChallengeRow /\ c \in Ids /\ answers[c] \in [wrong : Nat, right : Nat]
    BY <1>0, <2>1 DEF Counted, AnswerType
  <2>4. /\ answers'[c].right <= 1
        /\ challenges'[c].status # "used" => answers'[c].right = 0
        /\ answers'[c].wrong <= challenges'[c].attempts /\ challenges'[c].attempts <= MaxAttempts
    <3>1. CASE CommitRejected(q)
      <4>1. /\ challenges'[c].attempts = challenges[c].attempts + 1
            /\ answers'[c].wrong = answers[c].wrong + 1 /\ answers'[c].right = answers[c].right
        BY <1>0, <2>1, <2>3, <3>1 DEF CommitRejected, AnswerType, ChallengeRow
      <4> QED
        BY <2>1, <2>3, <3>1, <4>1, MfaAssumption DEF ChallengeRow
    <3>2. CASE CommitVerified(q) \/ CommitAssertion(q)
      <4>1. /\ challenges'[c].status = "used" /\ challenges'[c].attempts = challenges[c].attempts
            /\ answers'[c].wrong = answers[c].wrong /\ answers'[c].right = answers[c].right + 1
        <5>1. /\ challenges' = [challenges EXCEPT ![c].status = "used"]
              /\ answers' = [answers EXCEPT ![c].right = @ + 1]
          BY <3>2 DEF CommitVerified, CommitAssertion
        <5> HIDE DEF c
        <5>2. challenges'[c].status = "used" /\ challenges'[c].attempts = challenges[c].attempts
          BY <2>1, <2>3, <5>1 DEF ChallengeRow
        <5>3. answers'[c].wrong = answers[c].wrong /\ answers'[c].right = answers[c].right + 1
          BY <1>0, <2>3, <5>1 DEF AnswerType
        <5> QED
          BY <5>2, <5>3
      <4> QED
        BY <2>3, <4>1
    <3> QED
      BY <1>4, <3>1, <3>2
  <2> HIDE DEF c
  <2>5. ASSUME NEW d \in Ids
        PROVE  /\ d \notin DOMAIN challenges' => answers'[d].right = 0 /\ answers'[d].wrong = 0
               /\ d \in DOMAIN challenges' =>
                    /\ answers'[d].right <= 1
                    /\ challenges'[d].status # "used" => answers'[d].right = 0
                    /\ answers'[d].wrong <= challenges'[d].attempts
                    /\ challenges'[d].attempts <= MaxAttempts
    <3>1. CASE d = c
      BY <2>1, <2>2, <2>4, <3>1
    <3>2. CASE d # c
      BY <1>0, <2>2, <3>2 DEF Counted
    <3> QED
      BY <3>1, <3>2
  <2> QED
    BY <2>5 DEF Counted
<1>5. \/ UNCHANGED challenges /\ UNCHANGED answers
      \/ UNCHANGED answers /\ (CommitChallenge(q) \/ CommitDisable(q) \/ (CommitInvalid(q) /\ op[q].kind = "verify"))
      \/ CommitRejected(q) \/ CommitVerified(q) \/ CommitAssertion(q)
  <2>1. \/ UNCHANGED challenges \/ CommitDisable(q) \/ CommitChallenge(q)
        \/ CommitRejected(q) \/ CommitVerified(q) \/ CommitAssertion(q)
        \/ (CommitInvalid(q) /\ op[q].kind = "verify")
    BY StatementReads DEF RequestStep, dbVars, worldVars, Leaving, CommitAssertionRejected, IssueSession,
       RevokeOtherSessions, Abort, Cancel, Committed, CommitInvalid, CommitCeremony, CommitSetup,
       CommitConfirm, CommitRegenerate
  <2> QED
    BY <1>1, <2>1
<1> HIDE DEF Goal
<1> QED
  BY <1>2, <1>3, <1>4, <1>5

-----------------------------------------------------------------------------
\* Time, and the account disabled by someone else.
LEMMA WorldKept ==
    ASSUME Inv, WorldStep
    PROVE  Inv'
<1>1. /\ UNCHANGED <<challenges, ceremonies, method, codes, codeSets, secrets, lockVars, pc, op, workVars,
                     accepted, answers, started, faults>>
      /\ UNCHANGED <<passkey, second, families, enrolled>>
  BY DEF WorldStep, Deactivate, NextTimeStep, DeadlinePasses, dbVars, historyVars, boundVars, accountVars
<1>2. active' \in BOOLEAN /\ sessions' \subseteq sessions
  <2>1. active \in BOOLEAN
    BY DEF Inv, TypeOK
  <2> QED
    BY <2>1 DEF WorldStep, Deactivate, NextTimeStep, DeadlinePasses, accountVars
<1>3. TimeType'
  <2>1. TimeType /\ TypeOK
    BY TypeParts DEF Inv
  <2>2. clock' \in 1..MaxTime /\ ticks' \in Nat
    <3>1. clock' = clock \/ (clock < MaxTime /\ clock' = clock + 1)
      BY DEF WorldStep, Deactivate, NextTimeStep, DeadlinePasses, timeVars
    <3>2. ticks' = ticks \/ ticks' = ticks + 1
      BY DEF WorldStep, Deactivate, NextTimeStep, DeadlinePasses, timeVars, Tick
    <3> QED
      BY <2>1, <3>1, <3>2, MfaAssumption DEF TimeType
  <2>3. DOMAIN challenges \subseteq Ids /\ DOMAIN ceremonies \subseteq Ids
    BY <2>1, RowTypes
  <2>4. CASE DeadlinePasses
    <3>1. PICK d \in ({"challenge"} \X {c \in DOMAIN challenges : Open(c)})
                     \cup ({"ceremony"} \X {e \in DOMAIN ceremonies : ceremonies[e].status = "open"})
                     \cup (IF method.state = "pending" THEN {<<"setup", 0>>} ELSE {}) :
                 overdue' = overdue \cup {d}
      BY <2>4 DEF DeadlinePasses
    <3>2. d \in ({"challenge", "ceremony"} \X Ids) \cup {<<"setup", 0>>}
      BY <2>3, <3>1
    <3> QED
      BY <2>1, <2>2, <3>1, <3>2 DEF TimeType
  <2>5. CASE ~DeadlinePasses
    <3>1. overdue' = overdue
      BY <2>5 DEF WorldStep, Deactivate, NextTimeStep, timeVars
    <3> QED
      BY <2>1, <2>2, <3>1 DEF TimeType
  <2> QED
    BY <2>4, <2>5
<1>4. TypeOK'
  <2>1. /\ challenges \in Seq(ChallengeRow) /\ Len(challenges) <= MaxRows
        /\ LocalType /\ FactorType /\ CeremonyType /\ SessionType /\ AnswerType
        /\ started \in Nat /\ faults \in Nat
    BY TypeParts DEF Inv
  <2>2. /\ LocalType' /\ FactorType' /\ CeremonyType' /\ SessionType' /\ AnswerType'
        /\ challenges' \in Seq(ChallengeRow) /\ Len(challenges') <= MaxRows
        /\ started' \in Nat /\ faults' \in Nat
    BY <1>1, <1>2, <2>1 DEF lockVars, workVars, LocalType, FactorType, CeremonyType, SessionType, AnswerType
  <2> QED
    BY <1>3, <2>2 DEF TypeOK, LocalType, FactorType, CeremonyType, SessionType, TimeType, AnswerType,
       ChallengeRow, CeremonyRow, OpType, MethodRow, CodeSpace, Numbers
<1>5. KindAtLabel' /\ ChallengeHeld' /\ FactorHeld' /\ UserHeld' /\ SweepCovers'
  BY <1>1 DEF Inv, lockVars, workVars, KindAtLabel, KindAt, ChallengeHeld, HoldsChallenge, FactorHeld,
     HoldsFactor, UserHeld, HoldsUser, SweepCovers, Covers, Open
<1>6. Spent' /\ Counted' /\ FactorUsedOnce' /\ OneOpenChallenge' /\ EnabledIsConfirmed'
  BY <1>1 DEF Inv, Spent, Used, Counted, FactorUsedOnce, OneOpenChallenge, Open, EnabledIsConfirmed, Enabled
<1> QED
  BY <1>4, <1>5, <1>6 DEF Inv

LEMMA InitInv == Init => Inv
<1> SUFFICES ASSUME Init PROVE Inv
  OBVIOUS
<1>1. 1 \in Nat /\ 0 \in Nat /\ 1 \in 1..MaxTime /\ MaxRows \in Nat
  BY MfaAssumption
<1>2. /\ challenges = << >> /\ ceremonies = << >> /\ DOMAIN challenges = {}
      /\ challenges \in Seq(ChallengeRow) /\ CeremonyType /\ Len(challenges) <= MaxRows
  BY <1>1 DEF Init, CeremonyType
<1>3. LocalType
  BY NoOpType DEF Init, LocalType, Labels, Verdicts
<1>4. FactorType /\ Spent /\ FactorUsedOnce /\ EnabledIsConfirmed
  <2>1. CASE method = NoMethod /\ codes = {} /\ codeSets = 0 /\ secrets = 0 /\ accepted = << >>
    BY <2>1 DEF NoMethod, FactorType, MethodRow, Numbers, Spent, FactorUsedOnce, EnabledIsConfirmed, Enabled
  <2> DEFINE f == [type |-> "totp", of |-> 1, n |-> 1]
  <2>2. CASE /\ method = [state |-> "enabled", secret |-> 1, last |-> 1, confirmed |-> 1]
             /\ codes = {1} \X (1..CodesPerSet) /\ codeSets = 1 /\ secrets = 1 /\ accepted = << f >>
    <3>1. f \in Factor /\ f.type = "totp" /\ f.of = 1 /\ f.n = 1
      BY DEF Factor, Numbers
    <3> HIDE DEF f
    <3>2. accepted \in Seq(Factor) /\ DOMAIN accepted = {1} /\ accepted[1] = f
      BY <2>2, <3>1
    <3>3. /\ method \in MethodRow /\ method.state = "enabled" /\ method.secret = 1 /\ method.last = 1
          /\ method.confirmed = 1
      BY <2>2 DEF MethodRow, Numbers
    <3>4. codes \subseteq CodeSpace /\ \A x \in codes : x[1] <= codeSets
      BY <2>2 DEF CodeSpace, Numbers
    <3>5. Spent
      BY <2>2, <3>1, <3>2, <3>3, <3>4 DEF Spent, Used
    <3> QED
      BY <2>2, <3>2, <3>3, <3>4, <3>5 DEF FactorType, FactorUsedOnce, EnabledIsConfirmed
  <2> QED
    BY <2>1, <2>2 DEF Init
<1>5. SessionType /\ TimeType /\ AnswerType /\ started \in Nat /\ faults \in Nat
  <2>1. enrolled \in Nat
    BY DEF Init
  <2> QED
    BY <1>1, <2>1 DEF Init, SessionType, TimeType, AnswerType
<1>6. TypeOK
  BY <1>2, <1>3, <1>4, <1>5, TypeParts
<1>7. \A q \in Requests : /\ pc[q] = "idle" /\ op[q] = NoOp /\ verdict[q] = "none"
                         /\ todo[q] = {} /\ marked[q] = {}
  BY DEF Init
<1>8. KindAtLabel /\ ChallengeHeld /\ FactorHeld /\ UserHeld /\ SweepCovers
  BY <1>7, NoOpType DEF KindAtLabel, KindAt, ChallengeHeld, HoldsChallenge, FactorHeld,
     HoldsFactor, UserHeld, HoldsUser, SweepCovers, Covers, Answering
<1>9. Counted /\ OneOpenChallenge
  BY <1>2 DEF Init, Counted, OneOpenChallenge
<1> QED
  BY <1>4, <1>6, <1>8, <1>9 DEF Inv

LEMMA NextInv == Inv /\ [Next]_vars => Inv'
<1> SUFFICES ASSUME Inv, [Next]_vars PROVE Inv'
  OBVIOUS
<1>1. CASE UNCHANGED vars
  <2>1. TypeOK'
    BY <1>1 DEF Inv, TypeOK, vars, worldVars, dbVars, accountVars, timeVars, lockVars, workVars, historyVars,
       boundVars
  <2>2. KindAtLabel' /\ ChallengeHeld' /\ FactorHeld' /\ UserHeld' /\ SweepCovers'
    BY <1>1 DEF Inv, vars, worldVars, dbVars, lockVars, workVars, KindAtLabel, KindAt, ChallengeHeld,
       HoldsChallenge, FactorHeld, HoldsFactor, UserHeld, HoldsUser, SweepCovers, Covers, Open
  <2>3. Spent' /\ Counted' /\ FactorUsedOnce' /\ OneOpenChallenge' /\ EnabledIsConfirmed'
    BY <1>1 DEF Inv, vars, worldVars, dbVars, historyVars, Spent, Used, Counted, FactorUsedOnce,
       OneOpenChallenge, Open, EnabledIsConfirmed, Enabled
  <2> QED
    BY <2>1, <2>2, <2>3 DEF Inv
<1>2. ASSUME NEW q \in Requests, RequestStep(q) PROVE Inv'
  <2>1. Secure(q)'
    <3>1. CASE Starting(q)
      BY <3>1, StartKept
    <3>2. CASE \E label \in {"idle", "issue", "revokeOthers"} : EndTransaction(q, label)
      BY <1>2, <3>2, EndKept
    <3>3. CASE Statement(q)
      <4>1. Release(q) => \E label \in {"idle", "issue", "revokeOthers"} : EndTransaction(q, label)
        BY DEF Release
      <4> QED
        BY <3>2, <3>3, <4>1, StatementKept
    <3>4. CASE Leaving(q) \/ Committed(q)
      BY <3>2, <3>4, CommitEnds
    <3> QED
      BY <1>2, <3>1, <3>3, <3>4 DEF RequestStep
  <2>2. ASSUME NEW p \in Requests PROVE Secure(p)'
    <3>1. CASE p = q
      BY <2>1, <3>1 DEF Secure, KindAt, HoldsChallenge, HoldsFactor, HoldsUser, Covers, Open
    <3>2. CASE p # q
      BY <1>2, <3>2, OthersKept DEF Secure
    <3> QED
      BY <3>1, <3>2
  <2>3. KindAtLabel' /\ ChallengeHeld' /\ FactorHeld' /\ UserHeld' /\ SweepCovers'
    BY <2>2 DEF Secure, KindAtLabel, ChallengeHeld, FactorHeld, UserHeld, SweepCovers
  <2> QED
    BY <1>2, <2>3, TypeStep, FactorStep, OneOpenKept, CountedKept DEF Inv
<1> QED
  BY <1>1, <1>2, StepOf, WorldKept

LEMMA InvAlways == Spec => []Inv
  BY InitInv, NextInv, PTL DEF Spec

\* The types of MfaChallenge are kept by every request, fault and deadline.
THEOREM TypeCorrect == Spec => []TypeOK
<1>1. Inv => TypeOK
  BY DEF Inv
<1> QED
  BY <1>1, InvAlways, PTL

\* No TOTP counter and no recovery code authorises two requests, however
\* many logins, confirmations, regenerations and disablings race for it.
THEOREM FactorUsedOnceAlways == Spec => []FactorUsedOnce
<1>1. Inv => FactorUsedOnce
  BY DEF Inv
<1> QED
  BY <1>1, InvAlways, PTL

\* One challenge completes at most one login and evaluates at most
\* mfa_max_attempts wrong codes.
THEOREM ChallengeBoundedAlways == Spec => []ChallengeBounded
<1>1. Inv => ChallengeBounded
  <2> SUFFICES ASSUME Inv, NEW c \in Ids
               PROVE  answers[c].right <= 1 /\ answers[c].wrong <= MaxAttempts
    BY DEF ChallengeBounded
  <2>1. TypeOK /\ Counted
    BY DEF Inv
  <2>2. answers[c].right \in Nat /\ answers[c].wrong \in Nat
    BY <2>1, TypeParts DEF AnswerType
  <2>3. c \in DOMAIN challenges => challenges[c].attempts \in Nat
    BY <2>1, RowTypes DEF ChallengeRow
  <2> QED
    BY <2>1, <2>2, <2>3, MfaAssumption DEF Counted
<1> QED
  BY <1>1, InvAlways, PTL

\* However many logins start at once, at most one challenge can be answered.
THEOREM OneOpenChallengeAlways == Spec => []OneOpenChallenge
<1>1. Inv => OneOpenChallenge
  BY DEF Inv
<1> QED
  BY <1>1, InvAlways, PTL

\* The secret of an enabled method is one its owner confirmed, although
\* start_totp_setup looks without a lock and then overwrites it.
THEOREM EnabledIsConfirmedAlways == Spec => []EnabledIsConfirmed
<1>1. Inv => EnabledIsConfirmed
  BY DEF Inv
<1> QED
  BY <1>1, InvAlways, PTL

\* An invalidated challenge is never completed by an answer in flight, and a
\* completed one is never invalidated.
THEOREM ClosedStaysClosedAlways == Spec => ClosedStaysClosed
<1> DEFINE Body == \A c \in DOMAIN challenges : ~Open(c) => challenges'[c].status = challenges[c].status
<1>1. Inv /\ [Next]_vars => [Body]_vars
  <2> SUFFICES ASSUME Inv, Next PROVE Body
    OBVIOUS
  <2>1. CASE WorldStep
    BY <2>1 DEF WorldStep, Deactivate, NextTimeStep, DeadlinePasses, dbVars
  <2>2. ASSUME NEW q \in Requests, RequestStep(q) PROVE Body
    BY <2>2, ChallengesKept DEF ChallengeEffect, Open
  <2> QED
    BY <2>1, <2>2, StepOf
<1> QED
  BY <1>1, InvAlways, PTL DEF Spec, ClosedStaysClosed
=============================================================================
