------------------------ MODULE RefreshSessionsProofs ------------------------
(***************************************************************************)
(* Machine-checked facts about RefreshSessions, for any number of request  *)
(* handlers, sessions, requests, elapsed deadlines and faults.             *)
(***************************************************************************)
EXTENDS RefreshSessions, SequenceTheorems, TLAPS

Inserting == {"login", "refresh"}
Sweeping == {"reset", "deactivate"}

\* What a request can be at each of its statements.
KindAtLabel ==
    \A q \in Requests :
      /\ pc[q] = "stamp" => op[q].kind = "login"
      /\ pc[q] \in {"lockRow", "readUser"} => op[q].kind = "refresh"
      /\ pc[q] = "lockUser" => op[q].kind \in Promised
      /\ pc[q] \in {"update", "revoke"} => op[q].kind \notin Inserting
      /\ pc[q] = "insert" => op[q].kind \in Inserting \cup {"reuse"}

\* Families are numbered by their first row; nobody speaks of later ones.
FamiliesKnown ==
    /\ \A r \in DOMAIN rows : rows[r].family \in DOMAIN rows
    /\ \A q \in Requests : scope[q] \subseteq DOMAIN rows
    /\ \A e \in ended : e[2] \in DOMAIN rows

\* A request holds the rows it marked, and a rotation its row, still live.
RowsHeld ==
    \A q \in Requests :
      /\ todo[q] \subseteq DOMAIN rows
      /\ \A r \in marked[q] : r \in DOMAIN rows /\ rowLock[r] = q
      /\ op[q].kind \in {"refresh", "reuse", "inactive", "expire", "logout", "others"} =>
           op[q].row \in DOMAIN rows
      /\ op[q].kind = "refresh" /\ pc[q] \in {"readUser", "insert", "commit"} =>
           rowLock[op[q].row] = q /\ Live(op[q].row)

\* The users row: compatible holders, key-share for whoever inserts a
\* session, FOR UPDATE for a reset or a deactivation.
UserHeld ==
    /\ \A p, q \in Requests : p # q => ~Conflict(userLock[p], userLock[q])
    /\ \A q \in Requests :
         /\ pc[q] = "commit" /\ op[q].kind \in Inserting => userLock[q] = "keyShare"
         /\ pc[q] \in {"update", "revoke", "commit"} /\ op[q].kind \in Sweeping =>
              userLock[q] = "update"

\* A reset or deactivation has every family in its scope, and has marked, or
\* is still to visit, every live session.
SweepCovers ==
    \A q \in Requests :
      op[q].kind \in Sweeping =>
        /\ pc[q] \in {"revoke", "commit"} => \A r \in DOMAIN rows : rows[r].family \in scope[q]
        /\ pc[q] = "revoke" => \A r \in DOMAIN rows : Live(r) => r \in todo[q] \cup marked[q]
        /\ pc[q] = "commit" => \A r \in DOMAIN rows : Live(r) => r \in marked[q]

\* A rotation past ReadUser belongs to an active account, although it read
\* the account without a lock: whoever disables it needs the rotated row.
RotatesActive ==
    \A q \in Requests :
      op[q].kind = "refresh" /\ pc[q] \in {"insert", "commit"} => active

\* The inductive invariant behind the safety properties.
Inv ==
    /\ TypeOK
    /\ KindAtLabel
    /\ FamiliesKnown
    /\ RowsHeld
    /\ UserHeld
    /\ SweepCovers
    /\ RotatesActive
    /\ OneLivePerFamily
    /\ UserLockEndsSessions

\* The steps of one request.
RequestStep(q) ==
    \/ Login(q) \/ Stamp(q) \/ LockRow(q) \/ ReadUser(q) \/ Insert(q)
    \/ \E r \in Ids : Refresh(q, r) \/ Logout(q, r) \/ RevokeOthers(q, r) \/ RevokeRow(q, r)
    \/ LogoutAll(q) \/ ChangePassword(q) \/ ResetPassword(q) \/ Deactivate(q)
    \/ LockUser(q) \/ Update(q) \/ RevokeDone(q)
    \/ Commit(q) \/ CommitLost(q) \/ Abort(q) \/ Cancel(q)

\* The statements that leave the committed state alone.
Quiet(q) == RequestStep(q) /\ ~Apply(q) /\ UNCHANGED <<rows, active, ended>>

TimeStep == \E r \in Ids : GraceElapses(r) \/ Expire(r)

-----------------------------------------------------------------------------
LEMMA StepOf ==
    ASSUME Next
    PROVE  TimeStep \/ \E q \in Requests : RequestStep(q)
  BY DEF Next, TimeStep, RequestStep

\* A request's transaction is its own: nobody else's statements, nor the
\* rows and the users lock others hold, are touched.
Isolated(q) ==
    \A p \in Requests \ {q} :
      /\ pc'[p] = pc[p] /\ op'[p] = op[p] /\ userLock'[p] = userLock[p]
      /\ scope'[p] = scope[p] /\ todo'[p] = todo[p] /\ marked'[p] = marked[p]
      /\ \A r \in Ids : rowLock[r] = p => rowLock'[r] = p

LEMMA ReleaseEffect ==
    ASSUME TypeOK, NEW q \in Requests, Release(q)
    PROVE  /\ rowLock' \in [Ids -> Requests \cup {None}]
           /\ userLock' \in [Requests -> LockModes]
           /\ pc' \in [Requests -> Labels]
           /\ op' \in [Requests -> [kind : Kinds, row : Ids]]
           /\ scope' \in [Requests -> SUBSET Ids]
           /\ todo' \in [Requests -> SUBSET Ids]
           /\ marked' \in [Requests -> SUBSET Ids]
           /\ pc'[q] = "idle" /\ op'[q].kind = "login" /\ userLock'[q] = "none"
           /\ scope'[q] = {} /\ todo'[q] = {} /\ marked'[q] = {}
           /\ Isolated(q)
<1>1. 1 \in Ids
  BY SessionsAssumption DEF Ids
<1>2. NoOp \in [kind : Kinds, row : Ids] /\ NoOp.kind = "login"
  BY <1>1 DEF NoOp, Kinds
<1>3. rowLock' \in [Ids -> Requests \cup {None}] /\ userLock' \in [Requests -> LockModes]
  BY DEF Release, TypeOK, LockModes
<1>4. pc' \in [Requests -> Labels] /\ op' \in [Requests -> [kind : Kinds, row : Ids]]
  <2> HIDE DEF NoOp
  <2> QED
    BY <1>2 DEF Release, Goto, TypeOK, Labels
<1>5. /\ scope' \in [Requests -> SUBSET Ids] /\ todo' \in [Requests -> SUBSET Ids]
      /\ marked' \in [Requests -> SUBSET Ids]
  BY DEF Release, TypeOK
<1>6. /\ pc'[q] = "idle" /\ op'[q].kind = "login" /\ userLock'[q] = "none"
      /\ scope'[q] = {} /\ todo'[q] = {} /\ marked'[q] = {}
  BY <1>2 DEF Release, Goto, TypeOK
<1>7. Isolated(q)
  BY DEF Release, Goto, TypeOK, Isolated
<1> QED
  BY <1>3, <1>4, <1>5, <1>6, <1>7

LEMMA Isolation ==
    ASSUME TypeOK, NEW q \in Requests, RequestStep(q)
    PROVE  Isolated(q)
<1> DEFINE Goal == Isolated(q)
<1> SUFFICES Goal
  OBVIOUS
<1>1. CASE Release(q)
  BY <1>1, ReleaseEffect
<1>2. CASE ~Release(q)
  <2>1. CASE Login(q)
    BY <2>1 DEF TypeOK, Login, Begin, Goto, Isolated, workVars, lockVars
  <2>2. CASE Stamp(q)
    BY <2>2 DEF TypeOK, Stamp, Goto, Isolated, workVars, lockVars
  <2>3. CASE LockRow(q)
    BY <2>3, <1>2, SessionsAssumption DEF TypeOK, LockRow, RowFree, Goto, Isolated, workVars, lockVars
  <2>4. CASE ReadUser(q)
    BY <2>4 DEF TypeOK, ReadUser, Goto, Isolated, workVars, lockVars
  <2>5. CASE Insert(q)
    BY <2>5 DEF TypeOK, Insert, Goto, Isolated, workVars, lockVars
  <2>6. CASE \E r \in Ids : Refresh(q, r) \/ Logout(q, r) \/ RevokeOthers(q, r)
    BY <2>6 DEF TypeOK, Refresh, Logout, RevokeOthers, Begin, Goto, Isolated, workVars, lockVars
  <2>7. CASE \E r \in Ids : RevokeRow(q, r)
    BY <2>7, SessionsAssumption DEF TypeOK, RevokeRow, RowFree, Isolated, workVars, lockVars
  <2>8. CASE LogoutAll(q) \/ ChangePassword(q) \/ ResetPassword(q) \/ Deactivate(q)
    BY <2>8 DEF TypeOK, LogoutAll, ChangePassword, ResetPassword, Deactivate, Begin, Goto,
                Isolated, workVars, lockVars
  <2>9. CASE LockUser(q)
    BY <2>9, <1>2 DEF TypeOK, LockUser, Goto, Isolated, workVars, lockVars
  <2>10. CASE Update(q)
    BY <2>10 DEF TypeOK, Update, Goto, Isolated, workVars, lockVars
  <2>11. CASE RevokeDone(q)
    BY <2>11 DEF TypeOK, RevokeDone, Goto, Isolated, workVars, lockVars
  <2>12. CASE Commit(q) \/ CommitLost(q) \/ Abort(q) \/ Cancel(q)
    BY <2>12, <1>2 DEF Commit, CommitLost, Apply, Abort, Cancel
  <2> HIDE DEF Goal
  <2> QED
    BY <2>1, <2>2, <2>3, <2>4, <2>5, <2>6, <2>7, <2>8, <2>9, <2>10, <2>11, <2>12 DEF RequestStep
<1> QED
  BY <1>1, <1>2

\* Only a commit changes what the database keeps.
LEMMA CommitOrQuiet ==
    ASSUME NEW q \in Requests, RequestStep(q)
    PROVE  Apply(q) \/ Quiet(q)
  BY DEF RequestStep, Quiet, Commit, CommitLost, Login, Stamp, LockRow, ReadUser, Insert, Refresh,
         Logout, RevokeOthers, RevokeRow, LogoutAll, ChangePassword, ResetPassword, Deactivate,
         LockUser, Update, RevokeDone, Abort, Cancel, Begin, dbVars

\* What a commit does to the table: it grows by at most one row, families
\* stay, no session comes back to life, and rows held by others are kept.
LEMMA CommitEffect ==
    ASSUME TypeOK, RowsHeld, NEW q \in Requests, Apply(q)
    PROVE  /\ rows' \in Seq(Row) /\ Len(rows') <= MaxRows
           /\ DOMAIN rows \subseteq DOMAIN rows'
           /\ \A r \in DOMAIN rows : /\ rows'[r].family = rows[r].family
                                     /\ rows'[r].status = "live" => rows[r].status = "live"
                                     /\ rowLock[r] # q => rows'[r] = rows[r]
           /\ op[q].kind \notin Inserting => DOMAIN rows' = DOMAIN rows
           /\ op[q].kind \notin Inserting =>
                \A r \in marked[q] : rows'[r].status = "revoked"
           /\ op[q].kind \in Inserting =>
                /\ Len(rows) + 1 \in Ids /\ Len(rows) + 1 \notin DOMAIN rows
                /\ DOMAIN rows' = DOMAIN rows \cup {Len(rows) + 1}
           /\ op[q].kind = "login" => rows'[Len(rows) + 1].family = Len(rows) + 1
           /\ op[q].kind = "refresh" =>
                /\ op[q].row \in DOMAIN rows
                /\ rows'[Len(rows) + 1].family = rows[op[q].row].family
                /\ rows'[op[q].row].status = "rotated"
           /\ \A r \in DOMAIN rows :
                rows[r].status = "live" /\ rows'[r].status = "rotated" => op[q].kind = "refresh"
<1> DEFINE n == Len(rows)
           r0 == op[q].row
<1>1. /\ rows \in Seq(Row) /\ n \in Nat /\ n <= MaxRows /\ DOMAIN rows = 1..n
      /\ rows' = After(q) /\ r0 \in Ids /\ MaxRows \in Nat
      /\ \A r \in DOMAIN rows : rows[r] \in Row
  BY LenProperties, ElementOfSeq, SessionsAssumption DEF TypeOK, Apply
<1>2. CASE op[q].kind = "login"
  <2> DEFINE e == [family |-> n + 1, status |-> "live"]
  <2>1. n + 1 \in Ids /\ n + 1 \notin DOMAIN rows
    BY <1>1, <1>2 DEF Apply, Ids
  <2>2. e \in Row /\ e.family = n + 1
    BY <2>1 DEF Row
  <2>3. rows' = Append(rows, e)
    BY <1>1, <1>2 DEF After
  <2> HIDE DEF e
  <2>4. /\ rows' \in Seq(Row) /\ Len(rows') = n + 1 /\ rows'[n + 1] = e
        /\ \A r \in 1..n : rows'[r] = rows[r]
        /\ DOMAIN rows' = 1..(n + 1)
    BY <1>1, <2>2, <2>3, AppendProperties
  <2>5. DOMAIN rows' = DOMAIN rows \cup {n + 1} /\ n + 1 <= MaxRows
    BY <1>1, <2>1, <2>4 DEF Ids
  <2> QED
    BY <1>1, <1>2, <2>1, <2>2, <2>4, <2>5 DEF Inserting
<1>3. CASE op[q].kind = "refresh"
  <2> DEFINE base == [rows EXCEPT ![r0].status = "rotated"]
             e == [family |-> rows[r0].family, status |-> "live"]
  <2>1. n + 1 \in Ids /\ n + 1 \notin DOMAIN rows
    BY <1>1, <1>3 DEF Apply, Ids
  <2>2. r0 \in DOMAIN rows /\ rowLock[r0] = q /\ rows[r0].status = "live"
    BY <1>3 DEF RowsHeld, Live, Apply
  <2>3. e \in Row /\ e.family = rows[r0].family
    BY <1>1, <2>2 DEF Row
  <2>4. /\ DOMAIN base = 1..n
        /\ \A r \in 1..n : base[r] \in Row /\ base[r].family = rows[r].family
        /\ \A r \in 1..n : r # r0 => base[r] = rows[r]
        /\ base[r0].status = "rotated"
    BY <1>1, <2>2 DEF Row
  <2>5. base \in [1..n -> Row]
    BY <2>4
  <2>6. base \in Seq(Row) /\ Len(base) = n
    BY <1>1, <2>5
  <2>7. rows' = Append(base, e)
    BY <1>1, <1>3 DEF After
  <2> HIDE DEF e, base
  <2>8. /\ rows' \in Seq(Row) /\ Len(rows') = n + 1 /\ rows'[n + 1] = e
        /\ \A r \in 1..n : rows'[r] = base[r]
        /\ DOMAIN rows' = 1..(n + 1)
    BY <1>1, <2>3, <2>6, <2>7, AppendProperties
  <2>9. DOMAIN rows' = DOMAIN rows \cup {n + 1} /\ n + 1 <= MaxRows
    BY <1>1, <2>1, <2>8 DEF Ids
  <2>10. rows'[r0].status = "rotated" /\ rows'[n + 1].family = rows[r0].family
    BY <1>1, <2>2, <2>3, <2>4, <2>8
  <2>11. \A r \in DOMAIN rows : /\ rows'[r].family = rows[r].family
                                /\ r # r0 => rows'[r] = rows[r]
    BY <1>1, <2>4, <2>8
  <2> QED
    BY <1>3, <2>1, <2>2, <2>8, <2>9, <2>10, <2>11 DEF Inserting
<1>4. CASE op[q].kind \notin Inserting
  <2>1. rows' = [x \in DOMAIN rows |-> IF x \in marked[q] THEN [rows[x] EXCEPT !.status = "revoked"]
                                       ELSE rows[x]]
    BY <1>1, <1>4 DEF After, Inserting
  <2>2. \A r \in DOMAIN rows : /\ rows'[r] \in Row /\ rows'[r].family = rows[r].family
                               /\ r \in marked[q] => rows'[r].status = "revoked"
                               /\ r \notin marked[q] => rows'[r] = rows[r]
    BY <1>1, <2>1 DEF Row
  <2>3. DOMAIN rows' = DOMAIN rows /\ rows' \in [1..n -> Row]
    BY <1>1, <2>1, <2>2
  <2>4. rows' \in Seq(Row) /\ Len(rows') = n
    BY <1>1, <2>3
  <2>5. \A r \in marked[q] : r \in DOMAIN rows /\ rowLock[r] = q
    BY DEF RowsHeld
  <2> QED
    BY <1>1, <1>4, <2>2, <2>3, <2>4, <2>5 DEF Inserting
<1> QED
  BY <1>2, <1>3, <1>4 DEF Inserting

-----------------------------------------------------------------------------
(* Type correctness. *)

LEMMA InitInv == Init => Inv
<1> SUFFICES ASSUME Init PROVE Inv
  OBVIOUS
<1>1. rows \in Seq(Row) /\ Len(rows) = 0 /\ DOMAIN rows = {}
  BY DEF Init
<1>2. NoOp \in [kind : Kinds, row : Ids] /\ NoOp.kind = "login"
  BY SessionsAssumption DEF NoOp, Kinds, Ids
<1>3. op \in [Requests -> [kind : Kinds, row : Ids]] /\ \A q \in Requests : op[q].kind = "login"
  <2> HIDE DEF NoOp
  <2> QED
    BY <1>2 DEF Init
<1>4. TypeOK
  BY <1>1, <1>3, SessionsAssumption DEF Init, TypeOK, LockModes, Labels
<1>5. KindAtLabel /\ RotatesActive /\ SweepCovers
  BY <1>3 DEF Init, KindAtLabel, RotatesActive, SweepCovers, Sweeping
<1>6. FamiliesKnown /\ RowsHeld
  BY <1>1, <1>3 DEF Init, FamiliesKnown, RowsHeld
<1>7. UserHeld
  BY <1>3 DEF Init, UserHeld, Conflict, Inserting, Sweeping
<1>8. OneLivePerFamily /\ UserLockEndsSessions
  BY <1>1 DEF OneLivePerFamily, UserLockEndsSessions
<1> QED
  BY <1>4, <1>5, <1>6, <1>7, <1>8 DEF Inv

LEMMA BeginTypeOK ==
    ASSUME TypeOK, NEW q \in Requests, NEW kind \in Kinds, NEW r \in Ids, NEW label \in Labels,
           Begin(q, kind, r), Goto(q, label)
    PROVE  TypeOK'
  BY DEF TypeOK, Begin, Goto, dbVars, timeVars, lockVars, workVars

LEMMA NextTypeOK ==
    ASSUME Inv, [Next]_vars
    PROVE  TypeOK'
<1> USE DEF Inv
<1> DEFINE Goal == TypeOK'
<1> SUFFICES Goal
  OBVIOUS
<1>0. 1 \in Ids
  BY SessionsAssumption DEF Ids
<1>1. CASE UNCHANGED vars
  BY <1>1 DEF vars, TypeOK, dbVars, timeVars, lockVars, workVars
<1>2. CASE TimeStep
  BY <1>2 DEF TimeStep, TypeOK, GraceElapses, Expire, Tick, Exists, dbVars, lockVars, workVars
<1>3. ASSUME NEW q \in Requests, RequestStep(q)
      PROVE  Goal
  <2> DEFINE Part == TypeOK'
  <2> SUFFICES Part
    OBVIOUS
  <2>1. ASSUME Release(q), UNCHANGED <<dbVars, timeVars, issued, ended, started>>, faults' \in Nat
        PROVE  TypeOK'
    BY <2>1, ReleaseEffect DEF TypeOK, dbVars, timeVars
  <2>2. CASE Login(q)
    BY <2>2, <1>0, BeginTypeOK DEF Login, Kinds, Labels
  <2>3. CASE Stamp(q) \/ ReadUser(q) \/ RevokeDone(q)
    <3>1. /\ \E label \in Labels : Goto(q, label)
          /\ op' = op \/ \E kind \in Kinds : op' = [op EXCEPT ![q].kind = kind]
      BY <2>3 DEF Stamp, ReadUser, RevokeDone, Labels, Kinds
    <3>2. /\ pc' \in [Requests -> Labels] /\ op' \in [Requests -> [kind : Kinds, row : Ids]]
      BY <3>1 DEF Goto, TypeOK
    <3>3. UNCHANGED <<dbVars, timeVars, issued, lockVars, workVars, ended, started, faults>>
      BY <2>3 DEF Stamp, ReadUser, RevokeDone
    <3> QED
      BY <3>2, <3>3 DEF TypeOK, dbVars, timeVars, lockVars, workVars
  <2>4. CASE LockRow(q)
    <3>1. CASE Release(q)
      BY <3>1, <2>4, <2>1 DEF LockRow, TypeOK
    <3>2. CASE ~Release(q)
      <4>1. UNCHANGED <<dbVars, timeVars, issued, userLock, scope, todo, ended, started, faults>>
        BY <3>2, <2>4 DEF LockRow, workVars
      <4>2. /\ rowLock' = [rowLock EXCEPT ![op[q].row] = q]
            /\ \E kind \in Kinds : op' = [op EXCEPT ![q].kind = kind]
            /\ \E label \in Labels : Goto(q, label)
            /\ marked' = marked \/ marked' = [marked EXCEPT ![q] = {op[q].row}]
        BY <3>2, <2>4 DEF LockRow, workVars, Kinds, Labels
      <4>3. /\ op[q].row \in Ids /\ rowLock' \in [Ids -> Requests \cup {None}]
            /\ marked' \in [Requests -> SUBSET Ids]
        BY <4>2 DEF TypeOK
      <4>4. op' \in [Requests -> [kind : Kinds, row : Ids]] /\ pc' \in [Requests -> Labels]
        BY <4>2 DEF Goto, TypeOK
      <4> QED
        BY <4>1, <4>3, <4>4 DEF TypeOK, dbVars, timeVars
    <3> QED
      BY <3>1, <3>2
  <2>5. CASE Insert(q)
    BY <2>5 DEF TypeOK, Insert, Goto, Labels, LockModes, dbVars, timeVars, workVars
  <2>6. CASE \E r \in Ids : Refresh(q, r) \/ Logout(q, r) \/ RevokeOthers(q, r)
    BY <2>6, BeginTypeOK DEF Refresh, Logout, RevokeOthers, Kinds, Labels
  <2>7. CASE \E r \in Ids : RevokeRow(q, r)
    BY <2>7 DEF TypeOK, RevokeRow, dbVars, timeVars
  <2>8. CASE LogoutAll(q) \/ ChangePassword(q) \/ ResetPassword(q) \/ Deactivate(q)
    BY <2>8, <1>0, BeginTypeOK
       DEF LogoutAll, ChangePassword, ResetPassword, Deactivate, Kinds, Promised, Labels
  <2>9. CASE LockUser(q)
    <3>1. CASE Release(q)
      BY <3>1, <2>9, <2>1 DEF LockUser, TypeOK
    <3>2. CASE ~Release(q)
      BY <3>2, <2>9 DEF TypeOK, LockUser, Goto, Labels, LockModes, dbVars, timeVars, workVars
    <3> QED
      BY <3>1, <3>2
  <2>10. CASE Update(q)
    <3>1. DOMAIN rows \subseteq Ids /\ \A x \in DOMAIN rows : rows[x] \in Row
      BY LenProperties, ElementOfSeq, SessionsAssumption DEF TypeOK, Ids
    <3>2. \A x \in DOMAIN rows : rows[x].family \in Ids
      BY <3>1 DEF Row
    <3>3. op[q].kind \in {"logout", "reuse", "inactive"} => op[q].row \in DOMAIN rows
      BY DEF RowsHeld
    <3>4. Scope(op[q].kind, op[q].row) \subseteq Ids
      BY <3>2, <3>3 DEF Scope
    <3>5. scope' \in [Requests -> SUBSET Ids] /\ todo' \in [Requests -> SUBSET Ids]
      <4> HIDE DEF Inv
      <4>1. TypeOK
        BY DEF Inv
      <4> QED
        BY <4>1, <2>10, <3>1, <3>4 DEF TypeOK, Update
    <3> QED
      BY <2>10, <3>5 DEF TypeOK, Update, Goto, Labels, dbVars, timeVars, lockVars
  <2>11. CASE Commit(q) \/ CommitLost(q)
    <3>1. Apply(q) /\ Release(q) /\ UNCHANGED <<timeVars, started>>
      BY <2>11 DEF Commit, CommitLost, Apply
    <3>2. rows' \in Seq(Row) /\ Len(rows') <= MaxRows /\ DOMAIN rows \subseteq DOMAIN rows'
      BY <3>1, CommitEffect
    <3>3. active' \in BOOLEAN
      BY <3>1 DEF Apply, TypeOK
    <3>4. ended' \subseteq Promised \X Ids
      BY <3>1 DEF Apply, TypeOK
    <3>5. issued' \subseteq DOMAIN rows' /\ faults' \in Nat
      BY <2>11, <3>2 DEF Commit, CommitLost, Fault, TypeOK
    <3> QED
      BY <3>1, <3>2, <3>3, <3>4, <3>5, ReleaseEffect DEF TypeOK, timeVars
  <2>12. CASE Abort(q) \/ Cancel(q)
    BY <2>12, <2>1 DEF Abort, Cancel, Fault, TypeOK
  <2> HIDE DEF Part
  <2> QED
    BY <1>3, <2>2, <2>3, <2>4, <2>5, <2>6, <2>7, <2>8, <2>9, <2>10, <2>11, <2>12 DEF RequestStep
<1>4. Next \/ UNCHANGED vars
  OBVIOUS
<1> HIDE DEF Goal
<1> QED
  BY <1>1, <1>2, <1>3, <1>4, StepOf

-----------------------------------------------------------------------------
(* Each part of the invariant across a statement of one request. *)

LEMMA StepKindAtLabel ==
    ASSUME Inv, NEW q \in Requests, RequestStep(q)
    PROVE  KindAtLabel'
<1> USE DEF Inv
<1> DEFINE At(p) == /\ pc'[p] = "stamp" => op'[p].kind = "login"
                    /\ pc'[p] \in {"lockRow", "readUser"} => op'[p].kind = "refresh"
                    /\ pc'[p] = "lockUser" => op'[p].kind \in Promised
                    /\ pc'[p] \in {"update", "revoke"} => op'[p].kind \notin Inserting
                    /\ pc'[p] = "insert" => op'[p].kind \in Inserting \cup {"reuse"}
<1>1. \A p \in Requests \ {q} : At(p)
  BY Isolation DEF Isolated, KindAtLabel
<1>2. At(q)
  <2> DEFINE Goal == At(q)
  <2> SUFFICES Goal
    OBVIOUS
  <2>1. CASE Release(q)
    BY <2>1, ReleaseEffect
  <2>2. CASE ~Release(q)
    <3>1. CASE \E r \in Ids : Refresh(q, r) \/ Logout(q, r) \/ RevokeOthers(q, r)
      BY <3>1 DEF Refresh, Logout, RevokeOthers, Begin, Goto, TypeOK, Inserting
    <3>2. CASE \/ Login(q) \/ LogoutAll(q) \/ ChangePassword(q) \/ ResetPassword(q) \/ Deactivate(q)
      BY <3>2 DEF Login, LogoutAll, ChangePassword, ResetPassword, Deactivate, Begin, Goto, TypeOK,
                  Inserting, Promised
    <3>3. CASE Stamp(q) \/ ReadUser(q) \/ Insert(q) \/ RevokeDone(q) \/ Update(q)
      BY <3>3 DEF Stamp, ReadUser, Insert, RevokeDone, Update, Goto, TypeOK, Inserting, KindAtLabel
    <3>4. CASE LockRow(q)
      BY <3>4, <2>2 DEF LockRow, Goto, TypeOK, Inserting, KindAtLabel
    <3>5. CASE LockUser(q)
      BY <3>5, <2>2 DEF LockUser, Goto, TypeOK, Inserting, Promised, KindAtLabel
    <3>6. CASE \E r \in Ids : RevokeRow(q, r)
      BY <3>6 DEF RevokeRow, KindAtLabel
    <3>7. CASE Commit(q) \/ CommitLost(q) \/ Abort(q) \/ Cancel(q)
      BY <3>7, <2>2 DEF Commit, CommitLost, Apply, Abort, Cancel
    <3> HIDE DEF Goal
    <3> QED
      BY <3>1, <3>2, <3>3, <3>4, <3>5, <3>6, <3>7 DEF RequestStep
  <2> QED
    BY <2>1, <2>2
<1> QED
  BY <1>1, <1>2 DEF KindAtLabel

LEMMA StepFamiliesKnown ==
    ASSUME Inv, NEW q \in Requests, RequestStep(q)
    PROVE  FamiliesKnown'
<1> USE DEF Inv
<1>1. CASE Apply(q)
  <2>1. Release(q) /\ scope'[q] = {} /\ \A p \in Requests \ {q} : scope'[p] = scope[p]
    BY <1>1, ReleaseEffect DEF Apply, Isolated
  <2>2. /\ DOMAIN rows \subseteq DOMAIN rows'
        /\ \A r \in DOMAIN rows : rows'[r].family = rows[r].family
        /\ op[q].kind \notin Inserting => DOMAIN rows' = DOMAIN rows
        /\ op[q].kind \in Inserting => DOMAIN rows' = DOMAIN rows \cup {Len(rows) + 1}
        /\ op[q].kind = "login" => rows'[Len(rows) + 1].family = Len(rows) + 1
        /\ op[q].kind = "refresh" => /\ op[q].row \in DOMAIN rows
                                     /\ rows'[Len(rows) + 1].family = rows[op[q].row].family
    BY <1>1, CommitEffect
  <2>3. \A r \in DOMAIN rows' : rows'[r].family \in DOMAIN rows'
    BY <2>2 DEF FamiliesKnown, Inserting
  <2>4. \A e \in ended' : e[2] \in DOMAIN rows'
    BY <1>1, <2>2 DEF FamiliesKnown, Apply
  <2> QED
    BY <2>1, <2>2, <2>3, <2>4 DEF FamiliesKnown
<1>2. CASE Quiet(q)
  <2>1. rows' = rows /\ ended' = ended
    BY <1>2 DEF Quiet
  <2>2. scope'[q] = scope[q] \/ scope'[q] = {} \/ Update(q)
    <3>1. CASE Release(q)
      BY <3>1, ReleaseEffect
    <3>2. CASE ~Release(q)
      BY <3>2 DEF RequestStep, Commit, CommitLost, Apply, Login, Stamp, LockRow, ReadUser, Insert,
             Refresh, Logout, RevokeOthers, RevokeRow, LogoutAll, ChangePassword, ResetPassword,
             Deactivate, LockUser, RevokeDone, Abort, Cancel, Begin, workVars
    <3> QED
      BY <3>1, <3>2
  <2>3. Update(q) => scope'[q] \subseteq DOMAIN rows
    <3>1. op[q].kind \in {"logout", "reuse", "inactive"} => op[q].row \in DOMAIN rows
      BY DEF RowsHeld
    <3>2. Scope(op[q].kind, op[q].row) \subseteq DOMAIN rows
      BY <3>1 DEF Scope, FamiliesKnown
    <3> QED
      BY <3>2 DEF Update, TypeOK
  <2>4. \A p \in Requests \ {q} : scope'[p] = scope[p]
    BY Isolation DEF Isolated
  <2> QED
    BY <2>1, <2>2, <2>3, <2>4 DEF FamiliesKnown
<1> QED
  BY <1>1, <1>2, CommitOrQuiet

LEMMA StepRowsHeld ==
    ASSUME Inv, NEW q \in Requests, RequestStep(q)
    PROVE  RowsHeld'
<1> USE DEF Inv
<1> DEFINE Held(p) ==
      /\ todo'[p] \subseteq DOMAIN rows'
      /\ \A r \in marked'[p] : r \in DOMAIN rows' /\ rowLock'[r] = p
      /\ op'[p].kind \in {"refresh", "reuse", "inactive", "expire", "logout", "others"} =>
           op'[p].row \in DOMAIN rows'
      /\ op'[p].kind = "refresh" /\ pc'[p] \in {"readUser", "insert", "commit"} =>
           /\ rowLock'[op'[p].row] = p /\ op'[p].row \in DOMAIN rows'
           /\ rows'[op'[p].row].status = "live"
<1>1. /\ DOMAIN rows \subseteq DOMAIN rows'
      /\ \A r \in DOMAIN rows : rowLock[r] # q => rows'[r] = rows[r]
  <2>1. CASE Apply(q)
    BY <2>1, CommitEffect
  <2>2. CASE Quiet(q)
    BY <2>2 DEF Quiet
  <2> QED
    BY <2>1, <2>2, CommitOrQuiet
<1>2. ASSUME NEW p \in Requests \ {q} PROVE Held(p)
  <2>1. /\ pc'[p] = pc[p] /\ op'[p] = op[p] /\ todo'[p] = todo[p] /\ marked'[p] = marked[p]
        /\ \A r \in Ids : rowLock[r] = p => rowLock'[r] = p
    BY Isolation DEF Isolated
  <2>2. /\ todo[p] \subseteq DOMAIN rows
        /\ \A r \in marked[p] : r \in DOMAIN rows /\ rowLock[r] = p
        /\ op[p].kind \in {"refresh", "reuse", "inactive", "expire", "logout", "others"} =>
             op[p].row \in DOMAIN rows
        /\ op[p].kind = "refresh" /\ pc[p] \in {"readUser", "insert", "commit"} =>
             rowLock[op[p].row] = p /\ Live(op[p].row)
        /\ marked[p] \subseteq Ids /\ op[p].row \in Ids
    BY DEF RowsHeld, TypeOK
  <2> QED
    BY <1>1, <2>1, <2>2 DEF Live, Exists
<1>3. Held(q)
  <2> DEFINE Goal == Held(q)
  <2> SUFFICES Goal
    OBVIOUS
  <2>1. CASE Release(q)
    BY <2>1, ReleaseEffect
  <2>2. CASE ~Release(q)
    <3>1. CASE \E r \in Ids : Refresh(q, r) \/ Logout(q, r) \/ RevokeOthers(q, r)
      BY <3>1 DEF Refresh, Logout, RevokeOthers, Begin, Goto, TypeOK, RowsHeld, dbVars, lockVars,
                  workVars
    <3>2. CASE Login(q)
      BY <3>2 DEF Login, Begin, Goto, TypeOK, RowsHeld, dbVars, lockVars, workVars
    <3>3. CASE LogoutAll(q) \/ ChangePassword(q) \/ ResetPassword(q) \/ Deactivate(q)
      BY <3>3 DEF LogoutAll, ChangePassword, ResetPassword, Deactivate, Begin, Goto, TypeOK,
                  RowsHeld, dbVars, lockVars, workVars
    <3>4. CASE Stamp(q) \/ RevokeDone(q) \/ Insert(q)
      BY <3>4 DEF Stamp, RevokeDone, Insert, KindAtLabel, Inserting, Goto, TypeOK, RowsHeld, Live,
                  Exists, dbVars, lockVars, workVars
    <3>5. CASE ReadUser(q)
      BY <3>5 DEF ReadUser, KindAtLabel, Goto, TypeOK, RowsHeld, Live, Exists, dbVars, lockVars,
                  workVars
    <3>6. CASE LockRow(q)
      <4>1. op[q].row \in DOMAIN rows /\ op[q].row \in Ids
        BY <3>6 DEF LockRow, KindAtLabel, RowsHeld, TypeOK
      <4>2. /\ UNCHANGED <<rows, todo>> /\ rowLock' = [rowLock EXCEPT ![op[q].row] = q]
            /\ marked' = marked \/ marked' = [marked EXCEPT ![q] = {op[q].row}]
        BY <3>6, <2>2 DEF LockRow, dbVars, workVars
      <4>3. op'[q].row = op[q].row /\ (op'[q].kind = "refresh" => Live(op[q].row))
        BY <3>6, <2>2 DEF LockRow, TypeOK
      <4>4. \A r \in marked'[q] : r \in DOMAIN rows /\ rowLock'[r] = q
        BY <4>1, <4>2 DEF RowsHeld, TypeOK
      <4>5. rowLock'[op[q].row] = q /\ todo'[q] \subseteq DOMAIN rows
        BY <4>1, <4>2 DEF TypeOK, RowsHeld
      <4> QED
        BY <4>1, <4>2, <4>3, <4>4, <4>5 DEF Live, Exists
    <3>7. CASE LockUser(q)
      BY <3>7, <2>2 DEF LockUser, KindAtLabel, Promised, Goto, TypeOK, RowsHeld, dbVars, workVars
    <3>8. CASE Update(q)
      BY <3>8 DEF Update, KindAtLabel, Inserting, Goto, TypeOK, RowsHeld, dbVars, lockVars
    <3>9. CASE \E r \in Ids : RevokeRow(q, r)
      <4>1. PICK r \in Ids : RevokeRow(q, r)
        BY <3>9
      <4>2. /\ UNCHANGED <<rows, op, pc>> /\ op[q].kind # "refresh"
            /\ rowLock' = [rowLock EXCEPT ![r] = q]
        BY <4>1 DEF RevokeRow, KindAtLabel, Inserting, dbVars
      <4>3. todo'[q] \subseteq todo[q] /\ marked'[q] \subseteq marked[q] \cup {r} /\ r \in todo[q]
        BY <4>1 DEF RevokeRow, TypeOK
      <4>4. \A x \in Ids : rowLock[x] = q => rowLock'[x] = q
        BY <4>2 DEF TypeOK
      <4>5. \A x \in marked'[q] : x \in DOMAIN rows /\ rowLock'[x] = q
        BY <4>2, <4>3, <4>4 DEF RowsHeld, TypeOK
      <4> QED
        BY <4>2, <4>3, <4>5 DEF RowsHeld
    <3>10. CASE Commit(q) \/ CommitLost(q) \/ Abort(q) \/ Cancel(q)
      BY <3>10, <2>2 DEF Commit, CommitLost, Apply, Abort, Cancel
    <3> HIDE DEF Goal
    <3> QED
      BY <3>1, <3>2, <3>3, <3>4, <3>5, <3>6, <3>7, <3>8, <3>9, <3>10 DEF RequestStep
  <2> QED
    BY <2>1, <2>2
<1> QED
  BY <1>2, <1>3 DEF RowsHeld, Live, Exists

LEMMA StepUserHeld ==
    ASSUME Inv, NEW q \in Requests, RequestStep(q)
    PROVE  UserHeld'
<1> USE DEF Inv
<1> DEFINE Held(p) ==
      /\ pc'[p] = "commit" /\ op'[p].kind \in Inserting => userLock'[p] = "keyShare"
      /\ pc'[p] \in {"update", "revoke", "commit"} /\ op'[p].kind \in Sweeping =>
           userLock'[p] = "update"
<1>1. \A p \in Requests \ {q} : Held(p) /\ userLock'[p] = userLock[p]
  BY Isolation DEF Isolated, UserHeld
<1>2. /\ Held(q)
      /\ userLock'[q] \in {userLock[q], "none"} \/ UserFree(q, userLock'[q])
  <2> DEFINE Goal == Held(q) /\ (userLock'[q] \in {userLock[q], "none"} \/ UserFree(q, userLock'[q]))
  <2> SUFFICES Goal
    OBVIOUS
  <2>1. CASE Release(q)
    BY <2>1, ReleaseEffect
  <2>2. CASE ~Release(q)
    <3>1. CASE \E r \in Ids : Refresh(q, r) \/ Logout(q, r) \/ RevokeOthers(q, r)
      BY <3>1 DEF Refresh, Logout, RevokeOthers, Begin, Goto, TypeOK, Sweeping, lockVars
    <3>2. CASE \/ Login(q) \/ LogoutAll(q) \/ ChangePassword(q) \/ ResetPassword(q) \/ Deactivate(q)
      BY <3>2 DEF Login, LogoutAll, ChangePassword, ResetPassword, Deactivate, Begin, Goto, TypeOK,
                  Sweeping, lockVars
    <3>3. CASE Stamp(q) \/ ReadUser(q)
      BY <3>3 DEF Stamp, ReadUser, Goto, TypeOK, Sweeping, KindAtLabel, lockVars
    <3>4. CASE RevokeDone(q) \/ Update(q)
      BY <3>4 DEF RevokeDone, Update, Goto, TypeOK, Inserting, KindAtLabel, lockVars, UserHeld
    <3>5. CASE Insert(q)
      BY <3>5 DEF Insert, Goto, TypeOK, Inserting, Sweeping, KindAtLabel
    <3>6. CASE LockRow(q)
      BY <3>6, <2>2 DEF LockRow, Goto, TypeOK, Inserting, Sweeping
    <3>7. CASE LockUser(q)
      BY <3>7, <2>2 DEF LockUser, Goto, TypeOK, Inserting, Sweeping
    <3>8. CASE \E r \in Ids : RevokeRow(q, r)
      BY <3>8 DEF RevokeRow, UserHeld
    <3>9. CASE Commit(q) \/ CommitLost(q) \/ Abort(q) \/ Cancel(q)
      BY <3>9, <2>2 DEF Commit, CommitLost, Apply, Abort, Cancel
    <3> HIDE DEF Goal
    <3> QED
      BY <3>1, <3>2, <3>3, <3>4, <3>5, <3>6, <3>7, <3>8, <3>9 DEF RequestStep
  <2> QED
    BY <2>1, <2>2
<1>3. \A p, x \in Requests : p # x => ~Conflict(userLock'[p], userLock'[x])
  <2>1. \A a, b : Conflict(a, b) <=> Conflict(b, a)
    BY DEF Conflict
  <2>2. \A a : ~Conflict(a, "none")
    BY DEF Conflict
  <2>3. \A p \in Requests \ {q} : ~Conflict(userLock[p], userLock'[q])
    BY <1>2, <2>1, <2>2 DEF UserFree, UserHeld
  <2> QED
    BY <1>1, <2>1, <2>3 DEF UserHeld
<1> QED
  BY <1>1, <1>2, <1>3 DEF UserHeld

\* While a reset or a deactivation is at work nobody commits a new session.
LEMMA SweepExcludesInsert ==
    ASSUME TypeOK, UserHeld, NEW q \in Requests, Apply(q), NEW p \in Requests \ {q},
           op[p].kind \in Sweeping, pc[p] \in {"update", "revoke", "commit"}
    PROVE  op[q].kind \notin Inserting
  BY DEF UserHeld, Apply, Conflict

LEMMA StepSweepCovers ==
    ASSUME Inv, NEW q \in Requests, RequestStep(q)
    PROVE  SweepCovers'
<1> USE DEF Inv
<1> DEFINE Covers(p) ==
      op'[p].kind \in Sweeping =>
        /\ pc'[p] \in {"revoke", "commit"} => \A r \in DOMAIN rows' : rows'[r].family \in scope'[p]
        /\ pc'[p] = "revoke" =>
             \A r \in DOMAIN rows' : rows'[r].status = "live" => r \in todo'[p] \cup marked'[p]
        /\ pc'[p] = "commit" =>
             \A r \in DOMAIN rows' : rows'[r].status = "live" => r \in marked'[p]
<1>1. ASSUME NEW p \in Requests \ {q} PROVE Covers(p)
  <2>1. /\ pc'[p] = pc[p] /\ op'[p] = op[p] /\ scope'[p] = scope[p]
        /\ todo'[p] = todo[p] /\ marked'[p] = marked[p]
    BY Isolation DEF Isolated
  <2>2. op[p].kind \in Sweeping =>
        /\ pc[p] \in {"revoke", "commit"} => \A r \in DOMAIN rows : rows[r].family \in scope[p]
        /\ pc[p] = "revoke" =>
             \A r \in DOMAIN rows : rows[r].status = "live" => r \in todo[p] \cup marked[p]
        /\ pc[p] = "commit" =>
             \A r \in DOMAIN rows : rows[r].status = "live" => r \in marked[p]
    BY DEF SweepCovers, Live, Exists
  <2>3. CASE Apply(q)
    <3>1. op[p].kind \in Sweeping /\ pc[p] \in {"revoke", "commit"} => op[q].kind \notin Inserting
      BY <2>3, SweepExcludesInsert
    <3>2. /\ op[q].kind \notin Inserting => DOMAIN rows' = DOMAIN rows
          /\ \A r \in DOMAIN rows : /\ rows'[r].family = rows[r].family
                                    /\ rows'[r].status = "live" => rows[r].status = "live"
      BY <2>3, CommitEffect
    <3> QED
      BY <2>1, <2>2, <3>1, <3>2
  <2>4. CASE Quiet(q)
    BY <2>1, <2>2, <2>4 DEF Quiet
  <2> QED
    BY <2>3, <2>4, CommitOrQuiet
<1>2. Covers(q)
  <2> DEFINE Goal == Covers(q)
  <2> SUFFICES Goal
    OBVIOUS
  <2>1. CASE Release(q)
    BY <2>1, ReleaseEffect
  <2>2. CASE ~Release(q)
    <3>1. CASE \E r \in Ids : Refresh(q, r) \/ Logout(q, r) \/ RevokeOthers(q, r)
      BY <3>1 DEF Refresh, Logout, RevokeOthers, Begin, Goto, TypeOK
    <3>2. CASE \/ Login(q) \/ LogoutAll(q) \/ ChangePassword(q) \/ ResetPassword(q) \/ Deactivate(q)
      BY <3>2 DEF Login, LogoutAll, ChangePassword, ResetPassword, Deactivate, Begin, Goto, TypeOK
    <3>3. CASE Stamp(q) \/ ReadUser(q) \/ Insert(q)
      BY <3>3 DEF Stamp, ReadUser, Insert, Goto, TypeOK, KindAtLabel, Inserting, Sweeping
    <3>4. CASE LockRow(q) \/ LockUser(q)
      BY <3>4, <2>2 DEF LockRow, LockUser, Goto, TypeOK, Sweeping
    <3>5. CASE Update(q)
      <4>1. UNCHANGED <<rows, op>>
        BY <3>5 DEF Update, dbVars
      <4>2. op[q].kind \in Sweeping =>
              Scope(op[q].kind, op[q].row) = {rows[x].family : x \in DOMAIN rows}
        BY DEF Scope, Sweeping
      <4>3. /\ pc'[q] = "revoke" /\ scope'[q] = Scope(op[q].kind, op[q].row)
            /\ todo'[q] = {r \in DOMAIN rows : Live(r) /\ rows[r].family \in scope'[q]}
        BY <3>5 DEF Update, Goto, TypeOK
      <4> QED
        BY <4>1, <4>2, <4>3 DEF Live, Exists
    <3>6. CASE \E r \in Ids : RevokeRow(q, r)
      <4>1. PICK r \in Ids : RevokeRow(q, r)
        BY <3>6
      <4>2. UNCHANGED <<rows, op, pc, scope>> /\ pc[q] = "revoke"
        BY <4>1 DEF RevokeRow, dbVars
      <4>3. /\ todo'[q] = todo[q] \ {r}
            /\ marked'[q] = IF Live(r) THEN marked[q] \cup {r} ELSE marked[q]
        BY <4>1 DEF RevokeRow, TypeOK
      <4> QED
        BY <4>2, <4>3 DEF SweepCovers, Live, Exists
    <3>7. CASE RevokeDone(q)
      BY <3>7 DEF RevokeDone, Goto, TypeOK, SweepCovers, Sweeping, Live, Exists, dbVars, workVars
    <3>8. CASE Commit(q) \/ CommitLost(q) \/ Abort(q) \/ Cancel(q)
      BY <3>8, <2>2 DEF Commit, CommitLost, Apply, Abort, Cancel
    <3> HIDE DEF Goal
    <3> QED
      BY <3>1, <3>2, <3>3, <3>4, <3>5, <3>6, <3>7, <3>8 DEF RequestStep
  <2> QED
    BY <2>1, <2>2
<1> QED
  BY <1>1, <1>2 DEF SweepCovers, Live, Exists

\* A deactivation cannot commit while a rotation is past its check of the
\* account: the rotated row is live, so the deactivation must have locked it.
LEMMA StepRotatesActive ==
    ASSUME Inv, NEW q \in Requests, RequestStep(q)
    PROVE  RotatesActive'
<1> USE DEF Inv
<1> DEFINE Rotating(p) == op[p].kind = "refresh" /\ pc[p] \in {"insert", "commit"}
<1>1. ASSUME NEW p \in Requests \ {q}, Rotating(p) PROVE active'
  <2>1. active /\ rowLock[op[p].row] = p /\ Live(op[p].row)
    BY <1>1 DEF RotatesActive, RowsHeld
  <2>2. CASE Apply(q)
    <3>1. ASSUME op[q].kind = "deactivate" PROVE FALSE
      <4>1. op[p].row \in marked[q]
        BY <2>1, <2>2, <3>1 DEF SweepCovers, Sweeping, Apply, Live, Exists
      <4>2. rowLock[op[p].row] = q
        BY <4>1 DEF RowsHeld
      <4> QED
        BY <2>1, <4>2
    <3> QED
      BY <2>1, <2>2, <3>1 DEF Apply
  <2>3. CASE Quiet(q)
    BY <2>1, <2>3 DEF Quiet
  <2> QED
    BY <2>2, <2>3, CommitOrQuiet
<1>2. ASSUME Rotating(q)' PROVE active'
  <2> SUFFICES active'
    OBVIOUS
  <2>1. ~Release(q)
    BY <1>2, ReleaseEffect
  <2>2. ~Apply(q) /\ ~Abort(q) /\ ~Cancel(q)
    BY <2>1 DEF Apply, Abort, Cancel
  <2>3. active' = active
    BY <2>2, CommitOrQuiet DEF Quiet
  <2>4. Rotating(q) \/ active
    <3> DEFINE Goal == Rotating(q) \/ active
    <3> SUFFICES Goal
      OBVIOUS
    <3>1. CASE \E r \in Ids : Refresh(q, r) \/ Logout(q, r) \/ RevokeOthers(q, r)
      BY <3>1, <1>2 DEF Refresh, Logout, RevokeOthers, Begin, Goto, TypeOK
    <3>2. CASE \/ Login(q) \/ LogoutAll(q) \/ ChangePassword(q) \/ ResetPassword(q) \/ Deactivate(q)
      BY <3>2, <1>2 DEF Login, LogoutAll, ChangePassword, ResetPassword, Deactivate, Begin, Goto,
                        TypeOK
    <3>3. CASE Stamp(q) \/ ReadUser(q) \/ Insert(q) \/ Update(q)
      BY <3>3, <1>2 DEF Stamp, ReadUser, Insert, Update, Goto, TypeOK, KindAtLabel
    <3>4. CASE LockRow(q) \/ LockUser(q)
      BY <3>4, <1>2, <2>1 DEF LockRow, LockUser, Goto, TypeOK
    <3>5. CASE (\E r \in Ids : RevokeRow(q, r)) \/ RevokeDone(q)
      BY <3>5, <1>2 DEF RevokeRow, RevokeDone, Goto, TypeOK, KindAtLabel, Inserting
    <3> HIDE DEF Goal
    <3> QED
      BY <2>2, <3>1, <3>2, <3>3, <3>4, <3>5 DEF RequestStep, Commit, CommitLost
  <2> QED
    BY <2>3, <2>4 DEF RotatesActive
<1>3. \A p \in Requests \ {q} : Rotating(p)' => Rotating(p)
  BY Isolation DEF Isolated
<1> QED
  BY <1>1, <1>2, <1>3 DEF RotatesActive

LEMMA StepOneLivePerFamily ==
    ASSUME Inv, NEW q \in Requests, RequestStep(q)
    PROVE  OneLivePerFamily'
<1> USE DEF Inv
<1>1. CASE Apply(q)
  <2> DEFINE new == Len(rows) + 1
  <2>1. /\ \A r \in DOMAIN rows : /\ rows'[r].family = rows[r].family
                                  /\ rows'[r].status = "live" => rows[r].status = "live"
        /\ op[q].kind \notin Inserting => DOMAIN rows' = DOMAIN rows
        /\ op[q].kind \in Inserting =>
             new \notin DOMAIN rows /\ DOMAIN rows' = DOMAIN rows \cup {new}
        /\ op[q].kind = "login" => rows'[new].family = new
        /\ op[q].kind = "refresh" => /\ op[q].row \in DOMAIN rows
                                     /\ rows'[new].family = rows[op[q].row].family
                                     /\ rows'[op[q].row].status = "rotated"
    BY <1>1, CommitEffect
  <2> HIDE DEF new
  <2>2. \A r, s \in DOMAIN rows : rows[r].status = "live" /\ rows[s].status = "live"
                                   /\ rows[r].family = rows[s].family => r = s
    BY DEF OneLivePerFamily, Live, Exists
  <2>3. \A r \in DOMAIN rows : rows[r].family \in DOMAIN rows
    BY DEF FamiliesKnown
  <2>4. op[q].kind = "refresh" => rows[op[q].row].status = "live"
    BY <1>1 DEF RowsHeld, Apply, Live
  <2>5. op[q].kind \in Inserting =>
          \A r \in DOMAIN rows : rows'[r].status = "live" => rows'[r].family # rows'[new].family
    BY <2>1, <2>2, <2>3, <2>4 DEF Inserting
  <2>6. \A r, s \in DOMAIN rows' : rows'[r].status = "live" /\ rows'[s].status = "live"
                                    /\ rows'[r].family = rows'[s].family => r = s
    BY <2>1, <2>2, <2>5
  <2> QED
    BY <2>6 DEF OneLivePerFamily, Live
<1>2. CASE Quiet(q)
  BY <1>2 DEF Quiet, OneLivePerFamily, Live, Exists
<1> QED
  BY <1>1, <1>2, CommitOrQuiet

LEMMA StepUserLockEndsSessions ==
    ASSUME Inv, NEW q \in Requests, RequestStep(q)
    PROVE  UserLockEndsSessions'
<1> USE DEF Inv
<1>1. CASE Apply(q)
  <2> DEFINE new == Len(rows) + 1
  <2>1. /\ \A r \in DOMAIN rows : /\ rows'[r].family = rows[r].family
                                  /\ rows'[r].status = "live" => rows[r].status = "live"
        /\ op[q].kind \notin Inserting => DOMAIN rows' = DOMAIN rows
        /\ op[q].kind \in Inserting =>
             new \notin DOMAIN rows /\ DOMAIN rows' = DOMAIN rows \cup {new}
        /\ op[q].kind = "login" => rows'[new].family = new
        /\ op[q].kind = "refresh" => /\ op[q].row \in DOMAIN rows
                                     /\ rows'[new].family = rows[op[q].row].family
    BY <1>1, CommitEffect
  <2>2. op[q].kind \notin Inserting => \A r \in marked[q] : rows'[r].status = "revoked"
    BY <1>1, CommitEffect
  <2> HIDE DEF new
  <2>3. \A r \in DOMAIN rows : rows[r].status = "live" =>
          \A kind \in Sweeping : <<kind, rows[r].family>> \notin ended
    BY DEF UserLockEndsSessions, Live, Exists, Sweeping
  <2>4. CASE op[q].kind \in Sweeping
    <3>1. \A r \in DOMAIN rows : rows[r].status = "live" => r \in marked[q]
      BY <1>1, <2>4 DEF SweepCovers, Apply, Live, Exists
    <3>2. op[q].kind \notin Inserting
      BY <2>4 DEF Sweeping, Inserting
    <3>3. \A r \in DOMAIN rows' : rows'[r].status # "live"
      BY <2>1, <2>2, <3>1, <3>2
    <3> QED
      BY <3>3 DEF UserLockEndsSessions, Live
  <2>5. CASE op[q].kind \notin Sweeping
    <3>1. \A kind \in Sweeping : \A f : <<kind, f>> \in ended' => <<kind, f>> \in ended
      BY <1>1, <2>5 DEF Apply, Sweeping
    <3>2. op[q].kind = "login" => \A kind \in Sweeping : <<kind, new>> \notin ended
      BY <2>1 DEF FamiliesKnown, Inserting
    <3>3. op[q].kind = "refresh" => rows[op[q].row].status = "live"
      BY <1>1 DEF RowsHeld, Apply, Live
    <3>4. \A r \in DOMAIN rows' : rows'[r].status = "live" =>
            \A kind \in Sweeping : <<kind, rows'[r].family>> \notin ended'
      BY <2>1, <2>3, <3>1, <3>2, <3>3 DEF Inserting
    <3> QED
      BY <3>4 DEF UserLockEndsSessions, Live, Sweeping
  <2> QED
    BY <2>4, <2>5
<1>2. CASE Quiet(q)
  BY <1>2 DEF Quiet, UserLockEndsSessions, Live, Exists
<1> QED
  BY <1>1, <1>2, CommitOrQuiet

-----------------------------------------------------------------------------
LEMMA NextInv == Inv /\ [Next]_vars => Inv'
<1> SUFFICES ASSUME Inv, [Next]_vars PROVE Inv'
  OBVIOUS
<1>1. TypeOK'
  BY NextTypeOK
<1>2. CASE TimeStep \/ UNCHANGED vars
  <2>1. /\ rows' = rows /\ active' = active /\ ended' = ended /\ pc' = pc /\ op' = op
        /\ rowLock' = rowLock /\ userLock' = userLock
        /\ scope' = scope /\ todo' = todo /\ marked' = marked
    BY <1>2 DEF TimeStep, GraceElapses, Expire, vars, dbVars, lockVars, workVars
  <2>2. KindAtLabel' /\ RotatesActive'
    BY <2>1 DEF Inv, KindAtLabel, RotatesActive
  <2>3. FamiliesKnown' /\ RowsHeld' /\ SweepCovers'
    BY <2>1 DEF Inv, FamiliesKnown, RowsHeld, SweepCovers, Live, Exists
  <2>4. UserHeld'
    BY <2>1 DEF Inv, UserHeld
  <2>5. OneLivePerFamily' /\ UserLockEndsSessions'
    BY <2>1 DEF Inv, OneLivePerFamily, UserLockEndsSessions, Live, Exists
  <2> QED
    BY <1>1, <2>2, <2>3, <2>4, <2>5 DEF Inv
<1>3. ASSUME NEW q \in Requests, RequestStep(q) PROVE Inv'
  <2>1. KindAtLabel' /\ FamiliesKnown' /\ RowsHeld'
    BY <1>3, StepKindAtLabel, StepFamiliesKnown, StepRowsHeld
  <2>2. UserHeld' /\ SweepCovers' /\ RotatesActive'
    BY <1>3, StepUserHeld, StepSweepCovers, StepRotatesActive
  <2>3. OneLivePerFamily' /\ UserLockEndsSessions'
    BY <1>3, StepOneLivePerFamily, StepUserLockEndsSessions
  <2> QED
    BY <1>1, <2>1, <2>2, <2>3 DEF Inv
<1> QED
  BY <1>2, <1>3, StepOf

LEMMA InvAlways == Spec => []Inv
  BY InitInv, NextInv, PTL DEF Spec

\* The types of RefreshSessions are kept by every request and fault.
THEOREM TypeCorrect == Spec => []TypeOK
<1>1. Inv => TypeOK
  BY DEF Inv
<1> QED
  BY <1>1, InvAlways, PTL

\* However many tabs present however old tokens, in any number of concurrent
\* requests, a family keeps at most one usable refresh token.
THEOREM OneLivePerFamilyAlways == Spec => []OneLivePerFamily
<1>1. Inv => OneLivePerFamily
  BY DEF Inv
<1> QED
  BY <1>1, InvAlways, PTL

\* A committed password reset or deactivation leaves no usable session in any
\* family that existed, whatever rotations were in flight.
THEOREM UserLockEndsSessionsAlways == Spec => []UserLockEndsSessions
<1>1. Inv => UserLockEndsSessions
  BY DEF Inv
<1> QED
  BY <1>1, InvAlways, PTL

\* refresh_session never rotates a session of a disabled account, although it
\* reads is_active without a lock before it inserts and commits.
THEOREM InactiveNeverRotatesAlways == Spec => InactiveNeverRotates
<1> DEFINE Body == \A r \in DOMAIN rows : rows[r].status = "live" /\ rows'[r].status = "rotated" => active
<1>1. Inv /\ [Next]_vars => [Body]_vars
  <2> SUFFICES ASSUME Inv, Next PROVE Body
    OBVIOUS
  <2>1. CASE TimeStep
    BY <2>1 DEF TimeStep, GraceElapses, Expire, dbVars
  <2>2. ASSUME NEW q \in Requests, RequestStep(q) PROVE Body
    <3>1. CASE Apply(q)
      <4>1. \A r \in DOMAIN rows :
              rows[r].status = "live" /\ rows'[r].status = "rotated" => op[q].kind = "refresh"
        BY <3>1, CommitEffect DEF Inv
      <4>2. op[q].kind = "refresh" => active
        BY <3>1 DEF Inv, RotatesActive, Apply
      <4> QED
        BY <4>1, <4>2
    <3>2. CASE Quiet(q)
      BY <3>2 DEF Quiet
    <3> QED
      BY <2>2, <3>1, <3>2, CommitOrQuiet
  <2> HIDE DEF Body
  <2> QED
    BY <2>1, <2>2, StepOf
<1> QED
  BY <1>1, InvAlways, PTL DEF Spec, InactiveNeverRotates
=============================================================================
