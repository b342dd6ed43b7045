--------------------------- MODULE RefreshSessions ---------------------------
(***************************************************************************)
(* Refresh token families of one account (auth/services/auth_service.py,   *)
(* account_service.py): login, rotation with grace and reuse detection,    *)
(* and the requests that end sessions, run concurrently over PostgreSQL    *)
(* at READ COMMITTED.                                                      *)
(*                                                                         *)
(* An UPDATE ... WHERE revoked_at IS NULL picks its rows from the snapshot *)
(* of its start, waits for locked ones and checks the predicate again.     *)
(* Inserting a session takes FOR KEY SHARE on its users row (foreign key); *)
(* only FOR UPDATE conflicts with that, a plain UPDATE users does not.     *)
(***************************************************************************)
EXTENDS Integers, Sequences

CONSTANTS
    Requests,     \* concurrent request handlers
    None,
    MaxRows,      \* bound: rows of user_sessions
    MaxRequests,  \* bound: requests in all
    MaxTicks,     \* bound: grace periods and lifetimes that run out
    MaxFaults     \* bound: dropped connections and lost responses

ASSUME SessionsAssumption ==
    /\ None \notin Requests
    /\ MaxRows \in Nat \ {0}
    /\ MaxRequests \in Nat /\ MaxTicks \in Nat /\ MaxFaults \in Nat

Ids == 1..MaxRows
\* The requests whose effect on sessions the documentation promises.
Promised == {"changePassword", "reset", "deactivate"}
Kinds == Promised \cup {"reuse", "logout", "logoutAll", "others", "login", "refresh", "inactive", "expire"}
Row == [family : Ids, status : {"live", "rotated", "revoked"}]
Labels == {"idle", "stamp", "lockRow", "readUser", "lockUser", "insert",
           "update", "revoke", "commit"}
LockModes == {"none", "keyShare", "noKeyUpdate", "update"}

VARIABLES
    rows,      \* committed user_sessions, oldest first
    active,    \* users.is_active
    overdue,   \* rows whose rotation is older than the grace period
    expired,   \* rows, and their tokens, past expires_at
    issued,    \* tokens that reached a client
    rowLock,   \* holder of each session row lock, or None
    userLock,  \* strongest lock of each request on the users row
    pc, op,    \* next statement of each request; what it does
    scope,     \* families its UPDATE is about
    todo,      \* rows its UPDATE has yet to visit
    marked,    \* rows it revoked and has not committed
    ended,     \* <<kind, family>>: a committed, promised end of family
    started, ticks, faults

dbVars == <<rows, active>>
timeVars == <<overdue, expired, ticks>>
lockVars == <<rowLock, userLock>>
workVars == <<scope, todo, marked>>
vars == <<dbVars, timeVars, issued, lockVars, pc, op, workVars, ended, started, faults>>

Exists(r) == r \in DOMAIN rows
Live(r) == Exists(r) /\ rows[r].status = "live"

\* One type invariant.
TypeOK ==
    /\ rows \in Seq(Row) /\ Len(rows) <= MaxRows
    /\ active \in BOOLEAN
    /\ overdue \subseteq DOMAIN rows /\ expired \subseteq DOMAIN rows /\ issued \subseteq DOMAIN rows
    /\ rowLock \in [Ids -> Requests \cup {None}]
    /\ userLock \in [Requests -> LockModes]
    /\ pc \in [Requests -> Labels]
    /\ op \in [Requests -> [kind : Kinds, row : Ids]]
    /\ scope \in [Requests -> SUBSET Ids]
    /\ todo \in [Requests -> SUBSET Ids] /\ marked \in [Requests -> SUBSET Ids]
    /\ ended \subseteq Promised \X Ids
    /\ started \in Nat /\ ticks \in Nat /\ faults \in Nat

NoOp == [kind |-> "login", row |-> 1]

Init ==
    /\ rows = << >>
    /\ active = TRUE
    /\ overdue = {} /\ expired = {} /\ issued = {}
    /\ rowLock = [r \in Ids |-> None]
    /\ userLock = [q \in Requests |-> "none"]
    /\ pc = [q \in Requests |-> "idle"]
    /\ op = [q \in Requests |-> NoOp]
    /\ scope = [q \in Requests |-> {}]
    /\ todo = [q \in Requests |-> {}] /\ marked = [q \in Requests |-> {}]
    /\ ended = {}
    /\ started = 0 /\ ticks = 0 /\ faults = 0

-----------------------------------------------------------------------------
(* PostgreSQL row locks. *)

Conflict(a, b) ==
    \/ "update" \in {a, b} /\ "none" \notin {a, b}
    \/ a = "noKeyUpdate" /\ b = "noKeyUpdate"

UserFree(q, mode) == \A p \in Requests \ {q} : ~Conflict(userLock[p], mode)
RowFree(q, r) == rowLock[r] \in {None, q}

\* What q's next statement has to wait for.
Blocked(q) ==
    \/ pc[q] = "stamp" /\ ~UserFree(q, "noKeyUpdate")
    \/ pc[q] = "insert" /\ ~UserFree(q, "keyShare")
    \/ pc[q] = "lockUser" /\ op[q].kind = "changePassword" /\ ~UserFree(q, "noKeyUpdate")
    \/ pc[q] = "lockUser" /\ op[q].kind # "changePassword" /\ ~UserFree(q, "update")
    \/ pc[q] = "lockRow" /\ ~RowFree(q, op[q].row)
    \/ pc[q] = "revoke" /\ todo[q] # {} /\ \A r \in todo[q] : ~RowFree(q, r)

Goto(q, label) == pc' = [pc EXCEPT ![q] = label]

\* The transaction is over and the request answered.
Release(q) ==
    /\ rowLock' = [r \in Ids |-> IF rowLock[r] = q THEN None ELSE rowLock[r]]
    /\ userLock' = [userLock EXCEPT ![q] = "none"]
    /\ scope' = [scope EXCEPT ![q] = {}]
    /\ todo' = [todo EXCEPT ![q] = {}]
    /\ marked' = [marked EXCEPT ![q] = {}]
    /\ op' = [op EXCEPT ![q] = NoOp]
    /\ Goto(q, "idle")

Begin(q, kind, r) ==
    /\ pc[q] = "idle"
    /\ started < MaxRequests
    /\ started' = started + 1
    /\ op' = [op EXCEPT ![q] = [kind |-> kind, row |-> r]]
    /\ UNCHANGED <<dbVars, timeVars, issued, lockVars, workVars, ended, faults>>

-----------------------------------------------------------------------------
(* authenticate: password and is_active are read without a lock, then      *)
(* last_login_at is committed; only afterwards is the session inserted.    *)
Login(q) ==
    /\ active
    /\ Len(rows) < MaxRows
    /\ Begin(q, "login", 1)
    /\ Goto(q, "stamp")

Stamp(q) ==
    /\ pc[q] = "stamp"
    /\ UserFree(q, "noKeyUpdate")
    /\ Goto(q, "insert")
    /\ UNCHANGED <<dbVars, timeVars, issued, lockVars, op, workVars, ended, started, faults>>

(* refresh_session: an expired or unknown JWT is refused before the        *)
(* database; any token a client was ever given may come back, at any time. *)
Refresh(q, r) ==
    /\ r \in issued \ expired
    /\ Len(rows) < MaxRows
    /\ Begin(q, "refresh", r)
    /\ Goto(q, "lockRow")

\* Mutant: the session row is read without FOR UPDATE.
LockRowUnlocked(q) ==
    LET r == op[q].row IN
    /\ pc[q] = "lockRow"
    /\ \/ /\ ~Live(r) /\ Release(q)
       \/ /\ Live(r) /\ Goto(q, "readUser") /\ UNCHANGED <<op, lockVars, workVars>>
    /\ UNCHANGED <<dbVars, timeVars, issued, ended, started, faults>>

(* SELECT ... FOR UPDATE and the decision on what it returned. *)
LockRow(q) ==
    LET r == op[q].row
        Locked(kind, label) ==
            /\ rowLock' = [rowLock EXCEPT ![r] = q]
            /\ op' = [op EXCEPT ![q].kind = kind]
            /\ Goto(q, label)
    IN
    /\ pc[q] = "lockRow"
    /\ RowFree(q, r)
    /\ \/ /\ rows[r].status = "rotated" /\ r \notin overdue  \* 409 REFRESH_ALREADY_ROTATED
          /\ Release(q)
       \/ /\ rows[r].status = "rotated" /\ r \in overdue     \* REFRESH_TOKEN_REUSE_DETECTED
          /\ Locked("reuse", "update")
          /\ UNCHANGED <<userLock, workVars>>
       \/ /\ rows[r].status = "revoked"                      \* SESSION_REVOKED
          /\ Release(q)
       \/ /\ Live(r) /\ r \in expired                        \* REFRESH_TOKEN_EXPIRED
          /\ Locked("expire", "commit")
          /\ marked' = [marked EXCEPT ![q] = {r}]
          /\ UNCHANGED <<userLock, scope, todo>>
       \/ /\ Live(r) /\ r \notin expired
          /\ Locked("refresh", "readUser")
          /\ UNCHANGED <<userLock, workVars>>
    /\ UNCHANGED <<dbVars, timeVars, issued, ended, started, faults>>

\* Mutant: rotation does not look at the account.
ReadUserIgnored(q) ==
    /\ pc[q] = "readUser"
    /\ Goto(q, "insert")
    /\ UNCHANGED <<dbVars, timeVars, issued, lockVars, op, workVars, ended, started, faults>>

(* A disabled account loses the family instead of rotating it. *)
ReadUser(q) ==
    /\ pc[q] = "readUser"
    /\ \/ active /\ Goto(q, "insert") /\ UNCHANGED op
       \/ ~active /\ Goto(q, "update") /\ op' = [op EXCEPT ![q].kind = "inactive"]
    /\ UNCHANGED <<dbVars, timeVars, issued, lockVars, workVars, ended, started, faults>>

\* Mutant: user_sessions.user_id without its foreign key.
InsertUnreferenced(q) ==
    /\ pc[q] = "insert"
    /\ Goto(q, "commit")
    /\ UNCHANGED <<dbVars, timeVars, issued, lockVars, op, workVars, ended, started, faults>>

(* The flush of the new session, or of an audit entry: its foreign key     *)
(* locks the user.                                                         *)
Insert(q) ==
    /\ pc[q] = "insert"
    /\ UserFree(q, "keyShare")
    /\ userLock' = [userLock EXCEPT ![q] = "keyShare"]
    /\ Goto(q, "commit")
    /\ UNCHANGED <<dbVars, timeVars, issued, rowLock, op, workVars, ended, started, faults>>

-----------------------------------------------------------------------------
(* The requests that end sessions.  logout and revoke_other_sessions use    *)
(* the refresh cookie r; an access token is enough for the account-wide    *)
(* ones, which need an active user; a reset only needs its mailed token.   *)
SignedIn == active /\ issued # {}

Logout(q, r) ==
    /\ r \in issued \ expired
    /\ Begin(q, "logout", r)
    /\ Goto(q, "update")

RevokeOthers(q, r) ==
    /\ SignedIn /\ r \in issued \ expired
    /\ Begin(q, "others", r)
    /\ Goto(q, "update")

LogoutAll(q) ==
    /\ SignedIn
    /\ Begin(q, "logoutAll", 1)
    /\ Goto(q, "update")

ChangePassword(q) ==
    /\ SignedIn
    /\ Begin(q, "changePassword", 1)
    /\ Goto(q, "lockUser")

ResetPassword(q) ==
    /\ Begin(q, "reset", 1)
    /\ Goto(q, "lockUser")

Deactivate(q) ==
    /\ SignedIn
    /\ Begin(q, "deactivate", 1)
    /\ Goto(q, "lockUser")

(* SELECT FOR UPDATE in reset and deactivation, UPDATE users in change;    *)
(* an account that is already deactivated is left alone.                   *)
LockUser(q) ==
    LET mode == IF op[q].kind = "changePassword" THEN "noKeyUpdate" ELSE "update" IN
    /\ pc[q] = "lockUser"
    /\ UserFree(q, mode)
    /\ \/ /\ op[q].kind = "deactivate" /\ ~active
          /\ Release(q)
       \/ /\ op[q].kind = "deactivate" => active
          /\ userLock' = [userLock EXCEPT ![q] = mode]
          /\ Goto(q, "update")
          /\ UNCHANGED <<rowLock, op, workVars>>
    /\ UNCHANGED <<dbVars, timeVars, issued, ended, started, faults>>

\* The families a request ends.
Scope(kind, r) ==
    LET own == rows[r].family
        all == {rows[x].family : x \in DOMAIN rows}
    IN CASE kind \in {"logout", "reuse", "inactive"} -> {own}
         [] kind = "others" -> all \ {own}
         [] OTHER -> all

\* The UPDATE takes its snapshot: rows committed and not revoked.
Update(q) ==
    /\ pc[q] = "update"
    /\ scope' = [scope EXCEPT ![q] = Scope(op[q].kind, op[q].row)]
    /\ todo' = [todo EXCEPT ![q] = {r \in DOMAIN rows : Live(r) /\ rows[r].family \in scope'[q]}]
    /\ Goto(q, "revoke")
    /\ UNCHANGED <<dbVars, timeVars, issued, lockVars, op, marked, ended, started, faults>>

\* One row of it: wait for its lock, then look at revoked_at again.
RevokeRow(q, r) ==
    /\ pc[q] = "revoke"
    /\ r \in todo[q]
    /\ RowFree(q, r)
    /\ rowLock' = [rowLock EXCEPT ![r] = q]
    /\ todo' = [todo EXCEPT ![q] = @ \ {r}]
    /\ marked' = [marked EXCEPT ![q] = IF Live(r) THEN @ \cup {r} ELSE @]
    /\ UNCHANGED <<dbVars, timeVars, issued, userLock, pc, op, scope, ended, started, faults>>

\* Reuse detection also writes an audit entry that refers to the user.
RevokeDone(q) ==
    /\ pc[q] = "revoke"
    /\ todo[q] = {}
    /\ Goto(q, IF op[q].kind = "reuse" THEN "insert" ELSE "commit")
    /\ UNCHANGED <<dbVars, timeVars, issued, lockVars, op, workVars, ended, started, faults>>

-----------------------------------------------------------------------------
\* Mutant: a session that is ended gets a status the table does not know.
AfterExpired(q) ==
    IF op[q].kind \in {"login", "refresh"}
    THEN Append(rows, [family |-> Len(rows) + 1, status |-> "live"])
    ELSE [x \in DOMAIN rows |-> IF x \in marked[q] THEN [rows[x] EXCEPT !.status = "expired"]
                                ELSE rows[x]]

\* The table once q's transaction is committed.
After(q) ==
    LET r == op[q].row IN
    CASE op[q].kind = "login" ->
           Append(rows, [family |-> Len(rows) + 1, status |-> "live"])
      [] op[q].kind = "refresh" ->
           Append([rows EXCEPT ![r].status = "rotated"],
                  [family |-> rows[r].family, status |-> "live"])
      [] OTHER ->
           [x \in DOMAIN rows |-> IF x \in marked[q] THEN [rows[x] EXCEPT !.status = "revoked"]
                                  ELSE rows[x]]

Apply(q) ==
    LET kind == op[q].kind IN
    /\ pc[q] = "commit"
    /\ kind \in {"login", "refresh"} => Len(rows) < MaxRows
    /\ rows' = After(q)
    /\ active' = (active /\ kind # "deactivate")
    /\ ended' = IF kind \in Promised THEN ended \cup ({kind} \X scope[q])
                ELSE ended
    /\ Release(q)
    /\ UNCHANGED <<timeVars, started>>

Commit(q) ==
    /\ Apply(q)
    /\ issued' = issued \cup (DOMAIN rows' \ DOMAIN rows)
    /\ UNCHANGED faults

Fault == faults < MaxFaults /\ faults' = faults + 1

\* Committed, but the cookies never reach the client.
CommitLost(q) == Apply(q) /\ Fault /\ UNCHANGED issued

\* The connection drops: PostgreSQL rolls back.
Abort(q) ==
    /\ pc[q] # "idle"
    /\ Fault
    /\ Release(q)
    /\ UNCHANGED <<dbVars, timeVars, issued, ended, started>>

\* A blocked statement is cancelled: deadlock victim or statement_timeout.
Cancel(q) ==
    /\ Blocked(q)
    /\ Release(q)
    /\ UNCHANGED <<dbVars, timeVars, issued, ended, started, faults>>

Tick == ticks < MaxTicks /\ ticks' = ticks + 1

GraceElapses(r) ==
    /\ Tick
    /\ Exists(r) /\ rows[r].status = "rotated" /\ r \notin overdue
    /\ overdue' = overdue \cup {r}
    /\ UNCHANGED <<dbVars, expired, issued, lockVars, pc, op, workVars, ended, started, faults>>

Expire(r) ==
    /\ Tick
    /\ Exists(r) /\ r \notin expired
    /\ expired' = expired \cup {r}
    /\ UNCHANGED <<dbVars, overdue, issued, lockVars, pc, op, workVars, ended, started, faults>>

Next ==
    \/ \E q \in Requests :
         \/ Login(q)
         \/ Stamp(q)
         \/ \E r \in Ids : Refresh(q, r)
         \/ LockRow(q)
         \/ ReadUser(q)
         \/ Insert(q)
         \/ \E r \in Ids : Logout(q, r) \/ RevokeOthers(q, r)
         \/ LogoutAll(q)
         \/ ChangePassword(q)
         \/ ResetPassword(q)
         \/ Deactivate(q)
         \/ LockUser(q)
         \/ Update(q)
         \/ \E r \in Ids : RevokeRow(q, r)
         \/ RevokeDone(q)
         \/ Commit(q)
         \/ CommitLost(q)
         \/ Abort(q)
         \/ Cancel(q)
    \/ \E r \in Ids : GraceElapses(r) \/ Expire(r)

Spec == Init /\ [][Next]_vars

-----------------------------------------------------------------------------
\* However many tabs present however old tokens, a family has at most one
\* usable refresh token.
OneLivePerFamily ==
    \A r, s \in DOMAIN rows :
      Live(r) /\ Live(s) /\ rows[r].family = rows[s].family => r = s

\* A committed password reset or deactivation leaves no session of the
\* families that existed then, although a rotation may be in flight: they
\* lock the users row that a successor's foreign key needs.
UserLockEndsSessions ==
    \A r \in DOMAIN rows :
      Live(r) => \A kind \in {"reset", "deactivate"} : <<kind, rows[r].family>> \notin ended

\* A session of a disabled account is never rotated, not even one that a
\* login inserted after the deactivation committed.
InactiveNeverRotates ==
    [][\A r \in DOMAIN rows : rows[r].status = "live" /\ rows'[r].status = "rotated" => active]_vars

\* "Password reset/change revokes refresh sessions."
PasswordChangeEndsSessions ==
    \A r \in DOMAIN rows : Live(r) => <<"changePassword", rows[r].family>> \notin ended
=============================================================================
