------------------------------ MODULE Accounts ------------------------------
(***************************************************************************)
(* The account life cycle of the authentication service: local signup,     *)
(* email confirmation, password reset, OAuth sign-in, linking and          *)
(* unlinking, passkey enrolment and removal, deactivation and deletion.    *)
(*                                                                         *)
(* Requests run concurrently on one PostgreSQL database at READ COMMITTED. *)
(* A request without row locks reads in one step and commits in a later    *)
(* one, so what it read may be stale.  A request that locks rows takes     *)
(* them one at a time (Acquire), reads under them (Decide) and commits     *)
(* (Write); rows are released when its transaction ends, in whichever way. *)
(* Sessions are module RefreshSessions, second factors MfaChallenge; here  *)
(* the session rows of a user are one row that its operations lock.        *)
(***************************************************************************)
EXTENDS Naturals, FiniteSets

CONSTANTS
    Requests,        \* concurrent HTTP requests
    MaxUsers,        \* user ids, in the order of the primary key
    Emails,          \* addresses people own
    Subjects,        \* identities at the OAuth providers
    ProviderOf,      \* [Subjects -> provider]
    EmailOf,         \* [Subjects -> verified provider address, or None]
    Keys,            \* passkey credential ids
    Superusers,      \* ids with is_superuser, set by the operator
    SecondFactor,    \* ids with a TOTP method or unused recovery codes
    Existing,        \* [id -> row], the accounts at the start
    Linked,          \* [Subjects -> id or None], the identities at the start
    Registered,      \* [Keys -> id or None], the passkeys at the start
    MaxMails, MaxResets,   \* verification and reset tokens
    MaxRequests,     \* requests served in a behaviour
    None

Users == 1..MaxUsers
MailIds == 1..MaxMails
ResetIds == 1..MaxResets
Providers == {ProviderOf[s] : s \in Subjects}

\* A pending account carries a placeholder address made of its identity.
Addresses == Emails \cup Subjects

\* The columns of users the operations read or write.
Row == [email : Addresses, password : BOOLEAN, verified : BOOLEAN,
        pending : BOOLEAN, active : BOOLEAN]

Mail == [owner : Users, address : Addresses, used : BOOLEAN]
Reset == [owner : Users, state : {"open", "used", "invalidated"}]

ASSUME AccountsAssumption ==
    /\ MaxUsers \in Nat /\ MaxMails \in Nat /\ MaxResets \in Nat /\ MaxRequests \in Nat
    /\ Superusers \subseteq Users /\ SecondFactor \subseteq Users
    /\ ProviderOf \in [Subjects -> {ProviderOf[s] : s \in Subjects}]
    /\ EmailOf \in [Subjects -> Emails \cup {None}]
    /\ Existing \in [Users -> Row \cup {None}]
    /\ Linked \in [Subjects -> Users \cup {None}]
    /\ Registered \in [Keys -> Users \cup {None}]
    /\ None \notin Users \cup Emails \cup Subjects \cup Keys \cup Requests \cup Row \cup Mail \cup Reset
    \* A placeholder address is in a domain of its own; only an account that
    \* has one is pending, and no provider confirms it.
    /\ Emails \cap Subjects = {}
    /\ \A u \in Users : Existing[u] # None /\ Existing[u].pending =>
           Existing[u].email \in Subjects /\ ~Existing[u].verified
    \* The operator has made an account a superuser.
    /\ \E u \in Superusers : Existing[u] # None /\ Existing[u].active

VARIABLES
    users,     \* [Users -> Row, or None for an id without a row]
    oauth,     \* [Subjects -> owner, or None]
    keys,      \* [Keys -> owner, or None]
    enrolling, \* users with an unused passkey registration ceremony
    mail,      \* [MailIds -> verification token, or None]
    reset,     \* [ResetIds -> password reset token, or None]
    used,      \* ids that ever had a row: a primary key is not reused
    lock,      \* [Locks -> the request holding the row, or None]
    req,       \* [Requests -> the request being served]
    served     \* requests started

data == <<users, oauth, keys, enrolling, mail, reset, used>>
vars == <<users, oauth, keys, enrolling, mail, reset, used, lock, req, served>>

-----------------------------------------------------------------------------
(* The rows requests lock, and the state of a request.                     *)

Locks == ({"user", "sessions"} \X Users) \cup ({"mail"} \X MailIds)
             \cup ({"reset"} \X ResetIds)

Operations == {"signup", "complete", "login", "link", "unlink", "remove",
               "verify", "resend", "forgot", "reset", "change", "rotate",
               "deactivate", "delete"}
Labels == {"commit", "token", "found", "create", "callback", "lock", "write"}

\* "starter" is the account the OAuth flow cookie names, "seen" what the
\* request read in an earlier statement, "open" the open reset tokens it saw.
Request(op, pc, u, arg) ==
    [op |-> op, pc |-> pc, user |-> u, arg |-> arg, starter |-> None, seen |-> {}, open |-> {}]

Idle == Request("idle", "idle", None, None)

Query == [op : Operations \cup {"idle"}, pc : Labels \cup {"idle"}, user : Users \cup {None},
          arg : Addresses \cup Keys \cup MailIds \cup ResetIds \cup {None},
          starter : Users \cup {None}, seen : SUBSET {"verified", "own", "match"},
          open : SUBSET ResetIds]

\* Every variable keeps its type.
TypeOK ==
    /\ users \in [Users -> Row \cup {None}]
    /\ oauth \in [Subjects -> Users \cup {None}]
    /\ keys \in [Keys -> Users \cup {None}]
    /\ enrolling \subseteq Users
    /\ mail \in [MailIds -> Mail \cup {None}]
    /\ reset \in [ResetIds -> Reset \cup {None}]
    /\ used \subseteq Users
    /\ lock \in [Locks -> Requests \cup {None}]
    /\ req \in [Requests -> Query]
    /\ served \in 0..MaxRequests

Init ==
    /\ users = Existing
    /\ oauth = Linked
    /\ keys = Registered
    /\ enrolling = {}
    /\ mail = [t \in MailIds |-> None]
    /\ reset = [t \in ResetIds |-> None]
    /\ used = {u \in Users : Existing[u] # None}
    /\ lock = [l \in Locks |-> None]
    /\ req = [r \in Requests |-> Idle]
    /\ served = 0

-----------------------------------------------------------------------------
(* Helpers.                                                                *)

\* The row is there and get_current_active_user lets its owner in.
Active(u) == users[u] # None /\ users[u].active

\* get_user_by_email finds nobody; also the unique index on lower(email).
EmailFree(e) == \A u \in Users : users[u] # None => users[u].email # e

IdentitiesOf(u) == {s \in Subjects : oauth[s] = u}
KeysOf(u) == {k \in Keys : keys[k] = u}
AtProvider(u, p) == {s \in IdentitiesOf(u) : ProviderOf[s] = p}
OpenResets(u) == {t \in ResetIds : reset[t] # None /\ reset[t].owner = u /\ reset[t].state = "open"}
ActiveSuperusers == {u \in Superusers : Active(u)}

\* Uncommitted or locked rows make a writer of the user, or of a row with a
\* foreign key to it, wait.
Free(u) == lock[<<"user", u>>] = None

Unlocked(r) == [l \in Locks |-> IF lock[l] = r THEN None ELSE lock[l]]

\* verify_matching_provider_email.
Confirms(s, address) == EmailOf[s] # None /\ EmailOf[s] = address

Begin(r, request) ==
    /\ req[r] = Idle
    /\ served < MaxRequests
    /\ served' = served + 1
    /\ req' = [req EXCEPT ![r] = request]
    /\ UNCHANGED <<data, lock>>

Go(r, pc) == req' = [req EXCEPT ![r].pc = pc]

\* The session of the request is closed: whatever it holds is released.
End(r) ==
    /\ req' = [req EXCEPT ![r] = Idle]
    /\ lock' = Unlocked(r)
    /\ UNCHANGED served

At(r, op, pc) == req[r].op = op /\ req[r].pc = pc

NewMail(u, address) ==
    \E t \in MailIds :
        /\ mail[t] = None
        /\ mail' = [mail EXCEPT ![t] = [owner |-> u, address |-> address, used |-> FALSE]]

-----------------------------------------------------------------------------
(* Local accounts: signup, and the address of a pending OAuth account.     *)

\* signup checks the address, and commits the row in a later statement.
Signup(r) ==
    \E e \in Emails : EmailFree(e) /\ Begin(r, Request("signup", "commit", None, e))

\* The unique index answers a signup that lost the race with the same 409.
SignupCommit(r) ==
    /\ At(r, "signup", "commit")
    /\ \/ /\ EmailFree(req[r].arg)
          /\ \E u \in Users \ used :
                 /\ users' = [users EXCEPT ![u] =
                        [email |-> req[r].arg, password |-> TRUE, verified |-> FALSE,
                         pending |-> FALSE, active |-> TRUE]]
                 /\ used' = used \cup {u}
                 /\ req' = [req EXCEPT ![r] = [@ EXCEPT !.pc = "token", !.user = u]]
          /\ UNCHANGED <<oauth, keys, enrolling, mail, reset, lock, served>>
       \/ /\ ~EmailFree(req[r].arg) \/ used = Users
          /\ End(r)
          /\ UNCHANGED data

\* Mutant: the flush writes is_verified whatever the request had read.
CompleteEmailDirty(r) ==
    \E u \in Users, e \in Emails :
        /\ Active(u) /\ users[u].pending
        /\ EmailFree(e)
        /\ Begin(r, [Request("complete", "commit", u, e) EXCEPT !.seen = {"verified"}])

\* complete_oauth_email works on the row get_current_active_user loaded.
CompleteEmail(r) ==
    \E u \in Users, e \in Emails :
        /\ Active(u) /\ users[u].pending
        /\ EmailFree(e)
        /\ Begin(r, [Request("complete", "commit", u, e) EXCEPT
                         !.seen = IF users[u].verified THEN {"verified"} ELSE {}])

\* The flush writes the columns whose value differs from the loaded one:
\* is_verified only if the request had read TRUE.
CompleteEmailCommit(r) ==
    LET u == req[r].user
        e == req[r].arg
        writes == users[u] # None /\ \A v \in Users \ {u} : users[v] # None => users[v].email # e
    IN /\ At(r, "complete", "commit")
       /\ Free(u)
       /\ \/ /\ writes
             /\ users' = [users EXCEPT ![u] =
                    [@ EXCEPT !.email = e, !.pending = FALSE,
                              !.verified = users[u].verified /\ "verified" \notin req[r].seen]]
             /\ Go(r, "token")
             /\ UNCHANGED <<oauth, keys, enrolling, mail, reset, used, lock, served>>
          \/ /\ ~writes
             /\ End(r)
             /\ UNCHANGED data

\* create_verification_token in a transaction of its own, then the mail to
\* the address this request wrote.  No token is left once MaxMails exist.
SendToken(r) ==
    LET u == req[r].user
    IN /\ req[r].pc = "token"
       /\ Free(u)
       /\ \/ users[u] # None /\ NewMail(u, req[r].arg)
          \/ /\ users[u] = None \/ \A t \in MailIds : mail[t] # None
             /\ UNCHANGED mail
       /\ End(r)
       /\ UNCHANGED <<users, oauth, keys, enrolling, reset, used>>

-----------------------------------------------------------------------------
(* OAuth sign-in.                                                          *)

\* Mutant: an unknown identity is attached to the account with its address.
OAuthLoginMerging(r) ==
    \E s \in Subjects, u \in Users :
        /\ oauth[s] = None
        /\ Active(u) /\ Confirms(s, users[u].email)
        /\ Begin(r, Request("link", "commit", u, s))

\* authenticate_oauth_identity: a known identity signs its owner in; an
\* unknown one whose address has an account is refused; else a new account.
OAuthLogin(r) ==
    \E s \in Subjects :
        \/ /\ oauth[s] # None
           /\ Begin(r, Request("login", "found", oauth[s], s))
        \/ /\ oauth[s] = None
           /\ EmailOf[s] = None \/ EmailFree(EmailOf[s])
           /\ Begin(r, Request("login", "create", None, s))

\* The owner is active and the identity row still there: both are updated.
OAuthLoginFound(r) ==
    LET u == req[r].user
        s == req[r].arg
        known == Active(u) /\ oauth[s] = u
    IN /\ At(r, "login", "found")
       /\ Free(u)
       /\ IF known /\ Confirms(s, users[u].email)
             THEN users' = [users EXCEPT ![u].verified = TRUE]
             ELSE UNCHANGED users
       /\ End(r)
       /\ UNCHANGED <<oauth, keys, enrolling, mail, reset, used>>

\* Mutant: an account without a provider address is stored without one.
OAuthLoginNoPlaceholder(r) ==
    /\ At(r, "login", "create")
    /\ oauth[req[r].arg] = None
    /\ \E u \in Users \ used :
           /\ users' = [users EXCEPT ![u] =
                  [email |-> EmailOf[req[r].arg], password |-> FALSE, verified |-> FALSE,
                   pending |-> TRUE, active |-> TRUE]]
           /\ oauth' = [oauth EXCEPT ![req[r].arg] = u]
           /\ used' = used \cup {u}
    /\ End(r)
    /\ UNCHANGED <<keys, enrolling, mail, reset>>

\* Insert account and identity.  A violated unique constraint rolls both
\* back: the identity is looked up again, and failing that the login fails.
OAuthLoginCreate(r) ==
    LET s == req[r].arg
        address == IF EmailOf[s] = None THEN s ELSE EmailOf[s]
        inserts == oauth[s] = None /\ EmailFree(address) /\ used # Users
    IN /\ At(r, "login", "create")
       /\ \/ /\ inserts
             /\ \E u \in Users \ used :
                    /\ users' = [users EXCEPT ![u] =
                           [email |-> address, password |-> FALSE,
                            verified |-> EmailOf[s] # None,
                            pending |-> EmailOf[s] = None, active |-> TRUE]]
                    /\ oauth' = [oauth EXCEPT ![s] = u]
                    /\ used' = used \cup {u}
             /\ End(r)
             /\ UNCHANGED <<keys, enrolling, mail, reset>>
          \/ /\ ~inserts /\ oauth[s] # None
             /\ req' = [req EXCEPT ![r] = [@ EXCEPT !.pc = "found", !.user = oauth[s]]]
             /\ UNCHANGED <<data, lock, served>>
          \/ /\ ~inserts /\ oauth[s] = None
             /\ End(r)
             /\ UNCHANGED data

-----------------------------------------------------------------------------
(* Linking and unlinking an identity.                                      *)

\* oauth_link: the flow cookie names the account that starts the flow.
OAuthLink(r) ==
    \E u \in Users, s \in Subjects :
        /\ Active(u)
        /\ AtProvider(u, ProviderOf[s]) = {}
        /\ Begin(r, [Request("link", "callback", None, s) EXCEPT !.starter = u])

\* oauth_callback in link mode: the account signed in by now must be the
\* starter.  Then link_oauth_account looks for the identity and for another
\* identity of the account at this provider.
OAuthLinkCallback(r) ==
    LET s == req[r].arg
    IN /\ At(r, "link", "callback")
       /\ \E u \in {v \in Users : Active(v)} :
              IF /\ u = req[r].starter
                 /\ oauth[s] \in {None, u}
                 /\ AtProvider(u, ProviderOf[s]) \subseteq {s}
              THEN /\ req' = [req EXCEPT ![r] =
                           [@ EXCEPT !.pc = "commit", !.user = u,
                                     !.seen = {x \in {"own"} : oauth[s] = u}
                                        \cup {x \in {"match"} : Confirms(s, users[u].email)}]]
                   /\ UNCHANGED <<lock, served>>
              ELSE End(r)
       /\ UNCHANGED data

\* Both unique constraints and the foreign key decide at the commit; an
\* identity row it read as its own must still be there to be updated.
OAuthLinkCommit(r) ==
    LET u == req[r].user
        s == req[r].arg
        links == /\ users[u] # None
                 /\ IF "own" \in req[r].seen THEN oauth[s] = u
                    ELSE oauth[s] = None /\ AtProvider(u, ProviderOf[s]) = {}
    IN /\ At(r, "link", "commit")
       /\ Free(u)
       /\ \/ /\ links
             /\ oauth' = [oauth EXCEPT ![s] = u]
             /\ users' = [users EXCEPT ![u].verified = @ \/ "match" \in req[r].seen]
          \/ /\ ~links
             /\ UNCHANGED <<oauth, users>>
       /\ End(r)
       /\ UNCHANGED <<keys, enrolling, mail, reset, used>>

\* unlink_oauth_account counts the other identities without a lock and
\* takes has_password from the row loaded for the request.
OAuthUnlink(r) ==
    \E u \in Users, p \in Providers :
        /\ Active(u)
        /\ \E s \in AtProvider(u, p) :
               /\ users[u].password \/ IdentitiesOf(u) \ AtProvider(u, p) # {}
               /\ Begin(r, Request("unlink", "commit", u, s))

OAuthUnlinkCommit(r) ==
    LET u == req[r].user
        s == req[r].arg
    IN /\ At(r, "unlink", "commit")
       /\ Free(u)
       /\ oauth' = [oauth EXCEPT ![s] = IF @ = u THEN None ELSE @]
       /\ End(r)
       /\ UNCHANGED <<users, keys, enrolling, mail, reset, used>>

-----------------------------------------------------------------------------
(* Passkeys as sign-in methods.                                            *)

\* registration_options stores a ceremony for the user.
PasskeyOptions ==
    \E u \in Users :
        /\ served < MaxRequests /\ served' = served + 1
        /\ Active(u) /\ Free(u)
        /\ enrolling' = enrolling \cup {u}
        /\ UNCHANGED <<users, oauth, keys, mail, reset, used, lock, req>>

\* verify_registration locks the ceremony, so a ceremony registers one
\* credential; a credential that exists already leaves the ceremony open.
PasskeyRegister ==
    \E u \in enrolling, k \in Keys :
        /\ served < MaxRequests /\ served' = served + 1
        /\ Active(u) /\ Free(u)
        /\ keys[k] = None
        /\ keys' = [keys EXCEPT ![k] = u]
        /\ enrolling' = enrolling \ {u}
        /\ UNCHANGED <<users, oauth, mail, reset, used, lock, req>>

\* remove_passkey locks its own credential and reads every other method.
PasskeyRemove(r) ==
    \E u \in Users, k \in Keys :
        /\ Active(u)
        /\ keys[k] = u
        /\ \/ users[u].password
           \/ KeysOf(u) # {k}
           \/ u \in SecondFactor
           \/ IdentitiesOf(u) # {}
        /\ Begin(r, Request("remove", "commit", u, k))

PasskeyRemoveCommit(r) ==
    LET u == req[r].user
        k == req[r].arg
    IN /\ At(r, "remove", "commit")
       /\ Free(u)
       /\ keys' = [keys EXCEPT ![k] = IF @ = u THEN None ELSE @]
       /\ End(r)
       /\ UNCHANGED <<users, oauth, enrolling, mail, reset, used>>

-----------------------------------------------------------------------------
(* Requests that lock rows.                                                *)

VerifyEmail(r) ==
    \E t \in MailIds : mail[t] # None /\ Begin(r, Request("verify", "lock", None, t))

ResetPassword(r) ==
    \E t \in ResetIds : reset[t] # None /\ Begin(r, Request("reset", "lock", None, t))

\* Mutant: the open tokens are read and replaced without the user's lock.
ForgotPasswordUnlocked(r) ==
    \E u \in Users :
        /\ Active(u)
        /\ Begin(r, [Request("forgot", "write", u, None) EXCEPT !.open = OpenResets(u)])

\* forgot_password answers alike whether or not it finds an active account.
ForgotPassword(r) ==
    \E u \in Users : Active(u) /\ Begin(r, Request("forgot", "lock", u, None))

\* The operations of a signed-in account, and the rotation of its refresh
\* token, which locks the session before it inserts the successor.
SignedIn(r, op) ==
    \E u \in Users :
        /\ Active(u)
        /\ op = "change" => users[u].password
        /\ Begin(r, Request(op, "lock", u, None))

Resend(r) == SignedIn(r, "resend")
ChangePassword(r) == SignedIn(r, "change")
Rotate(r) == SignedIn(r, "rotate")
Deactivate(r) == SignedIn(r, "deactivate")
DeleteAccount(r) == SignedIn(r, "delete")

\* The user whose account the request is about.
Owner(q) ==
    CASE q.op = "verify" -> mail[q.arg].owner
      [] q.op = "reset"  -> reset[q.arg].owner
      [] OTHER           -> q.user

\* The rows the request is about are still there.
Found(q) ==
    /\ q.op = "verify" => mail[q.arg] # None
    /\ q.op = "reset" => reset[q.arg] # None
    /\ users[Owner(q)] # None

\* Mutant: the active superusers are counted without being locked.
SuperusersUnlocked(u) == {}

\* The superusers _lock_user_and_protect_last_superuser locks, by id.
SuperuserRows(u) == IF u \in Superusers THEN {"user"} \X ActiveSuperusers ELSE {}

\* The statements of the request that lock rows, in order.
LockSteps(q) ==
    LET u == Owner(q)
        self == {<<"user", u>>}
        sessions == {<<"sessions", u>>}
        opened == {"reset"} \X OpenResets(u)
        resets == {"reset"} \X {t \in ResetIds : reset[t] # None /\ reset[t].owner = u}
        mails == {"mail"} \X {t \in MailIds : mail[t] # None /\ mail[t].owner = u}
    IN CASE q.op = "verify"     -> << {<<"mail", q.arg>>}, self >>
         [] q.op = "resend"     -> << self >>
         [] q.op = "forgot"     -> << self, opened >>
         [] q.op = "reset"      -> << {<<"reset", q.arg>>}, self, opened, sessions >>
         [] q.op = "change"     -> << self, sessions >>
         [] q.op = "rotate"     -> << sessions, self >>
         [] q.op = "deactivate" -> << self, SuperuserRows(u), sessions >>
         [] q.op = "delete"     -> << self, SuperuserRows(u), sessions, resets, mails >>

Holds(r) == \E l \in Locks : lock[l] = r

Locking(r) == req[r].pc = "lock" /\ Found(req[r])

\* The statements whose rows the request does not hold yet.
Unheld(r) ==
    LET steps == LockSteps(req[r]) IN {i \in DOMAIN steps : \E l \in steps[i] : lock[l] # r}

\* The row the request locks next: the lowest id its current statement does
\* not hold yet.
NextRow(r) ==
    LET current == CHOOSE i \in Unheld(r) : \A j \in Unheld(r) : i <= j
        rows == {l \in LockSteps(req[r])[current] : lock[l] # r}
    IN CHOOSE l \in rows : \A m \in rows : l[2] <= m[2]

Acquire(r) ==
    /\ Locking(r)
    /\ Unheld(r) # {}
    /\ LET row == NextRow(r)
       IN /\ lock[row] = None
          /\ lock' = [lock EXCEPT ![row] = r]
    /\ UNCHANGED <<data, req, served>>

\* What the operation requires of the rows it has locked.
Accepted(q) ==
    LET u == Owner(q)
        protected == u \in Superusers => Cardinality(ActiveSuperusers) > 1
    IN CASE q.op = "verify"     -> ~users[u].verified /\ ~mail[q.arg].used
         [] q.op = "resend"     -> ~users[u].verified /\ ~users[u].pending
         [] q.op = "reset"      -> reset[q.arg].state = "open"
         [] q.op = "deactivate" -> protected /\ users[u].active
         [] q.op = "delete"     -> protected
         [] OTHER               -> TRUE

\* All rows locked: the checks pass.  The UPDATE of the open reset tokens
\* sees the tokens of this moment.
Decide(r) ==
    /\ Locking(r)
    /\ Unheld(r) = {}
    /\ Accepted(req[r])
    /\ req' = [req EXCEPT ![r] = [@ EXCEPT !.pc = "write", !.open = OpenResets(Owner(req[r]))]]
    /\ UNCHANGED <<data, lock, served>>

\* Mutant: an early return leaves the session, and its locks, open.
GiveUpLeaking(r) ==
    /\ req[r].pc = "lock"
    /\ ~Found(req[r]) \/ (Holds(r) /\ ~Accepted(req[r]))
    /\ req' = [req EXCEPT ![r] = Idle]
    /\ UNCHANGED <<data, lock, served>>

\* A row is gone, or a check on the locked rows fails: the request ends.
GiveUp(r) ==
    /\ req[r].pc = "lock"
    /\ ~Found(req[r]) \/ (Holds(r) /\ ~Accepted(req[r]))
    /\ End(r)
    /\ UNCHANGED data

Closed(tokens) ==
    [t \in ResetIds |-> IF t \in tokens THEN [reset[t] EXCEPT !.state = "invalidated"] ELSE reset[t]]

WriteVerified(r) ==
    LET t == req[r].arg
    IN /\ At(r, "verify", "write")
       /\ users' = [users EXCEPT ![mail[t].owner].verified = TRUE]
       /\ mail' = [mail EXCEPT ![t].used = TRUE]
       /\ UNCHANGED <<oauth, keys, enrolling, reset, used>>

\* resend_verification inserts its token under the lock on the user.
WriteResent(r) ==
    LET u == req[r].user
    IN /\ At(r, "resend", "write")
       /\ \/ NewMail(u, users[u].email)
          \/ (\A t \in MailIds : mail[t] # None) /\ UNCHANGED mail
       /\ UNCHANGED <<users, oauth, keys, enrolling, reset, used>>

\* Invalidate the open tokens and insert a new one.
WriteForgot(r) ==
    /\ At(r, "forgot", "write")
    /\ \/ \E t \in ResetIds :
              /\ reset[t] = None
              /\ reset' = [Closed(req[r].open) EXCEPT
                               ![t] = [owner |-> req[r].user, state |-> "open"]]
       \/ (\A t \in ResetIds : reset[t] # None) /\ UNCHANGED reset
    /\ UNCHANGED <<users, oauth, keys, enrolling, mail, used>>

\* Set the password, spend the token and invalidate the others.
WriteReset(r) ==
    LET t == req[r].arg
    IN /\ At(r, "reset", "write")
       /\ users' = [users EXCEPT ![reset[t].owner].password = TRUE]
       /\ reset' = [Closed(req[r].open \ {t}) EXCEPT ![t].state = "used"]
       /\ UNCHANGED <<oauth, keys, enrolling, mail, used>>

\* change_password replaces a password, a rotation a session.
WriteSessions(r) ==
    /\ req[r].op \in {"change", "rotate"} /\ req[r].pc = "write"
    /\ UNCHANGED data

WriteDeactivated(r) ==
    /\ At(r, "deactivate", "write")
    /\ users' = [users EXCEPT ![req[r].user].active = FALSE]
    /\ UNCHANGED <<oauth, keys, enrolling, mail, reset, used>>

\* The row goes, and with it everything that refers to it.
WriteDeleted(r) ==
    LET u == req[r].user
    IN /\ At(r, "delete", "write")
       /\ users' = [users EXCEPT ![u] = None]
       /\ oauth' = [s \in Subjects |-> IF oauth[s] = u THEN None ELSE oauth[s]]
       /\ keys' = [k \in Keys |-> IF keys[k] = u THEN None ELSE keys[k]]
       /\ enrolling' = enrolling \ {u}
       /\ mail' = [t \in MailIds |->
                      IF mail[t] # None /\ mail[t].owner = u THEN None ELSE mail[t]]
       /\ reset' = [t \in ResetIds |->
                       IF reset[t] # None /\ reset[t].owner = u THEN None ELSE reset[t]]
       /\ UNCHANGED used

\* The commit of a request that holds its rows.
Write(r) ==
    /\ \/ WriteVerified(r) \/ WriteResent(r) \/ WriteForgot(r) \/ WriteReset(r)
       \/ WriteSessions(r) \/ WriteDeactivated(r) \/ WriteDeleted(r)
    /\ End(r)

-----------------------------------------------------------------------------
(* PostgreSQL and the network.                                             *)

\* The request that holds the row r waits for.
Blocker(r) ==
    IF Locking(r) /\ Unheld(r) # {} THEN lock[NextRow(r)] ELSE None

\* The deadlock detector aborts a transaction of a cycle of waits.
Deadlock(r) ==
    /\ Locking(r)
    /\ \E cycle \in SUBSET Requests : r \in cycle /\ {Blocker(x) : x \in cycle} = cycle
    /\ End(r)
    /\ UNCHANGED data

\* An expired token, a wrong password, a stale authentication, the
\* statement timeout or a lost connection: the transaction is rolled back.
Fail(r) ==
    /\ req[r] # Idle
    /\ End(r)
    /\ UNCHANGED data

\* Progress the server makes by itself; the OAuth callback is the user's.
Serve(r) ==
    \/ req[r].pc \in {"commit", "token", "found", "create"} /\
           \/ SignupCommit(r) \/ CompleteEmailCommit(r) \/ SendToken(r)
           \/ OAuthLoginFound(r) \/ OAuthLoginCreate(r)
           \/ OAuthLinkCommit(r) \/ OAuthUnlinkCommit(r) \/ PasskeyRemoveCommit(r)
    \/ req[r].pc = "lock" /\ (Acquire(r) \/ Decide(r) \/ GiveUp(r) \/ Deadlock(r))
    \/ req[r].pc = "write" /\ Write(r)

Arrive(r) ==
    \/ Signup(r) \/ CompleteEmail(r) \/ OAuthLogin(r) \/ OAuthLink(r)
    \/ OAuthUnlink(r) \/ PasskeyRemove(r) \/ VerifyEmail(r) \/ ResetPassword(r)
    \/ ForgotPassword(r) \/ Resend(r) \/ ChangePassword(r) \/ Rotate(r)
    \/ Deactivate(r) \/ DeleteAccount(r)

Next ==
    \/ PasskeyOptions
    \/ PasskeyRegister
    \/ \E r \in Requests : Arrive(r) \/ OAuthLinkCallback(r) \/ Serve(r) \/ Fail(r)

Fairness == \A r \in Requests : WF_vars(Serve(r))

Spec == Init /\ [][Next]_vars /\ Fairness

-----------------------------------------------------------------------------
(* Properties.                                                             *)

\* The service never loses its last active superuser, also when several
\* superusers deactivate or delete their accounts at the same time.
SuperuserRemains == ActiveSuperusers # {}

\* However requests and resets of one account overlap, at most one reset
\* link of the account works.
OneOpenReset == \A u \in Users : Cardinality(OpenResets(u)) <= 1

\* The state verify_email logs as inconsistent, a spent confirmation of an
\* unconfirmed account, does not arise, also when two requests complete the
\* address of a pending account at the same time.
SpentIsVerified ==
    \A t \in MailIds : mail[t] # None /\ mail[t].used => users[mail[t].owner].verified

\* Equal addresses never merge accounts: an identity goes to an account made
\* for it, or to the account that started the linking flow.
NeverMerged ==
    [][\A s \in Subjects :
           oauth[s] = None /\ oauth'[s] # None =>
               \/ users[oauth'[s]] = None
               \/ \E r \in Requests : At(r, "link", "commit") /\ req[r].starter = oauth'[s]]_vars

\* No request the server has accepted waits forever for rows: the locks of
\* resets, confirmations, rotations and superusers are taken in different
\* orders, and a cycle of waits costs one request, not all of them.  With
\* MaxRequests requests in a behaviour, all of them end if it quiesces.
EveryRequestEnds ==
    <>[](\A r \in Requests : req[r].pc \in {"idle", "callback"})

\* An account keeps a way to sign in: a password, an identity or a passkey.
SignInRemains ==
    \A u \in Users :
        users[u] # None => users[u].password \/ IdentitiesOf(u) # {} \/ KeysOf(u) # {}

=============================================================================
