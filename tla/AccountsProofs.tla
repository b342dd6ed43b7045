--------------------------- MODULE AccountsProofs ---------------------------
(***************************************************************************)
(* Machine-checked facts about Accounts, for any number of requests,       *)
(* accounts, addresses, identities, passkeys and tokens.                   *)
(***************************************************************************)
EXTENDS Accounts, FiniteSetTheorems, TLAPS

\* The operations that lock rows.
LockingOps == {"verify", "resend", "forgot", "reset", "change", "rotate", "deactivate", "delete"}

\* What a request carries.  A request for a new address read the account as
\* unconfirmed; one that sends a token, or found its account to match a
\* provider's address, knows that the account is no longer pending.
Fits(q) ==
    /\ q.op \in {"signup", "complete"} => q.arg \in Emails
    /\ q.op \in {"login", "link", "unlink"} => q.arg \in Subjects
    /\ q.op = "remove" => q.arg \in Keys
    /\ q.op = "verify" => q.arg \in MailIds
    /\ q.op = "reset" => q.arg \in ResetIds
    /\ q.op \in (LockingOps \ {"verify", "reset"}) \cup {"unlink", "remove"} => q.user \in Users
    /\ q.pc \in {"lock", "write"} <=> q.op \in LockingOps
    /\ q.pc = "found" => q.op = "login" /\ q.user \in Users
    /\ q.pc = "token" => q.op \in {"signup", "complete"} /\ q.user \in used
    /\ q.op = "complete" => q.user \in used /\ q.seen = {}
    /\ q.op = "link" /\ q.pc = "commit" => q.user \in used /\ q.starter = q.user
    /\ /\ q.pc = "token" \/ (q.op = "link" /\ q.pc = "commit" /\ "match" \in q.seen)
       /\ users[q.user] # None
       => ~users[q.user].pending

\* An id that has a row is used: no row is made for it again.
RowsUsed == \A u \in Users : users[u] # None => u \in used

\* A pending account has a placeholder address, which nobody confirms.
PendingPlain ==
    \A u \in Users : users[u] # None /\ users[u].pending => users[u].email \in Subjects /\ ~users[u].verified

\* A confirmation belongs to an account that is no longer pending.
MailSound ==
    \A t \in MailIds : mail[t] # None =>
      users[mail[t].owner] # None /\ ~users[mail[t].owner].pending

\* What a request that is about to write has locked.
WriteAt(r) ==
    LET q == req[r]
        u == Owner(q)
    IN q.pc = "write" =>
         /\ Found(q)
         /\ lock[<<"user", u>>] = r
         /\ q.op = "resend" => ~users[u].pending
         /\ q.op \in {"forgot", "reset"} => \A t \in q.open : reset[t] # None /\ reset[t].owner = u
         /\ q.op = "forgot" => OpenResets(u) \subseteq q.open
         /\ q.op \in {"deactivate", "delete"} /\ u \in Superusers =>
              \E v \in ActiveSuperusers : v # u /\ lock[<<"user", v>>] = r

\* The rows of the database, without their types.
Sound ==
    /\ RowsUsed
    /\ PendingPlain
    /\ MailSound
    /\ SuperuserRemains
    /\ OneOpenReset
    /\ SpentIsVerified

\* The inductive invariant.
Inv ==
    /\ TypeOK
    /\ Sound
    /\ \A r \in Requests : Fits(req[r]) /\ WriteAt(r)

-----------------------------------------------------------------------------
DataType ==
    /\ users \in [Users -> Row \cup {None}]
    /\ oauth \in [Subjects -> Users \cup {None}]
    /\ keys \in [Keys -> Users \cup {None}]
    /\ enrolling \subseteq Users
    /\ mail \in [MailIds -> Mail \cup {None}]
    /\ reset \in [ResetIds -> Reset \cup {None}]
    /\ used \subseteq Users
RequestType ==
    /\ lock \in [Locks -> Requests \cup {None}]
    /\ req \in [Requests -> Query]
    /\ served \in 0..MaxRequests

LEMMA TypeParts == TypeOK <=> DataType /\ RequestType
  BY DEF TypeOK, DataType, RequestType

\* A step leaves used ids used, and never makes an account pending again.
Ages ==
    /\ used \subseteq used'
    /\ \A u \in used : users'[u] # None => users[u] # None /\ (users'[u].pending => users[u].pending)

\* A step leaves alone what another request q has locked.
Spares(q) ==
    \A u \in Users : lock[<<"user", u>>] = q /\ users[u] # None =>
      /\ users'[u] # None
      /\ users[u].active => users'[u].active
      /\ \A t \in MailIds : mail[t] # None /\ mail[t].owner = u => mail'[t] # None /\ mail'[t].owner = u
      /\ \A t \in ResetIds : reset[t] # None /\ reset[t].owner = u => reset'[t] # None /\ reset'[t].owner = u
      /\ \A t \in ResetIds :
           reset'[t] # None /\ reset'[t].owner = u /\ reset'[t].state = "open" => reset'[t] = reset[t]

KeepsLocks(q) == \A l \in Locks : lock[l] = q => lock'[l] = q

LEMMA Facts ==
    /\ \A u \in Users : <<"user", u>> \in Locks
    /\ None \notin Users /\ None \notin Requests /\ None \notin Row /\ None \notin Mail /\ None \notin Reset
    /\ None \notin Emails /\ None \notin Subjects
    /\ Emails \cap Subjects = {} /\ Superusers \subseteq Users
    /\ EmailOf \in [Subjects -> Emails \cup {None}]
  BY AccountsAssumption DEF Locks

LEMMA FitsStays ==
    ASSUME NEW q, DataType, Fits(q), Ages
    PROVE  Fits(q)'
<1>1. used \subseteq used'
  BY DEF Ages
<1>2. /\ q.pc = "token" \/ (q.op = "link" /\ q.pc = "commit" /\ "match" \in q.seen)
      /\ users'[q.user] # None
      => ~users'[q.user].pending
  BY DEF Fits, Ages
<1> QED
  BY <1>1, <1>2 DEF Fits

LEMMA OthersKept ==
    ASSUME Inv, NEW q \in Requests, req'[q] = req[q], Ages, Spares(q), KeepsLocks(q)
    PROVE  Fits(req[q])' /\ WriteAt(q)'
<1>0. DataType /\ RequestType /\ Fits(req[q]) /\ WriteAt(q)
  BY TypeParts DEF Inv
<1>1. Fits(req[q])'
  <2>1. PICK x : x = req[q]
    OBVIOUS
  <2>2. Fits(x)'
    BY <1>0, <2>1, FitsStays
  <2> QED
    BY <2>1, <2>2 DEF Fits
<1>2. WriteAt(q)'
  <2> SUFFICES ASSUME req[q].pc = "write" PROVE WriteAt(q)'
    BY DEF WriteAt
  <2>1. PICK x : x = req[q]
    OBVIOUS
  <2>2. PICK u : u = Owner(x)
    OBVIOUS
  <2>3. /\ Found(x) /\ lock[<<"user", u>>] = q
        /\ x.op = "resend" => ~users[u].pending
        /\ x.op \in {"forgot", "reset"} => \A t \in x.open : reset[t] # None /\ reset[t].owner = u
        /\ x.op = "forgot" => OpenResets(u) \subseteq x.open
        /\ x.op \in {"deactivate", "delete"} /\ u \in Superusers =>
              \E v \in ActiveSuperusers : v # u /\ lock[<<"user", v>>] = q
    BY <1>0, <2>1, <2>2 DEF WriteAt
  <2>4. u \in Users /\ users[u] # None /\ x \in Query /\ x.op \in LockingOps
    <3>1. x \in Query /\ x.op \in LockingOps /\ Fits(x)
      BY <1>0, <2>1 DEF RequestType, Fits
    <3>2. x.op = "verify" => mail[x.arg] \in Mail /\ u = mail[x.arg].owner
      BY <1>0, <2>2, <2>3, <3>1 DEF Found, Fits, DataType, Owner
    <3>3. x.op = "reset" => reset[x.arg] \in Reset /\ u = reset[x.arg].owner
      BY <1>0, <2>2, <2>3, <3>1 DEF Found, Fits, DataType, Owner
    <3>4. x.op \notin {"verify", "reset"} => u = x.user
      BY <2>2 DEF Owner
    <3> QED
      BY <2>2, <2>3, <3>1, <3>2, <3>3, <3>4 DEF Found, Fits, Mail, Reset
  <2>5. /\ users'[u] # None /\ lock'[<<"user", u>>] = q
        /\ \A t \in MailIds : mail[t] # None /\ mail[t].owner = u => mail'[t] # None /\ mail'[t].owner = u
        /\ \A t \in ResetIds : reset[t] # None /\ reset[t].owner = u => reset'[t] # None /\ reset'[t].owner = u
        /\ \A t \in ResetIds :
             reset'[t] # None /\ reset'[t].owner = u /\ reset'[t].state = "open" => reset'[t] = reset[t]
    BY <2>3, <2>4, Facts DEF Spares, KeepsLocks
  <2>6. Owner(x)' = u /\ Found(x)'
    <3>1. Fits(x)
      BY <1>0, <2>1
    <3> QED
      BY <2>2, <2>3, <2>5, <3>1 DEF Owner, Found, Fits
  <2>7. x.op = "resend" => ~users'[u].pending
    <3>1. u \in used
      BY <2>4 DEF Inv, Sound, RowsUsed
    <3> QED
      BY <2>3, <2>5, <3>1 DEF Ages
  <2>8. x.op \in {"forgot", "reset"} => \A t \in x.open : reset'[t] # None /\ reset'[t].owner = u
    BY <2>3, <2>4, <2>5 DEF Query
  <2>9. x.op = "forgot" => OpenResets(u)' \subseteq x.open
    BY <2>3, <2>5 DEF OpenResets
  <2>10. ASSUME x.op \in {"deactivate", "delete"}, u \in Superusers
         PROVE  \E v \in ActiveSuperusers' : v # u /\ lock'[<<"user", v>>] = q
    <3>1. PICK v \in ActiveSuperusers : v # u /\ lock[<<"user", v>>] = q
      BY <2>3, <2>10
    <3>2. v \in Users /\ v \in Superusers /\ users[v] # None /\ users[v].active
      BY <3>1, Facts DEF ActiveSuperusers, Active
    <3>3. users'[v] # None /\ users'[v].active /\ lock'[<<"user", v>>] = q
      BY <3>1, <3>2, Facts DEF Spares, KeepsLocks
    <3> QED
      BY <3>1, <3>2, <3>3 DEF ActiveSuperusers, Active
  <2>11. req'[q] = x
    BY <2>1
  <2> QED
    BY <2>5, <2>6, <2>7, <2>8, <2>9, <2>10, <2>11 DEF WriteAt
<1> QED
  BY <1>1, <1>2

\* The request's transaction ends: its locks are gone.
LEMMA Ended ==
    ASSUME Inv, NEW r \in Requests, End(r)
    PROVE  /\ RequestType' /\ req'[r] = Idle
           /\ \A q \in Requests \ {r} : req'[q] = req[q] /\ KeepsLocks(q)
<1>0. RequestType
  BY TypeParts DEF Inv
<1>1. Idle \in Query
  BY DEF Idle, Request, Query
<1>2. req' \in [Requests -> Query] /\ req'[r] = Idle /\ \A q \in Requests \ {r} : req'[q] = req[q]
  BY <1>0, <1>1 DEF End, RequestType
<1>3. lock' \in [Locks -> Requests \cup {None}]
  BY <1>0 DEF End, Unlocked, RequestType
<1>4. \A q \in Requests \ {r} : KeepsLocks(q)
  BY DEF End, Unlocked, KeepsLocks
<1> QED
  BY <1>0, <1>2, <1>3, <1>4 DEF RequestType, End

LEMMA AfterEnd ==
    ASSUME Inv, NEW r \in Requests, End(r), DataType', Sound', Ages, \A q \in Requests \ {r} : Spares(q)
    PROVE  Inv'
<1>1. /\ RequestType' /\ req'[r] = Idle
      /\ \A q \in Requests \ {r} : req'[q] = req[q] /\ KeepsLocks(q)
  BY Ended
<1>2. \A q \in Requests \ {r} : Fits(req[q])' /\ WriteAt(q)'
  BY <1>1, OthersKept
<1>3. Fits(req[r])' /\ WriteAt(r)'
  BY <1>1 DEF Fits, WriteAt, Idle, Request, LockingOps
<1>4. TypeOK'
  BY <1>1 DEF TypeOK, DataType, RequestType
<1> QED
  BY <1>2, <1>3, <1>4 DEF Inv

\* The same for a request that goes on.
LEMMA AfterStep ==
    ASSUME Inv, NEW r \in Requests, \A q \in Requests \ {r} : req'[q] = req[q] /\ KeepsLocks(q) /\ Spares(q),
           Fits(req[r])', WriteAt(r)', RequestType', DataType', Sound', Ages
    PROVE  Inv'
<1>1. \A q \in Requests \ {r} : Fits(req[q])' /\ WriteAt(q)'
  BY OthersKept
<1>2. TypeOK'
  BY DEF TypeOK, DataType, RequestType
<1> QED
  BY <1>1, <1>2 DEF Inv

LEMMA DataStays ==
    ASSUME Inv, UNCHANGED data
    PROVE  /\ DataType' /\ Sound' /\ Ages
           /\ \A q \in Requests : Spares(q)
<1>0. DataType /\ Sound
  BY TypeParts DEF Inv
<1>1. DataType' /\ Ages /\ \A q \in Requests : Spares(q)
  BY <1>0 DEF data, DataType, Ages, Spares
<1>2. Sound'
  BY <1>0 DEF data, Sound, RowsUsed, PendingPlain, MailSound, SuperuserRemains, ActiveSuperusers, Active,
     OneOpenReset, OpenResets, SpentIsVerified
<1> QED
  BY <1>1, <1>2

\* The request ends and nothing is written.
LEMMA QuietEnd ==
    ASSUME Inv, NEW r \in Requests, End(r), UNCHANGED data
    PROVE  Inv'
  BY DataStays, AfterEnd

\* A request arrives.
LEMMA AfterBegin ==
    ASSUME Inv, NEW r \in Requests, NEW q \in Query, Begin(r, q), Fits(q), q.pc # "write"
    PROVE  Inv'
<1>0. RequestType /\ MaxRequests \in Nat
  BY TypeParts, AccountsAssumption DEF Inv
<1>1. /\ DataType' /\ Sound' /\ Ages
      /\ \A x \in Requests : Spares(x)
  BY DataStays DEF Begin
<1>2. req'[r] = q /\ req' \in [Requests -> Query] /\ \A x \in Requests \ {r} : req'[x] = req[x]
  BY <1>0 DEF Begin, RequestType
<1>3. RequestType'
  BY <1>0, <1>2 DEF Begin, RequestType
<1>4. \A x \in Requests : KeepsLocks(x)
  BY DEF Begin, KeepsLocks
<1>5. Fits(req[r])' /\ WriteAt(r)'
  <2>1. Fits(q)'
    BY <1>1, FitsStays, TypeParts DEF Inv
  <2> QED
    BY <1>2, <2>1 DEF Fits, WriteAt
<1> QED
  BY <1>1, <1>2, <1>3, <1>4, <1>5, AfterStep

-----------------------------------------------------------------------------
Arguments == Addresses \cup Keys \cup MailIds \cup ResetIds \cup {None}

LEMMA Requested ==
    ASSUME NEW op \in Operations, NEW pc \in Labels, NEW u \in Users \cup {None}, NEW arg \in Arguments
    PROVE  Request(op, pc, u, arg) \in Query
<1>1. {} \in SUBSET {"verified", "own", "match"} /\ {} \in SUBSET ResetIds
  OBVIOUS
<1> QED
  BY <1>1 DEF Request, Query, Arguments

LEMMA ArriveKept ==
    ASSUME Inv, NEW r \in Requests, Arrive(r)
    PROVE  Inv'
<1>0. DataType /\ Sound
  BY TypeParts DEF Inv
<1>1. /\ Emails \subseteq Arguments /\ Subjects \subseteq Arguments /\ Keys \subseteq Arguments
      /\ MailIds \subseteq Arguments /\ ResetIds \subseteq Arguments /\ None \in Arguments
  BY DEF Addresses, Arguments
<1>2. CASE Signup(r)
  <2>1. PICK e \in Emails : Begin(r, Request("signup", "commit", None, e))
    BY <1>2 DEF Signup
  <2> DEFINE q == Request("signup", "commit", None, e)
  <2>2. q \in Query /\ q.op = "signup" /\ q.pc = "commit" /\ q.arg = e
    BY <1>1, Requested DEF Request, Operations, Labels
  <2>3. Fits(q)
    BY <2>2 DEF Fits, LockingOps
  <2> QED
    BY <2>1, <2>2, <2>3, AfterBegin
<1>3. CASE CompleteEmail(r)
  <2>1. PICK u \in Users, e \in Emails :
          /\ Active(u) /\ users[u].pending
          /\ Begin(r, [Request("complete", "commit", u, e) EXCEPT
                         !.seen = IF users[u].verified THEN {"verified"} ELSE {}])
    BY <1>3 DEF CompleteEmail
  <2> DEFINE q == Request("complete", "commit", u, e)
  <2>2. q \in Query /\ q.op = "complete" /\ q.pc = "commit" /\ q.arg = e /\ q.user = u /\ q.seen = {}
    BY <1>1, Requested DEF Request, Operations, Labels
  <2>3. u \in used /\ ~users[u].verified
    BY <1>0, <2>1 DEF Sound, RowsUsed, PendingPlain, Active
  <2>4. [q EXCEPT !.seen = {}] = q
    BY <2>2 DEF Query
  <2>5. Begin(r, q)
    BY <2>1, <2>3, <2>4
  <2>6. Fits(q)
    BY <2>2, <2>3 DEF Fits, LockingOps
  <2> QED
    BY <2>2, <2>5, <2>6, AfterBegin
<1>4. CASE OAuthLogin(r)
  <2>1. PICK s \in Subjects : \/ oauth[s] # None /\ Begin(r, Request("login", "found", oauth[s], s))
                              \/ Begin(r, Request("login", "create", None, s))
    BY <1>4 DEF OAuthLogin
  <2>2. CASE oauth[s] # None /\ Begin(r, Request("login", "found", oauth[s], s))
    <3> DEFINE q == Request("login", "found", oauth[s], s)
    <3>1. oauth[s] \in Users
      BY <1>0, <2>2 DEF DataType
    <3>2. q \in Query /\ q.op = "login" /\ q.pc = "found" /\ q.arg = s /\ q.user \in Users
      BY <1>1, <3>1, Requested DEF Request, Operations, Labels
    <3>3. Fits(q)
      BY <3>2 DEF Fits, LockingOps
    <3> QED
      BY <2>2, <3>2, <3>3, AfterBegin
  <2>3. CASE Begin(r, Request("login", "create", None, s))
    <3> DEFINE q == Request("login", "create", None, s)
    <3>1. q \in Query /\ q.op = "login" /\ q.pc = "create" /\ q.arg = s
      BY <1>1, Requested DEF Request, Operations, Labels
    <3>2. Fits(q)
      BY <3>1 DEF Fits, LockingOps
    <3> QED
      BY <2>3, <3>1, <3>2, AfterBegin
  <2> QED
    BY <2>1, <2>2, <2>3
<1>5. CASE OAuthLink(r)
  <2>1. PICK u \in Users, s \in Subjects : Begin(r, [Request("link", "callback", None, s) EXCEPT !.starter = u])
    BY <1>5 DEF OAuthLink
  <2> DEFINE q == [Request("link", "callback", None, s) EXCEPT !.starter = u]
  <2>2. q \in Query /\ q.op = "link" /\ q.pc = "callback" /\ q.arg = s
    <3>1. Request("link", "callback", None, s) = [op |-> "link", pc |-> "callback", user |-> None, arg |-> s,
            starter |-> None, seen |-> {}, open |-> {}] /\ Request("link", "callback", None, s) \in Query
      BY <1>1, Requested DEF Request, Operations, Labels
    <3> QED
      BY <3>1 DEF Query
  <2>3. Fits(q)
    BY <2>2 DEF Fits, LockingOps
  <2> QED
    BY <2>1, <2>2, <2>3, AfterBegin
<1>6. CASE OAuthUnlink(r)
  <2>1. PICK u \in Users, s \in Subjects : Begin(r, Request("unlink", "commit", u, s))
    BY <1>6 DEF OAuthUnlink, AtProvider, IdentitiesOf
  <2> DEFINE q == Request("unlink", "commit", u, s)
  <2>2. q \in Query /\ q.op = "unlink" /\ q.pc = "commit" /\ q.arg = s /\ q.user = u
    BY <1>1, Requested DEF Request, Operations, Labels
  <2>3. Fits(q)
    BY <2>2 DEF Fits, LockingOps
  <2> QED
    BY <2>1, <2>2, <2>3, AfterBegin
<1>7. CASE PasskeyRemove(r)
  <2>1. PICK u \in Users, k \in Keys : Begin(r, Request("remove", "commit", u, k))
    BY <1>7 DEF PasskeyRemove
  <2> DEFINE q == Request("remove", "commit", u, k)
  <2>2. q \in Query /\ q.op = "remove" /\ q.pc = "commit" /\ q.arg = k /\ q.user = u
    BY <1>1, Requested DEF Request, Operations, Labels
  <2>3. Fits(q)
    BY <2>2 DEF Fits, LockingOps
  <2> QED
    BY <2>1, <2>2, <2>3, AfterBegin
<1>8. CASE VerifyEmail(r)
  <2>1. PICK t \in MailIds : Begin(r, Request("verify", "lock", None, t))
    BY <1>8 DEF VerifyEmail
  <2> DEFINE q == Request("verify", "lock", None, t)
  <2>2. q \in Query /\ q.op = "verify" /\ q.pc = "lock" /\ q.arg = t
    BY <1>1, Requested DEF Request, Operations, Labels
  <2>3. Fits(q)
    BY <2>2 DEF Fits, LockingOps
  <2> QED
    BY <2>1, <2>2, <2>3, AfterBegin
<1>9. CASE ResetPassword(r)
  <2>1. PICK t \in ResetIds : Begin(r, Request("reset", "lock", None, t))
    BY <1>9 DEF ResetPassword
  <2> DEFINE q == Request("reset", "lock", None, t)
  <2>2. q \in Query /\ q.op = "reset" /\ q.pc = "lock" /\ q.arg = t
    BY <1>1, Requested DEF Request, Operations, Labels
  <2>3. Fits(q)
    BY <2>2 DEF Fits, LockingOps
  <2> QED
    BY <2>1, <2>2, <2>3, AfterBegin
<1>10. CASE ForgotPassword(r) \/ Resend(r) \/ ChangePassword(r) \/ Rotate(r) \/ Deactivate(r) \/ DeleteAccount(r)
  <2>1. PICK u \in Users, op \in {"forgot", "resend", "change", "rotate", "deactivate", "delete"} :
          Begin(r, Request(op, "lock", u, None))
    BY <1>10 DEF ForgotPassword, Resend, ChangePassword, Rotate, Deactivate, DeleteAccount, SignedIn
  <2> DEFINE q == Request(op, "lock", u, None)
  <2>2. op \in Operations /\ op \in LockingOps \ {"verify", "reset"}
    BY DEF Operations, LockingOps
  <2>3. q \in Query /\ q.op = op /\ q.pc = "lock" /\ q.user = u
    BY <1>1, <2>2, Requested DEF Request, Labels
  <2> HIDE DEF q
  <2>4. Fits(q)
    BY <2>2, <2>3 DEF Fits, LockingOps
  <2> QED
    BY <2>1, <2>3, <2>4, AfterBegin DEF q
<1> QED
  BY <1>2, <1>3, <1>4, <1>5, <1>6, <1>7, <1>8, <1>9, <1>10 DEF Arrive

-----------------------------------------------------------------------------
(* Rows of users. *)

\* A fresh id gets a row.
LEMMA RowMade ==
    ASSUME Inv, NEW u \in Users \ used, NEW x \in Row, users' = [users EXCEPT ![u] = x],
           used' = used \cup {u}, UNCHANGED <<mail, reset>>,
           x.pending => x.email \in Subjects /\ ~x.verified
    PROVE  /\ Sound' /\ Ages /\ \A q \in Requests : Spares(q)
           /\ users' \in [Users -> Row \cup {None}] /\ used' \subseteq Users
<1>0. DataType /\ Sound
  BY TypeParts DEF Inv
<1>1. /\ users' \in [Users -> Row \cup {None}] /\ users'[u] = x /\ x # None /\ users[u] = None
      /\ \A v \in Users \ {u} : users'[v] = users[v]
  BY <1>0, Facts DEF DataType, Sound, RowsUsed
<1>2. \A t \in MailIds : mail[t] # None => mail[t].owner \in Users /\ mail[t].owner # u
  BY <1>0, <1>1 DEF DataType, Mail, Sound, MailSound
<1>3. RowsUsed' /\ PendingPlain'
  BY <1>0, <1>1 DEF Sound, RowsUsed, PendingPlain
<1>4. MailSound' /\ SpentIsVerified'
  BY <1>0, <1>1, <1>2 DEF Sound, MailSound, SpentIsVerified
<1>5. SuperuserRemains'
  <2>1. \A v \in ActiveSuperusers : v \in Users \ {u} /\ v \in ActiveSuperusers'
    BY <1>1, Facts DEF ActiveSuperusers, Active
  <2> QED
    BY <1>0, <2>1 DEF Sound, SuperuserRemains
<1>6. OneOpenReset'
  BY <1>0 DEF Sound, OneOpenReset, OpenResets
<1>7. Ages /\ \A q \in Requests : Spares(q)
  <2>1. Ages
    BY <1>0, <1>1 DEF Ages, DataType
  <2>2. \A q \in Requests : Spares(q)
    BY <1>1 DEF Spares
  <2> QED
    BY <2>1, <2>2
<1> QED
  BY <1>0, <1>1, <1>3, <1>4, <1>5, <1>6, <1>7 DEF Sound, DataType

\* The row x of an account is replaced by y.
Improves(x, y) ==
    /\ x \in Row /\ y \in Row /\ y.active = x.active
    /\ x.verified => y.verified
    /\ y.pending => x.pending /\ y.email = x.email /\ y.verified = x.verified

LEMMA RowImproved ==
    ASSUME Inv, NEW u \in Users, users' \in [Users -> Row \cup {None}], Improves(users[u], users'[u]),
           \A v \in Users \ {u} : users'[v] = users[v], UNCHANGED used
    PROVE  /\ RowsUsed' /\ PendingPlain' /\ SuperuserRemains' /\ Ages
           /\ \A v \in Users : users[v] # None =>
                /\ users'[v] # None /\ users'[v].active = users[v].active
                /\ users[v].verified => users'[v].verified
                /\ users'[v].pending => users[v].pending
<1>0. DataType /\ Sound
  BY TypeParts DEF Inv
<1>1. /\ users[u] # None /\ users'[u] # None /\ users'[u].active = users[u].active
      /\ users[u].verified => users'[u].verified
      /\ users'[u].pending => users[u].pending /\ users'[u].email = users[u].email
                                /\ users'[u].verified = users[u].verified
  BY Facts DEF Improves
<1>2. RowsUsed' /\ PendingPlain'
  BY <1>0, <1>1 DEF Sound, RowsUsed, PendingPlain
<1>3. SuperuserRemains'
  <2>1. \A v \in ActiveSuperusers : v \in Users /\ v \in ActiveSuperusers'
    BY <1>1, Facts DEF ActiveSuperusers, Active
  <2> QED
    BY <1>0, <2>1 DEF Sound, SuperuserRemains
<1>4. Ages
  BY <1>0, <1>1 DEF Ages, DataType
<1> QED
  BY <1>1, <1>2, <1>3, <1>4

\* The row of an account is improved, and nothing else.
LEMMA RowImprovedOnly ==
    ASSUME Inv, NEW u \in Users, users' \in [Users -> Row \cup {None}], Improves(users[u], users'[u]),
           \A v \in Users \ {u} : users'[v] = users[v], UNCHANGED <<used, mail, reset>>
    PROVE  Sound' /\ Ages /\ \A q \in Requests : Spares(q)
<1>0. DataType /\ Sound
  BY TypeParts DEF Inv
<1>1. /\ RowsUsed' /\ PendingPlain' /\ SuperuserRemains' /\ Ages
      /\ \A v \in Users : users[v] # None =>
           /\ users'[v] # None /\ users'[v].active = users[v].active
           /\ users[v].verified => users'[v].verified
           /\ users'[v].pending => users[v].pending
  BY RowImproved
<1>2. \A t \in MailIds : mail[t] # None => mail[t].owner \in Users
  BY <1>0 DEF DataType, Mail
<1>3. MailSound' /\ SpentIsVerified'
  BY <1>0, <1>1, <1>2 DEF Sound, MailSound, SpentIsVerified
<1>4. OneOpenReset'
  BY <1>0 DEF Sound, OneOpenReset, OpenResets
<1>5. \A q \in Requests : Spares(q)
  BY <1>1 DEF Spares
<1> QED
  BY <1>1, <1>3, <1>4, <1>5 DEF Sound

-----------------------------------------------------------------------------
(* Requests that read in one statement and commit in another. *)

LEMMA Member ==
    ASSUME Inv, NEW r \in Requests
    PROVE  /\ DataType /\ RequestType /\ Sound /\ req[r] \in Query /\ Fits(req[r]) /\ WriteAt(r)
  BY TypeParts DEF Inv, RequestType

\* The request stays, with y as its new state.
LEMMA Updated ==
    ASSUME Inv, NEW r \in Requests, NEW y \in Query, req' = [req EXCEPT ![r] = y], UNCHANGED <<lock, served>>
    PROVE  /\ RequestType' /\ req'[r] = y
           /\ \A q \in Requests \ {r} : req'[q] = req[q] /\ KeepsLocks(q)
<1>1. RequestType
  BY Member
<1>2. req' \in [Requests -> Query] /\ req'[r] = y /\ \A q \in Requests \ {r} : req'[q] = req[q]
  BY <1>1 DEF RequestType
<1> QED
  BY <1>1, <1>2 DEF RequestType, KeepsLocks

LEMMA SignupKept ==
    ASSUME Inv, NEW r \in Requests, SignupCommit(r)
    PROVE  Inv'
<1>0. /\ DataType /\ RequestType /\ Sound /\ req[r] \in Query /\ Fits(req[r])
      /\ req[r].op = "signup" /\ req[r].pc = "commit"
  BY Member DEF SignupCommit, At
<1>1. CASE End(r) /\ UNCHANGED data
  BY <1>1, QuietEnd
<1>2. CASE ~(End(r) /\ UNCHANGED data)
  <2>1. PICK u \in Users \ used :
          /\ users' = [users EXCEPT ![u] = [email |-> req[r].arg, password |-> TRUE, verified |-> FALSE,
                                           pending |-> FALSE, active |-> TRUE]]
          /\ used' = used \cup {u}
          /\ req' = [req EXCEPT ![r] = [@ EXCEPT !.pc = "token", !.user = u]]
          /\ UNCHANGED <<oauth, keys, enrolling, mail, reset, lock, served>>
    BY <1>2 DEF SignupCommit
  <2> DEFINE x == [email |-> req[r].arg, password |-> TRUE, verified |-> FALSE, pending |-> FALSE, active |-> TRUE]
             y == [req[r] EXCEPT !.pc = "token", !.user = u]
  <2>2. x \in Row /\ x.pending = FALSE
    BY <1>0 DEF Row, Fits, Addresses
  <2>3. y \in Query /\ y.op = "signup" /\ y.pc = "token" /\ y.user = u /\ y.arg = req[r].arg
    BY <1>0 DEF Query, Labels
  <2>4. users' = [users EXCEPT ![u] = x] /\ req' = [req EXCEPT ![r] = y]
    BY <1>0, <2>1 DEF RequestType
  <2> HIDE DEF x, y
  <2>5. /\ Sound' /\ Ages /\ \A q \in Requests : Spares(q)
        /\ users' \in [Users -> Row \cup {None}] /\ used' \subseteq Users
    BY <2>1, <2>2, <2>4, RowMade
  <2>6. /\ RequestType' /\ req'[r] = y
        /\ \A q \in Requests \ {r} : req'[q] = req[q] /\ KeepsLocks(q)
    BY <2>1, <2>3, <2>4, Updated
  <2>7. DataType'
    BY <1>0, <2>1, <2>5 DEF DataType
  <2>8. u \in used' /\ users'[u] = x
    BY <1>0, <2>1, <2>4 DEF DataType
  <2>9. Fits(req[r])' /\ WriteAt(r)'
    BY <1>0, <2>2, <2>3, <2>6, <2>8 DEF Fits, WriteAt, LockingOps
  <2> QED
    BY <2>5, <2>6, <2>7, <2>9, AfterStep
<1> QED
  BY <1>1, <1>2

LEMMA CompleteEmailKept ==
    ASSUME Inv, NEW r \in Requests, CompleteEmailCommit(r)
    PROVE  Inv'
<1> DEFINE u == req[r].user
           x == [users[u] EXCEPT !.email = req[r].arg, !.pending = FALSE,
                                 !.verified = users[u].verified /\ "verified" \notin req[r].seen]
           y == [req[r] EXCEPT !.pc = "token"]
<1>0. /\ DataType /\ RequestType /\ Sound /\ req[r] \in Query /\ Fits(req[r])
      /\ req[r].op = "complete" /\ req[r].pc = "commit"
  BY Member DEF CompleteEmailCommit, At
<1>1. CASE End(r) /\ UNCHANGED data
  BY <1>1, QuietEnd
<1>2. CASE ~(End(r) /\ UNCHANGED data)
  <2>1. /\ users[u] # None /\ users' = [users EXCEPT ![u] = x] /\ req' = [req EXCEPT ![r] = y]
        /\ UNCHANGED <<oauth, keys, enrolling, mail, reset, used, lock, served>>
    <3>1. /\ users[u] # None /\ Go(r, "token")
          /\ users' = [users EXCEPT ![u] = [@ EXCEPT !.email = req[r].arg, !.pending = FALSE,
                                                     !.verified = users[u].verified /\ "verified" \notin req[r].seen]]
          /\ UNCHANGED <<oauth, keys, enrolling, mail, reset, used, lock, served>>
      BY <1>2 DEF CompleteEmailCommit
    <3>2. req' = [req EXCEPT ![r] = y]
      BY <1>0, <3>1 DEF Go, RequestType
    <3>3. users' = [users EXCEPT ![u] = x]
      BY <3>1
    <3> QED
      BY <3>1, <3>2, <3>3
  <2>2. u \in used /\ u \in Users /\ users[u] \in Row /\ req[r].seen = {} /\ req[r].arg \in Addresses
    BY <1>0, <2>1 DEF Fits, DataType, Addresses
  <2>3. x \in Row /\ x.pending = FALSE /\ x.active = users[u].active /\ x.verified = users[u].verified
    BY <2>2 DEF Row
  <2>4. y \in Query /\ y.op = "complete" /\ y.pc = "token" /\ y.user = u /\ y.arg = req[r].arg /\ y.seen = {}
    BY <1>0, <2>2 DEF Query, Labels
  <2>5. /\ RequestType' /\ req'[r] = y
        /\ \A q \in Requests \ {r} : req'[q] = req[q] /\ KeepsLocks(q)
    <3> HIDE DEF y
    <3> QED
      BY <2>1, <2>4, Updated
  <2> HIDE DEF x, y, u
  <2>6. /\ users' \in [Users -> Row \cup {None}] /\ users'[u] = x
        /\ \A v \in Users \ {u} : users'[v] = users[v]
    BY <1>0, <2>1, <2>2, <2>3 DEF DataType
  <2>7. Improves(users[u], users'[u])
    BY <2>2, <2>3, <2>6 DEF Improves
  <2>8. Sound' /\ Ages /\ \A q \in Requests : Spares(q)
    BY <2>1, <2>2, <2>6, <2>7, RowImprovedOnly
  <2>9. DataType'
    BY <1>0, <2>1, <2>6 DEF DataType
  <2>10. Fits(req[r])' /\ WriteAt(r)'
    BY <1>0, <2>1, <2>2, <2>3, <2>4, <2>5, <2>6 DEF Fits, WriteAt, LockingOps
  <2> QED
    BY <2>5, <2>8, <2>9, <2>10, AfterStep
<1> QED
  BY <1>1, <1>2

\* A new confirmation of an account that is no longer pending.
LEMMA MailMade ==
    ASSUME Inv, NEW u \in Users, NEW address \in Addresses, users[u] # None, ~users[u].pending,
           NewMail(u, address), UNCHANGED <<users, reset, used>>
    PROVE  /\ Sound' /\ Ages /\ (\A q \in Requests : Spares(q))
           /\ mail' \in [MailIds -> Mail \cup {None}]
<1>0. DataType /\ Sound
  BY TypeParts DEF Inv
<1> DEFINE x == [owner |-> u, address |-> address, used |-> FALSE]
<1>1. PICK t \in MailIds : mail[t] = None /\ mail' = [mail EXCEPT ![t] = x]
  BY DEF NewMail
<1>2. x \in Mail /\ x.owner = u /\ x.used = FALSE
  BY DEF Mail
<1> HIDE DEF x
<1>3. /\ mail' \in [MailIds -> Mail \cup {None}] /\ mail'[t] = x
      /\ \A m \in MailIds \ {t} : mail'[m] = mail[m]
  BY <1>0, <1>1, <1>2 DEF DataType
<1>4. MailSound' /\ SpentIsVerified'
  BY <1>0, <1>2, <1>3 DEF Sound, MailSound, SpentIsVerified
<1>5. RowsUsed' /\ PendingPlain' /\ SuperuserRemains' /\ OneOpenReset'
  BY <1>0 DEF Sound, RowsUsed, PendingPlain, SuperuserRemains, ActiveSuperusers, Active, OneOpenReset, OpenResets
<1>6. Ages /\ \A q \in Requests : Spares(q)
  BY <1>0, <1>1, <1>3 DEF Ages, Spares
<1> QED
  BY <1>3, <1>4, <1>5, <1>6 DEF Sound

LEMMA SendTokenKept ==
    ASSUME Inv, NEW r \in Requests, SendToken(r)
    PROVE  Inv'
<1> DEFINE u == req[r].user
<1>0. /\ DataType /\ RequestType /\ Sound /\ req[r] \in Query /\ Fits(req[r])
      /\ req[r].pc = "token" /\ End(r) /\ UNCHANGED <<users, oauth, keys, enrolling, reset, used>>
  BY Member DEF SendToken
<1>1. CASE UNCHANGED mail
  <2>1. UNCHANGED data
    BY <1>0, <1>1 DEF data
  <2> QED
    BY <1>0, <2>1, QuietEnd
<1>2. CASE ~UNCHANGED mail
  <2>1. users[u] # None /\ NewMail(u, req[r].arg)
    BY <1>2 DEF SendToken
  <2>2. u \in Users /\ ~users[u].pending /\ req[r].arg \in Addresses
    BY <1>0, <2>1 DEF Fits, DataType, Addresses
  <2>3. /\ Sound' /\ Ages /\ (\A q \in Requests : Spares(q))
        /\ mail' \in [MailIds -> Mail \cup {None}]
    BY <1>0, <2>1, <2>2, MailMade
  <2>4. DataType'
    BY <1>0, <2>3 DEF DataType
  <2> QED
    BY <1>0, <2>3, <2>4, AfterEnd
<1> QED
  BY <1>1, <1>2

\* A step that leaves users, tokens and ids alone.
LEMMA LinksOnly ==
    ASSUME Inv, UNCHANGED <<users, mail, reset, used>>
    PROVE  Sound' /\ Ages /\ \A q \in Requests : Spares(q)
<1>0. DataType /\ Sound
  BY TypeParts DEF Inv
<1>1. Ages /\ \A q \in Requests : Spares(q)
  BY <1>0 DEF Ages, Spares
<1>2. Sound'
  BY <1>0 DEF Sound, RowsUsed, PendingPlain, MailSound, SuperuserRemains, ActiveSuperusers, Active,
     OneOpenReset, OpenResets, SpentIsVerified
<1> QED
  BY <1>1, <1>2

\* A provider confirms the address of an account: it is not pending.
LEMMA ConfirmedImproves ==
    ASSUME Inv, NEW u \in Users, users[u] # None, NEW verified \in BOOLEAN,
           verified # users[u].verified => verified /\ ~users[u].pending,
           users' = [users EXCEPT ![u].verified = verified]
    PROVE  /\ users' \in [Users -> Row \cup {None}] /\ Improves(users[u], users'[u])
           /\ \A v \in Users \ {u} : users'[v] = users[v]
<1>0. DataType
  BY TypeParts DEF Inv
<1> DEFINE x == [users[u] EXCEPT !.verified = verified]
<1>1. users[u] \in Row
  BY <1>0 DEF DataType
<1>2. /\ x \in Row /\ x.verified = verified /\ x.active = users[u].active
      /\ x.pending = users[u].pending /\ x.email = users[u].email
  BY <1>1 DEF Row
<1>3. users' = [users EXCEPT ![u] = x]
  BY <1>0 DEF DataType
<1> HIDE DEF x
<1>4. /\ users' \in [Users -> Row \cup {None}] /\ users'[u] = x
      /\ \A v \in Users \ {u} : users'[v] = users[v]
  BY <1>0, <1>2, <1>3 DEF DataType
<1>5. users[u].verified \in BOOLEAN
  BY <1>1 DEF Row
<1>6. Improves(users[u], x)
  BY <1>1, <1>2, <1>5 DEF Improves
<1> QED
  BY <1>4, <1>6

LEMMA NotPending ==
    ASSUME Inv, NEW u \in Users, users[u] # None, NEW s \in Subjects, Confirms(s, users[u].email)
    PROVE  ~users[u].pending
<1>1. users[u].email \in Emails
  BY Facts DEF Confirms
<1> QED
  BY <1>1, Facts DEF Inv, Sound, PendingPlain

LEMMA LoginFoundKept ==
    ASSUME Inv, NEW r \in Requests, OAuthLoginFound(r)
    PROVE  Inv'
<1> DEFINE u == req[r].user
           s == req[r].arg
<1>0. /\ DataType /\ RequestType /\ Sound /\ req[r] \in Query /\ Fits(req[r])
      /\ req[r].op = "login" /\ req[r].pc = "found"
      /\ End(r) /\ UNCHANGED <<oauth, keys, enrolling, mail, reset, used>>
  BY Member DEF OAuthLoginFound, At
<1>1. u \in Users /\ s \in Subjects
  BY <1>0 DEF Fits
<1>2. CASE UNCHANGED users
  <2>1. UNCHANGED data
    BY <1>0, <1>2 DEF data
  <2> QED
    BY <1>0, <2>1, QuietEnd
<1>3. CASE ~UNCHANGED users
  <2>1. users[u] # None /\ Confirms(s, users[u].email) /\ users' = [users EXCEPT ![u].verified = TRUE]
    BY <1>3 DEF OAuthLoginFound, Active
  <2>2. ~users[u].pending
    BY <1>1, <2>1, NotPending
  <2>3. /\ users' \in [Users -> Row \cup {None}] /\ Improves(users[u], users'[u])
        /\ \A v \in Users \ {u} : users'[v] = users[v]
    <3> HIDE DEF u
    <3> QED
      BY <1>1, <2>1, <2>2, ConfirmedImproves
  <2>4. Sound' /\ Ages /\ \A q \in Requests : Spares(q)
    BY <1>0, <1>1, <2>3, RowImprovedOnly
  <2>5. DataType'
    BY <1>0, <2>3 DEF DataType
  <2> QED
    BY <1>0, <2>4, <2>5, AfterEnd
<1> QED
  BY <1>2, <1>3

LEMMA LoginCreateKept ==
    ASSUME Inv, NEW r \in Requests, OAuthLoginCreate(r)
    PROVE  Inv'
<1> DEFINE s == req[r].arg
           address == IF EmailOf[s] = None THEN s ELSE EmailOf[s]
           x == [email |-> address, password |-> FALSE, verified |-> EmailOf[s] # None,
                 pending |-> EmailOf[s] = None, active |-> TRUE]
<1>0. /\ DataType /\ RequestType /\ Sound /\ req[r] \in Query /\ Fits(req[r])
      /\ req[r].op = "login" /\ req[r].pc = "create"
  BY Member DEF OAuthLoginCreate, At
<1>1. s \in Subjects
  BY <1>0 DEF Fits
<1>2. CASE End(r) /\ UNCHANGED data
  BY <1>2, QuietEnd
<1>3. CASE /\ oauth[s] # None /\ UNCHANGED <<data, lock, served>>
           /\ req' = [req EXCEPT ![r] = [@ EXCEPT !.pc = "found", !.user = oauth[s]]]
  <2> DEFINE y == [req[r] EXCEPT !.pc = "found", !.user = oauth[s]]
  <2>1. oauth[s] \in Users
    BY <1>0, <1>1, <1>3 DEF DataType
  <2>2. y \in Query /\ y.op = "login" /\ y.pc = "found" /\ y.user = oauth[s] /\ y.arg = s
    BY <1>0, <2>1 DEF Query, Labels
  <2>3. req' = [req EXCEPT ![r] = y]
    BY <1>3
  <2> HIDE DEF y
  <2>4. /\ RequestType' /\ req'[r] = y
        /\ \A q \in Requests \ {r} : req'[q] = req[q] /\ KeepsLocks(q)
    BY <1>3, <2>2, <2>3, Updated
  <2>5. DataType' /\ Sound' /\ Ages /\ \A q \in Requests : Spares(q)
    BY <1>3, DataStays
  <2>6. Fits(req[r])' /\ WriteAt(r)'
    BY <1>1, <2>1, <2>2, <2>4 DEF Fits, WriteAt, LockingOps
  <2> QED
    BY <2>4, <2>5, <2>6, AfterStep
<1>4. CASE /\ End(r) /\ UNCHANGED <<keys, enrolling, mail, reset>>
           /\ \E u \in Users \ used :
                /\ users' = [users EXCEPT ![u] = x]
                /\ oauth' = [oauth EXCEPT ![s] = u]
                /\ used' = used \cup {u}
  <2>1. PICK u \in Users \ used :
          users' = [users EXCEPT ![u] = x] /\ oauth' = [oauth EXCEPT ![s] = u] /\ used' = used \cup {u}
    BY <1>4
  <2>2. x \in Row /\ (x.pending => x.email \in Subjects /\ ~x.verified)
    <3>1. address \in Addresses /\ (EmailOf[s] = None => address = s)
      BY <1>1, Facts DEF Addresses
    <3> HIDE DEF address
    <3> QED
      BY <1>1, <3>1 DEF Row
  <2> HIDE DEF x
  <2>3. /\ Sound' /\ Ages /\ (\A q \in Requests : Spares(q))
        /\ users' \in [Users -> Row \cup {None}] /\ used' \subseteq Users
    BY <1>4, <2>1, <2>2, RowMade
  <2>4. DataType'
    BY <1>0, <1>4, <2>1, <2>3 DEF DataType
  <2> QED
    BY <1>4, <2>3, <2>4, AfterEnd
<1> QED
  BY <1>2, <1>3, <1>4 DEF OAuthLoginCreate

LEMMA LinkCallbackKept ==
    ASSUME Inv, NEW r \in Requests, OAuthLinkCallback(r)
    PROVE  Inv'
<1> DEFINE s == req[r].arg
<1>0. /\ DataType /\ RequestType /\ Sound /\ req[r] \in Query /\ Fits(req[r])
      /\ req[r].op = "link" /\ req[r].pc = "callback" /\ UNCHANGED data
  BY Member DEF OAuthLinkCallback, At
<1>1. CASE End(r)
  BY <1>0, <1>1, QuietEnd
<1>2. CASE ~End(r)
  <2>1. PICK u \in Users :
          /\ Active(u) /\ u = req[r].starter /\ UNCHANGED <<lock, served>>
          /\ req' = [req EXCEPT ![r] =
                       [@ EXCEPT !.pc = "commit", !.user = u,
                                 !.seen = {x \in {"own"} : oauth[s] = u}
                                    \cup {x \in {"match"} : Confirms(s, users[u].email)}]]
    BY <1>2 DEF OAuthLinkCallback
  <2> DEFINE seen == {x \in {"own"} : oauth[s] = u} \cup {x \in {"match"} : Confirms(s, users[u].email)}
             y == [req[r] EXCEPT !.pc = "commit", !.user = u, !.seen = seen]
  <2>2. seen \in SUBSET {"verified", "own", "match"} /\ ("match" \in seen => Confirms(s, users[u].email))
    OBVIOUS
  <2>3. req' = [req EXCEPT ![r] = y]
    BY <2>1
  <2> HIDE DEF seen
  <2>4. /\ y \in Query /\ y.op = "link" /\ y.pc = "commit" /\ y.user = u /\ y.arg = s /\ y.starter = u
        /\ y.seen = seen
    BY <1>0, <2>1, <2>2 DEF Query, Labels
  <2> HIDE DEF y
  <2>5. /\ RequestType' /\ req'[r] = y
        /\ \A q \in Requests \ {r} : req'[q] = req[q] /\ KeepsLocks(q)
    BY <2>1, <2>3, <2>4, Updated
  <2>6. DataType' /\ Sound' /\ Ages /\ \A q \in Requests : Spares(q)
    BY <1>0, DataStays
  <2>7. s \in Subjects /\ users[u] # None /\ u \in used
    BY <1>0, <2>1 DEF Fits, Active, Sound, RowsUsed
  <2>8. "match" \in seen => ~users[u].pending
    BY <2>2, <2>7, NotPending
  <2>9. Fits(req[r])' /\ WriteAt(r)'
    BY <1>0, <2>4, <2>5, <2>7, <2>8 DEF Fits, WriteAt, LockingOps, data
  <2> QED
    BY <2>5, <2>6, <2>9, AfterStep
<1> QED
  BY <1>1, <1>2

LEMMA LinkCommitKept ==
    ASSUME Inv, NEW r \in Requests, OAuthLinkCommit(r)
    PROVE  Inv'
<1> DEFINE u == req[r].user
           s == req[r].arg
<1>0. /\ DataType /\ RequestType /\ Sound /\ req[r] \in Query /\ Fits(req[r])
      /\ req[r].op = "link" /\ req[r].pc = "commit"
      /\ End(r) /\ UNCHANGED <<keys, enrolling, mail, reset, used>>
  BY Member DEF OAuthLinkCommit, At
<1>1. u \in Users /\ s \in Subjects
  BY <1>0 DEF Fits, DataType
<1>2. CASE UNCHANGED <<oauth, users>>
  <2>1. UNCHANGED data
    BY <1>0, <1>2 DEF data
  <2> QED
    BY <1>0, <2>1, QuietEnd
<1>3. CASE ~UNCHANGED <<oauth, users>>
  <2> DEFINE verified == users[u].verified \/ "match" \in req[r].seen
  <2>1. /\ users[u] # None /\ oauth' = [oauth EXCEPT ![s] = u]
        /\ users' = [users EXCEPT ![u].verified = verified]
    BY <1>3 DEF OAuthLinkCommit
  <2>2. verified # users[u].verified => verified /\ ~users[u].pending
    <3>1. "match" \in req[r].seen => ~users[u].pending
      BY <1>0, <2>1 DEF Fits
    <3>2. users[u].verified \in BOOLEAN
      BY <1>0, <1>1, <2>1 DEF DataType, Row
    <3> QED
      BY <3>1, <3>2
  <2>3. verified \in BOOLEAN
    OBVIOUS
  <2> HIDE DEF verified, u
  <2>4. /\ users' \in [Users -> Row \cup {None}] /\ Improves(users[u], users'[u])
        /\ \A v \in Users \ {u} : users'[v] = users[v]
    BY <1>1, <2>1, <2>2, <2>3, ConfirmedImproves
  <2>5. Sound' /\ Ages /\ \A q \in Requests : Spares(q)
    BY <1>0, <1>1, <2>4, RowImprovedOnly
  <2>6. DataType'
    BY <1>0, <1>1, <2>1, <2>4 DEF DataType
  <2> QED
    BY <1>0, <2>5, <2>6, AfterEnd
<1> QED
  BY <1>2, <1>3

LEMMA RemovalKept ==
    ASSUME Inv, NEW r \in Requests, OAuthUnlinkCommit(r) \/ PasskeyRemoveCommit(r)
    PROVE  Inv'
<1>0. /\ DataType /\ End(r) /\ UNCHANGED <<users, enrolling, mail, reset, used>>
      /\ oauth' \in [Subjects -> Users \cup {None}]
      /\ keys' \in [Keys -> Users \cup {None}]
  BY Member DEF OAuthUnlinkCommit, PasskeyRemoveCommit, DataType
<1>1. DataType' /\ Sound' /\ Ages /\ \A q \in Requests : Spares(q)
  BY <1>0, LinksOnly DEF DataType
<1> QED
  BY <1>0, <1>1, AfterEnd

LEMMA PasskeyKept ==
    ASSUME Inv, PasskeyOptions \/ PasskeyRegister
    PROVE  Inv'
<1>0. DataType /\ RequestType /\ MaxRequests \in Nat
  BY TypeParts, AccountsAssumption DEF Inv
<1>1. /\ UNCHANGED <<users, oauth, mail, reset, used, lock, req>>
      /\ served' \in 0..MaxRequests /\ enrolling' \subseteq Users
      /\ keys' \in [Keys -> Users \cup {None}]
  BY <1>0 DEF PasskeyOptions, PasskeyRegister, DataType, RequestType
<1>2. DataType' /\ RequestType' /\ Sound' /\ Ages /\ \A q \in Requests : Spares(q)
  BY <1>0, <1>1, LinksOnly DEF DataType, RequestType
<1>3. \A q \in Requests : req'[q] = req[q] /\ KeepsLocks(q)
  BY <1>1 DEF KeepsLocks
<1>4. \A q \in Requests : Fits(req[q])' /\ WriteAt(q)'
  BY <1>2, <1>3, OthersKept
<1> QED
  BY <1>2, <1>4 DEF Inv, TypeOK, DataType, RequestType

-----------------------------------------------------------------------------
(* Requests that lock rows. *)

LEMMA AcquireKept ==
    ASSUME Inv, NEW r \in Requests, Acquire(r)
    PROVE  Inv'
<1>0. DataType /\ RequestType /\ Fits(req[r]) /\ req[r].pc = "lock"
  BY Member DEF Acquire, Locking
<1>1. UNCHANGED <<data, req, served>> /\ lock[NextRow(r)] = None /\ lock' = [lock EXCEPT ![NextRow(r)] = r]
  BY DEF Acquire
<1>2. DataType' /\ Sound' /\ Ages /\ \A q \in Requests : Spares(q)
  BY <1>1, DataStays
<1>3. RequestType'
  BY <1>0, <1>1 DEF RequestType
<1>4. \A q \in Requests \ {r} : req'[q] = req[q] /\ KeepsLocks(q)
  <2>1. \A q \in Requests : q # None
    BY Facts
  <2> QED
    BY <1>0, <1>1, <2>1 DEF KeepsLocks, RequestType
<1>5. Fits(req[r])' /\ WriteAt(r)'
  BY <1>0, <1>1 DEF Fits, WriteAt, data
<1> QED
  BY <1>2, <1>3, <1>4, <1>5, AfterStep

\* The user whose account a request with its rows is about.
LEMMA OwnerKnown ==
    ASSUME Inv, NEW r \in Requests, req[r].pc \in {"lock", "write"}, Found(req[r])
    PROVE  /\ Owner(req[r]) \in Users /\ users[Owner(req[r])] \in Row /\ req[r].op \in LockingOps
           /\ req[r].op = "verify" => /\ req[r].arg \in MailIds /\ mail[req[r].arg] \in Mail
                                      /\ Owner(req[r]) = mail[req[r].arg].owner
           /\ req[r].op = "reset" => /\ req[r].arg \in ResetIds /\ reset[req[r].arg] \in Reset
                                     /\ Owner(req[r]) = reset[req[r].arg].owner
           /\ req[r].op \notin {"verify", "reset"} => Owner(req[r]) = req[r].user
<1>0. DataType /\ Fits(req[r]) /\ req[r].op \in LockingOps
  BY Member DEF Fits
<1>1. req[r].op = "verify" => /\ req[r].arg \in MailIds /\ mail[req[r].arg] \in Mail
                              /\ Owner(req[r]) = mail[req[r].arg].owner
  BY <1>0 DEF Found, Fits, DataType, Owner
<1>2. req[r].op = "reset" => /\ req[r].arg \in ResetIds /\ reset[req[r].arg] \in Reset
                             /\ Owner(req[r]) = reset[req[r].arg].owner
  BY <1>0 DEF Found, Fits, DataType, Owner
<1>3. req[r].op \notin {"verify", "reset"} => Owner(req[r]) = req[r].user
  BY DEF Owner
<1>4. Owner(req[r]) \in Users
  BY <1>0, <1>1, <1>2, <1>3 DEF Fits, Mail, Reset
<1>5. users[Owner(req[r])] \in Row
  BY <1>0, <1>4 DEF Found, DataType
<1> QED
  BY <1>0, <1>1, <1>2, <1>3, <1>4, <1>5

\* With all its rows a request holds its user and, to take away a superuser,
\* the other active ones.
LEMMA AllHeld ==
    ASSUME Inv, NEW r \in Requests, req[r].op \in LockingOps, Unheld(r) = {}
    PROVE  LET u == Owner(req[r]) IN
           /\ lock[<<"user", u>>] = r
           /\ req[r].op \in {"deactivate", "delete"} /\ u \in Superusers =>
                \A v \in ActiveSuperusers : lock[<<"user", v>>] = r
<1> DEFINE u == Owner(req[r])
           steps == LockSteps(req[r])
<1>1. \A i \in DOMAIN steps : \A l \in steps[i] : lock[l] = r
  BY DEF Unheld
<1>2. \E i \in DOMAIN steps : <<"user", u>> \in steps[i]
  <2>1. CASE req[r].op = "verify"
    <3>1. steps = << {<<"mail", req[r].arg>>}, {<<"user", u>>} >>
      BY <2>1 DEF LockSteps
    <3>2. 2 \in DOMAIN steps /\ steps[2] = {<<"user", u>>}
      BY <3>1
    <3> QED
      BY <3>2
  <2>2. CASE req[r].op = "reset"
    <3>1. /\ 2 \in DOMAIN steps
          /\ steps[2] = {<<"user", u>>}
      BY <2>2 DEF LockSteps
    <3> QED
      BY <3>1
  <2>3. CASE req[r].op = "rotate"
    <3>1. steps = << {<<"sessions", u>>}, {<<"user", u>>} >>
      BY <2>3 DEF LockSteps
    <3>2. 2 \in DOMAIN steps /\ steps[2] = {<<"user", u>>}
      BY <3>1
    <3> QED
      BY <3>2
  <2>4. CASE req[r].op \in {"resend", "forgot", "change", "deactivate", "delete"}
    <3>1. 1 \in DOMAIN steps /\ steps[1] = {<<"user", u>>}
      BY <2>4 DEF LockSteps
    <3> QED
      BY <3>1
  <2> QED
    BY <2>1, <2>2, <2>3, <2>4 DEF LockingOps
<1>3. ASSUME req[r].op \in {"deactivate", "delete"}, u \in Superusers, NEW v \in ActiveSuperusers
      PROVE  lock[<<"user", v>>] = r
  <2>1. 2 \in DOMAIN steps /\ steps[2] = SuperuserRows(u)
    BY <1>3 DEF LockSteps
  <2>2. <<"user", v>> \in SuperuserRows(u)
    BY <1>3 DEF SuperuserRows
  <2> QED
    BY <1>1, <2>1, <2>2
<1> QED
  BY <1>1, <1>2, <1>3

LEMMA AnotherSuperuser ==
    ASSUME NEW u, Cardinality(ActiveSuperusers) > 1
    PROVE  \E v \in ActiveSuperusers : v # u
<1> SUFFICES ASSUME ActiveSuperusers \subseteq {u} PROVE FALSE
  OBVIOUS
<1>1. IsFiniteSet({u}) /\ Cardinality({u}) = 1
  BY FS_Singleton
<1>2. ActiveSuperusers \in SUBSET {u}
  OBVIOUS
<1>3. IsFiniteSet(ActiveSuperusers) /\ Cardinality(ActiveSuperusers) <= 1
  BY <1>1, <1>2, FS_Subset
<1>4. Cardinality(ActiveSuperusers) \in Nat
  BY <1>3, FS_CardinalityType
<1> QED
  BY <1>3, <1>4

LEMMA DecideKept ==
    ASSUME Inv, NEW r \in Requests, Decide(r)
    PROVE  Inv'
<1> DEFINE u == Owner(req[r])
           y == [req[r] EXCEPT !.pc = "write", !.open = OpenResets(u)]
<1>0. /\ DataType /\ RequestType /\ Sound /\ req[r] \in Query /\ Fits(req[r])
      /\ req[r].pc = "lock" /\ Found(req[r]) /\ Unheld(r) = {} /\ Accepted(req[r])
      /\ req' = [req EXCEPT ![r] = y] /\ UNCHANGED <<data, lock, served>>
  BY Member DEF Decide, Locking
<1>1. /\ u \in Users /\ users[u] \in Row /\ req[r].op \in LockingOps
      /\ req[r].op = "verify" => /\ req[r].arg \in MailIds /\ mail[req[r].arg] \in Mail
                                 /\ u = mail[req[r].arg].owner
      /\ req[r].op = "reset" => /\ req[r].arg \in ResetIds /\ reset[req[r].arg] \in Reset
                                /\ u = reset[req[r].arg].owner
      /\ req[r].op \notin {"verify", "reset"} => u = req[r].user
  BY <1>0, OwnerKnown
<1>2. /\ lock[<<"user", u>>] = r
      /\ req[r].op \in {"deactivate", "delete"} /\ u \in Superusers =>
           \A v \in ActiveSuperusers : lock[<<"user", v>>] = r
  BY <1>0, <1>1, AllHeld
<1>3. req[r].op \in {"deactivate", "delete"} /\ u \in Superusers =>
        \E v \in ActiveSuperusers : v # u /\ lock[<<"user", v>>] = r
  <2> SUFFICES ASSUME req[r].op \in {"deactivate", "delete"}, u \in Superusers
               PROVE  \E v \in ActiveSuperusers : v # u /\ lock[<<"user", v>>] = r
    OBVIOUS
  <2>1. Cardinality(ActiveSuperusers) > 1
    BY <1>0 DEF Accepted
  <2>2. \E v \in ActiveSuperusers : v # u
    BY <2>1, AnotherSuperuser
  <2> QED
    BY <1>2, <2>2
<1>4. req[r].op = "resend" => ~users[u].pending
  BY <1>0 DEF Accepted
<1>5. OpenResets(u) \in SUBSET ResetIds /\ \A t \in OpenResets(u) : reset[t] # None /\ reset[t].owner = u
  BY DEF OpenResets
<1>6. PICK o, w : o = OpenResets(u) /\ w = u
  OBVIOUS
<1>7. /\ y \in Query /\ y.pc = "write" /\ y.op = req[r].op /\ y.user = req[r].user /\ y.arg = req[r].arg
      /\ y.open = o
  <2> HIDE DEF u
  <2> QED
    BY <1>0, <1>5, <1>6 DEF Query, Labels
<1> HIDE DEF y
<1>8. /\ RequestType' /\ req'[r] = y
      /\ \A q \in Requests \ {r} : req'[q] = req[q] /\ KeepsLocks(q)
  BY <1>0, <1>7, Updated
<1>9. DataType' /\ Sound' /\ Ages /\ \A q \in Requests : Spares(q)
  BY <1>0, DataStays
<1>10. Fits(req[r])'
  BY <1>0, <1>1, <1>7, <1>8 DEF Fits, LockingOps, data
<1>11. WriteAt(r)'
  <2>1. Owner(req[r])' = w /\ Found(req[r])'
    <3>1. w = Owner(req[r]) /\ req'[r].op = req[r].op /\ req'[r].user = req[r].user /\ req'[r].arg = req[r].arg
      BY <1>6, <1>7, <1>8
    <3>2. Owner(req[r])' = w
      BY <1>0, <1>1, <3>1 DEF Owner, data
    <3> QED
      BY <1>0, <1>1, <3>1, <3>2 DEF Found, data
  <2>2. OpenResets(w)' = o /\ ActiveSuperusers' = ActiveSuperusers
    BY <1>0, <1>6 DEF OpenResets, ActiveSuperusers, Active, data
  <2>3. /\ lock'[<<"user", w>>] = r
        /\ req'[r].op = "resend" => ~users'[w].pending
        /\ \A t \in o : reset'[t] # None /\ reset'[t].owner = w
        /\ req'[r].op \in {"deactivate", "delete"} /\ w \in Superusers =>
             \E v \in ActiveSuperusers : v # w /\ lock'[<<"user", v>>] = r
    BY <1>0, <1>2, <1>3, <1>4, <1>5, <1>6, <1>7, <1>8 DEF data
  <2>4. req'[r].open = o
    BY <1>7, <1>8
  <2> QED
    BY <2>1, <2>2, <2>3, <2>4 DEF WriteAt
<1> QED
  BY <1>8, <1>9, <1>10, <1>11, AfterStep

\* No account has more open reset tokens than before.
LEMMA FewerOpen ==
    ASSUME OneOpenReset, \A u \in Users : OpenResets(u)' \subseteq OpenResets(u) \/ \E t : OpenResets(u)' \subseteq {t}
    PROVE  OneOpenReset'
<1> SUFFICES ASSUME NEW u \in Users PROVE Cardinality(OpenResets(u)') <= 1
  BY DEF OneOpenReset
<1>1. IsFiniteSet(OpenResets(u)) /\ Cardinality(OpenResets(u)) \in Nat
  <2>1. IsFiniteSet(ResetIds) /\ OpenResets(u) \in SUBSET ResetIds
    <3>1. MaxResets \in Int /\ 1 \in Int
      BY AccountsAssumption
    <3>2. IsFiniteSet(1..MaxResets)
      BY <3>1, FS_Interval
    <3> QED
      BY <3>2 DEF ResetIds, OpenResets
  <2> QED
    BY <2>1, FS_Subset, FS_CardinalityType
<1>2. PICK O : O = OpenResets(u)'
  OBVIOUS
<1>3. CASE O \subseteq OpenResets(u)
  <2>1. O \in SUBSET OpenResets(u)
    BY <1>3
  <2>2. IsFiniteSet(O) /\ Cardinality(O) <= Cardinality(OpenResets(u))
    BY <1>1, <2>1, FS_Subset
  <2>3. Cardinality(O) \in Nat /\ Cardinality(OpenResets(u)) <= 1
    BY <2>2, FS_CardinalityType DEF OneOpenReset
  <2> QED
    BY <1>1, <1>2, <2>2, <2>3
<1>4. CASE \E t : O \subseteq {t}
  <2>1. PICK t : O \in SUBSET {t}
    BY <1>4
  <2>2. IsFiniteSet({t}) /\ Cardinality({t}) = 1
    BY FS_Singleton
  <2> QED
    BY <1>2, <2>1, <2>2, FS_Subset
<1> QED
  BY <1>2, <1>3, <1>4

\* What a request that holds its rows knows.
LEMMA Writing ==
    ASSUME Inv, NEW r \in Requests, req[r].pc = "write"
    PROVE  LET u == Owner(req[r]) IN
           /\ DataType /\ RequestType /\ Sound /\ req[r] \in Query
           /\ u \in Users /\ users[u] \in Row /\ users[u] # None /\ lock[<<"user", u>>] = r
           /\ req[r].op = "verify" => /\ req[r].arg \in MailIds /\ mail[req[r].arg] \in Mail
                                      /\ u = mail[req[r].arg].owner
           /\ req[r].op = "reset" => /\ req[r].arg \in ResetIds /\ reset[req[r].arg] \in Reset
                                     /\ u = reset[req[r].arg].owner
           /\ req[r].op \notin {"verify", "reset"} => u = req[r].user
           /\ req[r].op = "resend" => ~users[u].pending
           /\ req[r].op \in {"forgot", "reset"} => \A t \in req[r].open : reset[t] \in Reset /\ reset[t].owner = u
           /\ req[r].op = "forgot" => OpenResets(u) \subseteq req[r].open
           /\ req[r].op \in {"deactivate", "delete"} /\ u \in Superusers =>
                \E v \in ActiveSuperusers : v # u /\ lock[<<"user", v>>] = r
<1>1. /\ DataType /\ RequestType /\ Sound /\ req[r] \in Query /\ WriteAt(r)
  BY Member
<1>2. Found(req[r])
  BY <1>1 DEF WriteAt
<1>3. /\ Owner(req[r]) \in Users /\ users[Owner(req[r])] \in Row /\ users[Owner(req[r])] # None
      /\ req[r].op = "verify" => /\ req[r].arg \in MailIds /\ mail[req[r].arg] \in Mail
                                 /\ Owner(req[r]) = mail[req[r].arg].owner
      /\ req[r].op = "reset" => /\ req[r].arg \in ResetIds /\ reset[req[r].arg] \in Reset
                                /\ Owner(req[r]) = reset[req[r].arg].owner
      /\ req[r].op \notin {"verify", "reset"} => Owner(req[r]) = req[r].user
  BY <1>2, OwnerKnown, Facts
<1>4. req[r].op \in {"forgot", "reset"} => \A t \in req[r].open : reset[t] \in Reset /\ reset[t].owner = Owner(req[r])
  <2>1. req[r].open \subseteq ResetIds
    BY <1>1 DEF Query
  <2> QED
    BY <1>1, <2>1 DEF WriteAt, DataType
<1> QED
  BY <1>1, <1>3, <1>4 DEF WriteAt

LEMMA VerifiedKept ==
    ASSUME Inv, NEW r \in Requests, WriteVerified(r), End(r)
    PROVE  Inv'
<1> DEFINE t == req[r].arg
           u == mail[t].owner
           x == [mail[t] EXCEPT !.used = TRUE]
<1>0. req[r].op = "verify" /\ req[r].pc = "write" /\ UNCHANGED <<oauth, keys, enrolling, reset, used>>
  BY DEF WriteVerified, At
<1>1. /\ DataType /\ Sound /\ u \in Users /\ users[u] # None /\ t \in MailIds /\ mail[t] \in Mail /\ mail[t] # None
  <2>1. /\ DataType /\ Sound /\ Owner(req[r]) \in Users /\ users[Owner(req[r])] # None
        /\ req[r].arg \in MailIds /\ mail[req[r].arg] \in Mail /\ Owner(req[r]) = mail[req[r].arg].owner
    BY <1>0, Writing
  <2> QED
    BY <2>1, Facts
<1>2. ~users[u].pending
  BY <1>1 DEF Sound, MailSound
<1>3. users' = [users EXCEPT ![u].verified = TRUE] /\ mail' = [mail EXCEPT ![t] = x]
  BY <1>1 DEF WriteVerified, DataType
<1>4. x \in Mail /\ x # None /\ x.owner = u
  BY <1>1, Facts DEF Mail
<1>5. /\ mail' \in [MailIds -> Mail \cup {None}] /\ mail'[t] = x
      /\ \A m \in MailIds \ {t} : mail'[m] = mail[m]
  <2> HIDE DEF x
  <2> QED
    BY <1>1, <1>3, <1>4 DEF DataType
<1>6. PICK w : w = u
  OBVIOUS
<1>7. w \in Users /\ users[w] # None /\ ~users[w].pending /\ users' = [users EXCEPT ![w].verified = TRUE]
  BY <1>1, <1>2, <1>3, <1>6
<1> HIDE DEF x, u
<1>8. /\ users' \in [Users -> Row \cup {None}] /\ Improves(users[w], users'[w])
      /\ \A v \in Users \ {w} : users'[v] = users[v]
  BY <1>7, ConfirmedImproves
<1>9. users'[w].verified
  BY <1>1, <1>7 DEF DataType, Row
<1>10. /\ RowsUsed' /\ PendingPlain' /\ SuperuserRemains' /\ Ages
       /\ \A v \in Users : users[v] # None =>
            /\ users'[v] # None /\ users'[v].active = users[v].active
            /\ users[v].verified => users'[v].verified
            /\ users'[v].pending => users[v].pending
  BY <1>0, <1>7, <1>8, RowImproved
<1>11. \A m \in MailIds : mail'[m] # None => mail[m] # None /\ mail'[m].owner = mail[m].owner /\ mail[m].owner \in Users
  BY <1>1, <1>4, <1>5 DEF DataType, Mail, u
<1>12. MailSound'
  BY <1>1, <1>10, <1>11 DEF Sound, MailSound
<1>13. SpentIsVerified'
  <2> SUFFICES ASSUME NEW m \in MailIds, mail'[m] # None, mail'[m].used
               PROVE  users'[mail'[m].owner].verified
    BY DEF SpentIsVerified
  <2>1. CASE m = t
    BY <1>4, <1>5, <1>6, <1>9, <2>1
  <2>2. CASE m # t
    <3>1. mail'[m] = mail[m] /\ mail[m].owner \in Users /\ users[mail[m].owner] # None
      BY <1>1, <1>5, <1>11, <2>2 DEF Sound, MailSound
    <3> QED
      BY <1>1, <1>10, <3>1 DEF Sound, SpentIsVerified
  <2> QED
    BY <2>1, <2>2
<1>14. OneOpenReset'
  BY <1>0, <1>1 DEF Sound, OneOpenReset, OpenResets
<1>15. \A q \in Requests \ {r} : Spares(q)
  <2>1. \A m \in MailIds : mail[m] # None => mail'[m] # None /\ mail'[m].owner = mail[m].owner
    BY <1>4, <1>5, <1>6 DEF u
  <2> QED
    BY <1>0, <1>10, <2>1 DEF Spares
<1>16. DataType' /\ Sound'
  BY <1>0, <1>1, <1>5, <1>8, <1>10, <1>12, <1>13, <1>14 DEF DataType, Sound
<1> QED
  BY <1>10, <1>15, <1>16, AfterEnd

LEMMA ResentKept ==
    ASSUME Inv, NEW r \in Requests, WriteResent(r), End(r)
    PROVE  Inv'
<1> DEFINE u == req[r].user
<1>0. req[r].op = "resend" /\ req[r].pc = "write" /\ UNCHANGED <<users, oauth, keys, enrolling, reset, used>>
  BY DEF WriteResent, At
<1>1. /\ DataType /\ Sound /\ u \in Users /\ users[u] # None /\ users[u] \in Row /\ ~users[u].pending
  BY <1>0, Writing
<1>2. CASE UNCHANGED mail
  <2>1. UNCHANGED data
    BY <1>0, <1>2 DEF data
  <2> QED
    BY <2>1, QuietEnd
<1>3. CASE NewMail(u, users[u].email)
  <2>1. users[u].email \in Addresses
    BY <1>1 DEF Row
  <2>2. /\ Sound' /\ Ages /\ (\A q \in Requests : Spares(q))
        /\ mail' \in [MailIds -> Mail \cup {None}]
    <3>1. PICK e \in Addresses, w \in Users : e = users[u].email /\ w = u
      BY <1>1, <2>1
    <3>2. NewMail(w, e)
      BY <1>3, <3>1
    <3> HIDE DEF u
    <3> QED
      BY <1>0, <1>1, <3>1, <3>2, MailMade
  <2>3. DataType'
    BY <1>0, <1>1, <2>2 DEF DataType
  <2> QED
    BY <2>2, <2>3, AfterEnd
<1> QED
  BY <1>2, <1>3 DEF WriteResent

\* Of the tokens only those of u change; none goes, and at most one is open.
TokensOf(u) ==
    /\ \A t \in ResetIds : reset[t] # None => reset'[t] # None /\ reset'[t].owner = reset[t].owner
    /\ \A t \in ResetIds : reset'[t] = reset[t] \/ (reset'[t] # None /\ reset'[t].owner = u)
    /\ OpenResets(u)' \subseteq OpenResets(u) \/ \E t : OpenResets(u)' \subseteq {t}

SparesTokens(q) ==
    \A v \in Users : lock[<<"user", v>>] = q =>
      /\ \A t \in ResetIds : reset[t] # None /\ reset[t].owner = v => reset'[t] # None /\ reset'[t].owner = v
      /\ \A t \in ResetIds :
           reset'[t] # None /\ reset'[t].owner = v /\ reset'[t].state = "open" => reset'[t] = reset[t]

LEMMA ResetsKept ==
    ASSUME Inv, NEW r \in Requests, NEW u \in Users, lock[<<"user", u>>] = r, TokensOf(u)
    PROVE  OneOpenReset' /\ \A q \in Requests \ {r} : SparesTokens(q)
<1>1. \A v \in Users : v # u => OpenResets(v)' \subseteq OpenResets(v)
  BY DEF OpenResets, TokensOf
<1>2. OneOpenReset
  BY DEF Inv, Sound
<1>3. OneOpenReset'
  <2>1. \A v \in Users : OpenResets(v)' \subseteq OpenResets(v) \/ \E t : OpenResets(v)' \subseteq {t}
    BY <1>1 DEF TokensOf
  <2> QED
    BY <1>2, <2>1, FewerOpen
<1>4. \A q \in Requests \ {r} : SparesTokens(q)
  BY DEF SparesTokens, TokensOf
<1> QED
  BY <1>3, <1>4

LEMMA ClosedIs ==
    ASSUME DataType, NEW tokens \in SUBSET ResetIds, \A t \in tokens : reset[t] \in Reset
    PROVE  /\ Closed(tokens) \in [ResetIds -> Reset \cup {None}]
           /\ \A t \in tokens : /\ Closed(tokens)[t] \in Reset /\ Closed(tokens)[t].owner = reset[t].owner
                                /\ Closed(tokens)[t].state = "invalidated"
           /\ \A t \in ResetIds \ tokens : Closed(tokens)[t] = reset[t]
<1>1. ASSUME NEW t \in tokens
      PROVE  /\ [reset[t] EXCEPT !.state = "invalidated"] \in Reset
             /\ [reset[t] EXCEPT !.state = "invalidated"].owner = reset[t].owner
             /\ [reset[t] EXCEPT !.state = "invalidated"].state = "invalidated"
  BY DEF Reset
<1>2. \A t \in tokens : Closed(tokens)[t] = [reset[t] EXCEPT !.state = "invalidated"]
  BY DEF Closed
<1>3. \A t \in ResetIds \ tokens : Closed(tokens)[t] = reset[t] /\ reset[t] \in Reset \cup {None}
  BY DEF Closed, DataType
<1>4. \A t \in tokens : /\ Closed(tokens)[t] \in Reset /\ Closed(tokens)[t].owner = reset[t].owner
                        /\ Closed(tokens)[t].state = "invalidated"
  BY <1>1, <1>2
<1>5. Closed(tokens) = [t \in ResetIds |-> Closed(tokens)[t]]
  BY DEF Closed
<1> QED
  BY <1>3, <1>4, <1>5

LEMMA ForgotKept ==
    ASSUME Inv, NEW r \in Requests, WriteForgot(r), End(r)
    PROVE  Inv'
<1>0. req[r].op = "forgot" /\ req[r].pc = "write" /\ UNCHANGED <<users, oauth, keys, enrolling, mail, used>>
  BY DEF WriteForgot, At
<1>1. CASE UNCHANGED reset
  <2>1. UNCHANGED data
    BY <1>0, <1>1 DEF data
  <2> QED
    BY <2>1, QuietEnd
<1>2. CASE ~UNCHANGED reset
  <2>1. PICK u \in Users : u = req[r].user /\ u = Owner(req[r])
    BY <1>0, Writing
  <2>2. PICK open : open = req[r].open
    OBVIOUS
  <2>3. /\ DataType /\ Sound /\ users[u] # None /\ lock[<<"user", u>>] = r
        /\ open \in SUBSET ResetIds /\ \A t \in open : reset[t] \in Reset /\ reset[t].owner = u
        /\ OpenResets(u) \subseteq open
    <3>1. req[r] \in Query
      BY <1>0, Writing
    <3> QED
      BY <1>0, <2>1, <2>2, <3>1, Writing DEF Query
  <2> DEFINE x == [owner |-> u, state |-> "open"]
  <2>4. PICK new \in ResetIds : reset[new] = None /\ reset' = [Closed(open) EXCEPT ![new] = x]
    BY <1>2, <2>1, <2>2 DEF WriteForgot
  <2>5. x \in Reset /\ x # None /\ x.owner = u
    BY Facts DEF Reset
  <2> HIDE DEF x
  <2>6. /\ Closed(open) \in [ResetIds -> Reset \cup {None}]
        /\ \A t \in open : /\ Closed(open)[t] \in Reset /\ Closed(open)[t].owner = reset[t].owner
                           /\ Closed(open)[t].state = "invalidated"
        /\ \A t \in ResetIds \ open : Closed(open)[t] = reset[t]
    BY <2>3, ClosedIs
  <2>7. /\ reset' \in [ResetIds -> Reset \cup {None}] /\ reset'[new] = x
        /\ \A t \in ResetIds \ {new} : reset'[t] = Closed(open)[t]
    BY <2>4, <2>5, <2>6
  <2>8. \A t \in open : t # new /\ reset[t] # None /\ Closed(open)[t] # None
    BY <2>3, <2>4, <2>6, Facts
  <2>9. \A t \in ResetIds : reset[t] # None => reset'[t] # None /\ reset'[t].owner = reset[t].owner
    BY <2>4, <2>6, <2>7, <2>8
  <2>10. \A t \in ResetIds : reset'[t] = reset[t] \/ (reset'[t] # None /\ reset'[t].owner = u)
    BY <2>3, <2>5, <2>6, <2>7, <2>8
  <2>11. OpenResets(u)' \subseteq {new}
    <3> SUFFICES ASSUME NEW t \in ResetIds, t # new, reset'[t] # None, reset'[t].owner = u,
                        reset'[t].state = "open"
                 PROVE  FALSE
      BY DEF OpenResets
    <3>1. CASE t \in open
      BY <2>6, <2>7, <3>1
    <3>2. CASE t \notin open
      BY <2>3, <2>6, <2>7, <3>2 DEF OpenResets
    <3> QED
      BY <3>1, <3>2
  <2>12. OneOpenReset' /\ \A q \in Requests \ {r} : SparesTokens(q)
    <3>1. TokensOf(u)
      BY <2>9, <2>10, <2>11 DEF TokensOf
    <3> QED
      BY <2>3, <3>1, ResetsKept
  <2>13. Ages /\ \A q \in Requests \ {r} : Spares(q)
    BY <1>0, <2>3, <2>12 DEF Ages, Spares, SparesTokens
  <2>14. Sound'
    BY <1>0, <2>3, <2>12 DEF Sound, RowsUsed, PendingPlain, MailSound, SuperuserRemains, ActiveSuperusers, Active,
       SpentIsVerified
  <2>15. DataType'
    BY <1>0, <2>3, <2>7 DEF DataType
  <2> QED
    BY <2>13, <2>14, <2>15, AfterEnd
<1> QED
  BY <1>1, <1>2

LEMMA ResetKept ==
    ASSUME Inv, NEW r \in Requests, WriteReset(r), End(r)
    PROVE  Inv'
<1>0. req[r].op = "reset" /\ req[r].pc = "write" /\ UNCHANGED <<oauth, keys, enrolling, mail, used>>
  BY DEF WriteReset, At
<1>1. PICK u \in Users, t \in ResetIds, open \in SUBSET ResetIds :
        u = Owner(req[r]) /\ t = req[r].arg /\ open = req[r].open \ {t}
  BY <1>0, Writing DEF Query
<1>2. /\ DataType /\ Sound /\ users[u] # None /\ users[u] \in Row /\ lock[<<"user", u>>] = r
      /\ reset[t] \in Reset /\ reset[t].owner = u
      /\ open \in SUBSET ResetIds /\ \A m \in open : reset[m] \in Reset /\ reset[m].owner = u
  <2>1. req[r] \in Query
    BY <1>0, Writing
  <2> QED
    BY <1>0, <1>1, <2>1, Writing DEF Query
<1> DEFINE x == [reset[t] EXCEPT !.state = "used"]
           y == [users[u] EXCEPT !.password = TRUE]
<1>3. /\ Closed(open) \in [ResetIds -> Reset \cup {None}]
      /\ \A m \in open : /\ Closed(open)[m] \in Reset /\ Closed(open)[m].owner = reset[m].owner
                         /\ Closed(open)[m].state = "invalidated"
      /\ \A m \in ResetIds \ open : Closed(open)[m] = reset[m]
  BY <1>2, ClosedIs
<1>4. x \in Reset /\ x # None /\ x.owner = u /\ x.state = "used" /\ reset[t] # None
  BY <1>2, Facts DEF Reset
<1>5. reset' = [Closed(open) EXCEPT ![t] = x]
  <2>1. reset' = [Closed(open) EXCEPT ![t].state = "used"] /\ Closed(open)[t] = reset[t]
    BY <1>1, <1>3 DEF WriteReset
  <2> HIDE DEF x
  <2>2. reset' = [Closed(open) EXCEPT ![t] = [Closed(open)[t] EXCEPT !.state = "used"]]
    BY <1>3, <2>1
  <2> QED
    BY <2>1, <2>2 DEF x
<1>6. /\ y \in Row /\ y.active = users[u].active /\ y.verified = users[u].verified
      /\ y.pending = users[u].pending /\ y.email = users[u].email
  BY <1>2 DEF Row
<1>7. users' = [users EXCEPT ![u] = y]
  <2>1. users' = [users EXCEPT ![u].password = TRUE]
    BY <1>1, <1>2 DEF WriteReset
  <2> QED
    BY <1>2, <2>1 DEF DataType
<1> HIDE DEF x, y
<1>8. /\ users' \in [Users -> Row \cup {None}] /\ users'[u] = y
      /\ \A v \in Users \ {u} : users'[v] = users[v]
  BY <1>2, <1>6, <1>7 DEF DataType
<1>9. Improves(users[u], users'[u])
  BY <1>2, <1>6, <1>8 DEF Improves
<1>10. /\ RowsUsed' /\ PendingPlain' /\ SuperuserRemains' /\ Ages
       /\ \A v \in Users : users[v] # None =>
            /\ users'[v] # None /\ users'[v].active = users[v].active
            /\ users[v].verified => users'[v].verified
            /\ users'[v].pending => users[v].pending
  BY <1>0, <1>8, <1>9, RowImproved
<1>11. /\ reset' \in [ResetIds -> Reset \cup {None}] /\ reset'[t] = x
       /\ \A m \in ResetIds \ {t} : reset'[m] = Closed(open)[m]
  BY <1>3, <1>4, <1>5
<1>12. \A m \in open : reset[m] # None /\ Closed(open)[m] # None
  BY <1>2, <1>3, Facts
<1>13. \A m \in ResetIds : reset[m] # None => reset'[m] # None /\ reset'[m].owner = reset[m].owner
  BY <1>2, <1>3, <1>4, <1>11, <1>12
<1>14. \A m \in ResetIds : reset'[m] = reset[m] \/ (reset'[m] # None /\ reset'[m].owner = u)
  BY <1>2, <1>3, <1>4, <1>11, <1>12
<1>15. OpenResets(u)' \subseteq OpenResets(u)
  <2> SUFFICES ASSUME NEW m \in ResetIds, reset'[m] # None, reset'[m].owner = u, reset'[m].state = "open"
               PROVE  reset'[m] = reset[m]
    BY DEF OpenResets
  <2>1. m # t
    BY <1>4, <1>11
  <2>2. m \notin open
    BY <1>3, <1>11, <2>1
  <2> QED
    BY <1>3, <1>11, <2>1, <2>2
<1>16. OneOpenReset' /\ \A q \in Requests \ {r} : SparesTokens(q)
  <2>1. TokensOf(u)
    BY <1>13, <1>14, <1>15 DEF TokensOf
  <2> QED
    BY <1>2, <2>1, ResetsKept
<1>17. \A q \in Requests \ {r} : Spares(q)
  BY <1>0, <1>10, <1>16 DEF Spares, SparesTokens
<1>18. MailSound' /\ SpentIsVerified'
  <2>1. \A m \in MailIds : mail[m] # None => mail[m].owner \in Users
    BY <1>2 DEF DataType, Mail
  <2> QED
    BY <1>0, <1>2, <1>10, <2>1 DEF Sound, MailSound, SpentIsVerified
<1>19. DataType' /\ Sound'
  BY <1>0, <1>2, <1>8, <1>10, <1>11, <1>16, <1>18 DEF DataType, Sound
<1> QED
  BY <1>10, <1>17, <1>19, AfterEnd

\* A superuser goes: the one the request has found next to it, and holds, is
\* still active.
LEMMA SuperuserStays ==
    ASSUME Inv, NEW r \in Requests, req[r].pc = "write", req[r].op \in {"deactivate", "delete"},
           NEW u \in Users, u = Owner(req[r]), \A v \in Users \ {u} : users'[v] = users[v]
    PROVE  SuperuserRemains'
<1>1. PICK v \in ActiveSuperusers : v # u
  <2>1. CASE u \in Superusers
    BY <2>1, Writing
  <2>2. CASE u \notin Superusers
    BY <2>2 DEF Inv, Sound, SuperuserRemains, ActiveSuperusers
  <2> QED
    BY <2>1, <2>2
<1>2. v \in Users /\ v \in ActiveSuperusers'
  BY <1>1, Facts DEF ActiveSuperusers, Active
<1> QED
  BY <1>2 DEF SuperuserRemains

LEMMA DeactivatedKept ==
    ASSUME Inv, NEW r \in Requests, WriteDeactivated(r), End(r)
    PROVE  Inv'
<1>0. req[r].op = "deactivate" /\ req[r].pc = "write" /\ UNCHANGED <<oauth, keys, enrolling, mail, reset, used>>
  BY DEF WriteDeactivated, At
<1>1. PICK u \in Users : u = Owner(req[r]) /\ u = req[r].user
  <2>1. Owner(req[r]) \in Users
    BY <1>0, Writing
  <2> QED
    BY <1>0, <2>1 DEF Owner
<1>2. /\ DataType /\ Sound /\ users[u] # None /\ users[u] \in Row /\ lock[<<"user", u>>] = r
  BY <1>0, <1>1, Writing
<1> DEFINE x == [users[u] EXCEPT !.active = FALSE]
<1>3. x \in Row /\ x # None /\ x.verified = users[u].verified /\ x.pending = users[u].pending /\ x.email = users[u].email
  BY <1>2, Facts DEF Row
<1>4. users' = [users EXCEPT ![u] = x]
  <2>1. users' = [users EXCEPT ![u].active = FALSE]
    BY <1>1 DEF WriteDeactivated
  <2> QED
    BY <1>2, <2>1 DEF DataType
<1> HIDE DEF x
<1>5. /\ users' \in [Users -> Row \cup {None}] /\ users'[u] = x
      /\ \A v \in Users \ {u} : users'[v] = users[v]
  BY <1>2, <1>3, <1>4 DEF DataType
<1>6. SuperuserRemains'
  BY <1>0, <1>1, <1>5, SuperuserStays
<1>7. RowsUsed' /\ PendingPlain' /\ Ages
  BY <1>0, <1>2, <1>3, <1>5 DEF Sound, RowsUsed, PendingPlain, Ages, DataType
<1>8. MailSound' /\ SpentIsVerified'
  <2>1. \A m \in MailIds : mail[m] # None => mail[m].owner \in Users
    BY <1>2 DEF DataType, Mail
  <2> QED
    BY <1>0, <1>2, <1>3, <1>5, <2>1 DEF Sound, MailSound, SpentIsVerified
<1>9. OneOpenReset'
  BY <1>0, <1>2 DEF Sound, OneOpenReset, OpenResets
<1>10. \A q \in Requests \ {r} : Spares(q)
  BY <1>0, <1>2, <1>5 DEF Spares
<1>11. DataType' /\ Sound'
  BY <1>0, <1>2, <1>5, <1>6, <1>7, <1>8, <1>9 DEF DataType, Sound
<1> QED
  BY <1>7, <1>10, <1>11, AfterEnd

LEMMA DeletedKept ==
    ASSUME Inv, NEW r \in Requests, WriteDeleted(r), End(r)
    PROVE  Inv'
<1>0. req[r].op = "delete" /\ req[r].pc = "write" /\ UNCHANGED used
  BY DEF WriteDeleted, At
<1>1. PICK u \in Users : u = Owner(req[r]) /\ u = req[r].user
  <2>1. Owner(req[r]) \in Users
    BY <1>0, Writing
  <2> QED
    BY <1>0, <2>1 DEF Owner
<1>2. /\ DataType /\ Sound /\ users[u] # None /\ lock[<<"user", u>>] = r
  BY <1>0, <1>1, Writing
<1>3. /\ users' = [users EXCEPT ![u] = None]
      /\ oauth' = [s \in Subjects |-> IF oauth[s] = u THEN None ELSE oauth[s]]
      /\ keys' = [k \in Keys |-> IF keys[k] = u THEN None ELSE keys[k]]
      /\ enrolling' = enrolling \ {u}
      /\ mail' = [t \in MailIds |-> IF mail[t] # None /\ mail[t].owner = u THEN None ELSE mail[t]]
      /\ reset' = [t \in ResetIds |-> IF reset[t] # None /\ reset[t].owner = u THEN None ELSE reset[t]]
  BY <1>1 DEF WriteDeleted
<1>4. /\ users' \in [Users -> Row \cup {None}] /\ users'[u] = None
      /\ \A v \in Users \ {u} : users'[v] = users[v]
  BY <1>2, <1>3 DEF DataType
<1>5. DataType'
  BY <1>0, <1>2, <1>3, <1>4 DEF DataType
<1>6. SuperuserRemains'
  BY <1>0, <1>1, <1>4, SuperuserStays
<1>7. RowsUsed' /\ PendingPlain' /\ Ages
  BY <1>0, <1>2, <1>4 DEF Sound, RowsUsed, PendingPlain, Ages, DataType
<1>8. MailSound' /\ SpentIsVerified'
  <2>1. \A m \in MailIds : mail'[m] # None => mail'[m] = mail[m] /\ mail[m].owner \in Users \ {u}
    BY <1>2, <1>3 DEF DataType, Mail
  <2> QED
    BY <1>2, <1>4, <2>1 DEF Sound, MailSound, SpentIsVerified
<1>9. OneOpenReset'
  <2>1. \A v \in Users : OpenResets(v)' \subseteq OpenResets(v)
    BY <1>3 DEF OpenResets
  <2> QED
    BY <1>2, <2>1, FewerOpen DEF Sound
<1>10. \A q \in Requests \ {r} : Spares(q)
  <2> SUFFICES ASSUME NEW q \in Requests \ {r}, NEW v \in Users, lock[<<"user", v>>] = q, users[v] # None
               PROVE  /\ users'[v] = users[v]
                      /\ \A t \in MailIds : mail[t] # None /\ mail[t].owner = v => mail'[t] = mail[t]
                      /\ \A t \in ResetIds : reset[t] # None /\ reset[t].owner = v => reset'[t] = reset[t]
                      /\ \A t \in ResetIds : reset'[t] # None => reset'[t] = reset[t]
    BY DEF Spares
  <2>1. v # u
    BY <1>2
  <2> QED
    BY <1>3, <1>4, <2>1
<1>11. Sound'
  BY <1>6, <1>7, <1>8, <1>9 DEF Sound
<1> QED
  BY <1>5, <1>7, <1>10, <1>11, AfterEnd

-----------------------------------------------------------------------------
LEMMA ServeKept ==
    ASSUME Inv, NEW r \in Requests, Serve(r)
    PROVE  Inv'
<1>1. CASE GiveUp(r) \/ Deadlock(r)
  BY <1>1, QuietEnd DEF GiveUp, Deadlock
<1>2. CASE Write(r)
  <2>1. CASE WriteSessions(r)
    BY <1>2, <2>1, QuietEnd DEF Write, WriteSessions
  <2> QED
    BY <1>2, <2>1, VerifiedKept, ResentKept, ForgotKept, ResetKept, DeactivatedKept, DeletedKept DEF Write
<1> QED
  BY <1>1, <1>2, SignupKept, CompleteEmailKept, SendTokenKept, LoginFoundKept, LoginCreateKept, LinkCommitKept,
     RemovalKept, AcquireKept, DecideKept DEF Serve

LEMMA InitInv ==
    ASSUME Init
    PROVE  Inv
<1>1. /\ users = Existing /\ used = {u \in Users : Existing[u] # None}
      /\ \A t \in MailIds : mail[t] = None
      /\ \A t \in ResetIds : reset[t] = None
      /\ \A r \in Requests : req[r] = Idle
  BY DEF Init
<1>2. TypeOK
  <2>1. Idle \in Query
    BY DEF Idle, Request, Query
  <2>2. /\ users \in [Users -> Row \cup {None}] /\ oauth \in [Subjects -> Users \cup {None}]
        /\ keys \in [Keys -> Users \cup {None}]
    BY AccountsAssumption DEF Init
  <2>3. /\ mail \in [MailIds -> Mail \cup {None}] /\ reset \in [ResetIds -> Reset \cup {None}]
        /\ lock \in [Locks -> Requests \cup {None}] /\ req \in [Requests -> Query]
    BY <2>1 DEF Init
  <2>4. served \in 0..MaxRequests
    BY AccountsAssumption DEF Init
  <2> QED
    BY <2>2, <2>3, <2>4 DEF Init, TypeOK
<1>3. RowsUsed /\ PendingPlain
  BY <1>1, AccountsAssumption DEF RowsUsed, PendingPlain
<1>4. MailSound /\ SpentIsVerified
  BY <1>1 DEF MailSound, SpentIsVerified
<1>5. SuperuserRemains
  BY <1>1, AccountsAssumption DEF SuperuserRemains, ActiveSuperusers, Active
<1>6. OneOpenReset
  <2>1. \A u \in Users : OpenResets(u) = {}
    BY <1>1 DEF OpenResets
  <2>2. Cardinality({}) = 0
    BY FS_EmptySet
  <2> QED
    BY <2>1, <2>2 DEF OneOpenReset
<1>7. \A r \in Requests : Fits(req[r]) /\ WriteAt(r)
  BY <1>1 DEF Fits, WriteAt, Idle, Request, LockingOps
<1> QED
  BY <1>2, <1>3, <1>4, <1>5, <1>6, <1>7 DEF Inv, Sound

LEMMA NextInv ==
    ASSUME Inv, [Next]_vars
    PROVE  Inv'
<1>1. CASE PasskeyOptions \/ PasskeyRegister
  BY <1>1, PasskeyKept
<1>2. ASSUME NEW r \in Requests, Arrive(r) \/ OAuthLinkCallback(r) \/ Serve(r) \/ Fail(r)
      PROVE  Inv'
  <2>1. CASE Fail(r)
    BY <2>1, QuietEnd DEF Fail
  <2> QED
    BY <1>2, <2>1, ArriveKept, LinkCallbackKept, ServeKept
<1>3. CASE UNCHANGED vars
  <2>1. UNCHANGED <<data, lock, req, served>>
    BY <1>3 DEF vars, data
  <2>2. DataType' /\ Sound' /\ Ages /\ \A q \in Requests : Spares(q)
    BY <2>1, DataStays
  <2>3. RequestType'
    BY <2>1, TypeParts DEF Inv, RequestType
  <2>4. \A q \in Requests : Fits(req[q])' /\ WriteAt(q)'
    <3>1. \A q \in Requests : req'[q] = req[q] /\ KeepsLocks(q)
      BY <2>1 DEF KeepsLocks
    <3> QED
      BY <2>2, <3>1, OthersKept
  <2> QED
    BY <2>2, <2>3, <2>4 DEF Inv, TypeOK, DataType, RequestType
<1> QED
  BY <1>1, <1>2, <1>3 DEF Next

\* Every reachable state satisfies the inductive invariant.
THEOREM InvAlways == Spec => []Inv
<1>1. Init => Inv
  BY InitInv
<1>2. Inv /\ [Next]_vars => Inv'
  BY NextInv
<1> QED
  BY <1>1, <1>2, PTL DEF Spec

\* Every variable keeps its type.
THEOREM TypeCorrect == Spec => []TypeOK
<1>1. Inv => TypeOK
  BY DEF Inv
<1> QED
  BY <1>1, InvAlways, PTL

\* However many superusers deactivate or delete their accounts at the same
\* time, an active one remains.
THEOREM SuperuserRemainsAlways == Spec => []SuperuserRemains
<1>1. Inv => SuperuserRemains
  BY DEF Inv, Sound
<1> QED
  BY <1>1, InvAlways, PTL

\* At most one reset link of an account works.
THEOREM OneOpenResetAlways == Spec => []OneOpenReset
<1>1. Inv => OneOpenReset
  BY DEF Inv, Sound
<1> QED
  BY <1>1, InvAlways, PTL

\* The owner of a spent confirmation is confirmed.
THEOREM SpentIsVerifiedAlways == Spec => []SpentIsVerified
<1>1. Inv => SpentIsVerified
  BY DEF Inv, Sound
<1> QED
  BY <1>1, InvAlways, PTL

\* An identity goes to an account made for it, or to the one that started
\* the linking flow.
THEOREM NeverMergedAlways == Spec => NeverMerged
<1> DEFINE Body == \A s \in Subjects :
           oauth[s] = None /\ oauth'[s] # None =>
               \/ users[oauth'[s]] = None
               \/ \E r \in Requests : At(r, "link", "commit") /\ req[r].starter = oauth'[s]
<1>1. Inv /\ [Next]_vars => [Body]_vars
  <2> SUFFICES ASSUME Inv, Next, NEW s \in Subjects, oauth[s] = None, oauth'[s] # None
               PROVE  \/ users[oauth'[s]] = None
                      \/ \E r \in Requests : At(r, "link", "commit") /\ req[r].starter = oauth'[s]
    OBVIOUS
  <2>0. DataType /\ Sound
    BY TypeParts DEF Inv
  <2>1. ~UNCHANGED oauth
    OBVIOUS
  <2>2. PICK r \in Requests : OAuthLoginCreate(r) \/ OAuthLinkCommit(r) \/ OAuthUnlinkCommit(r) \/ WriteDeleted(r)
    <3>1. ~PasskeyOptions /\ ~PasskeyRegister
      BY <2>1 DEF PasskeyOptions, PasskeyRegister
    <3>2. PICK r \in Requests : Arrive(r) \/ OAuthLinkCallback(r) \/ Serve(r) \/ Fail(r)
      BY <3>1 DEF Next
    <3>3. ~Arrive(r)
      BY <2>1 DEF Arrive, Signup, CompleteEmail, OAuthLogin, OAuthLink, OAuthUnlink, PasskeyRemove, VerifyEmail,
         ResetPassword, ForgotPassword, Resend, ChangePassword, Rotate, Deactivate, DeleteAccount, SignedIn,
         Begin, data
    <3>4. ~OAuthLinkCallback(r) /\ ~Fail(r)
      BY <2>1 DEF OAuthLinkCallback, Fail, data
    <3>5. ~SignupCommit(r) /\ ~CompleteEmailCommit(r) /\ ~SendToken(r) /\ ~OAuthLoginFound(r)
          /\ ~PasskeyRemoveCommit(r)
      BY <2>1 DEF SignupCommit, CompleteEmailCommit, SendToken, OAuthLoginFound, PasskeyRemoveCommit, data
    <3>6. ~Acquire(r) /\ ~Decide(r) /\ ~GiveUp(r) /\ ~Deadlock(r)
      BY <2>1 DEF Acquire, Decide, GiveUp, Deadlock, data
    <3>7. Write(r) => WriteDeleted(r)
      BY <2>1 DEF Write, WriteVerified, WriteResent, WriteForgot, WriteReset, WriteSessions, WriteDeactivated, data
    <3> QED
      BY <3>2, <3>3, <3>4, <3>5, <3>6, <3>7 DEF Serve
  <2>3. CASE OAuthLoginCreate(r)
    <3>1. PICK u \in Users \ used : oauth' = [oauth EXCEPT ![req[r].arg] = u]
      BY <2>1, <2>3 DEF OAuthLoginCreate, data
    <3>2. oauth'[s] = u
      BY <2>0, <3>1 DEF DataType
    <3> QED
      BY <2>0, <3>1, <3>2 DEF Sound, RowsUsed
  <2>4. CASE OAuthLinkCommit(r)
    <3>1. oauth' = [oauth EXCEPT ![req[r].arg] = req[r].user] /\ At(r, "link", "commit")
      BY <2>1, <2>4 DEF OAuthLinkCommit
    <3>2. oauth'[s] = req[r].user
      BY <2>0, <3>1 DEF DataType
    <3>3. req[r].starter = req[r].user
      BY <3>1, Member DEF Fits, At
    <3> QED
      BY <3>1, <3>2, <3>3
  <2>5. CASE OAuthUnlinkCommit(r) \/ WriteDeleted(r)
    BY <2>0, <2>5 DEF OAuthUnlinkCommit, WriteDeleted, DataType
  <2> QED
    BY <2>2, <2>3, <2>4, <2>5
<1> QED
  BY <1>1, InvAlways, PTL DEF Spec, NeverMerged
=============================================================================
